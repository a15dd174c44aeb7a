--------------------------- MODULE MCMailCommands ---------------------------
EXTENDS MailCommands, TLC

\* Nothing tells one message, or one request, from another.
Symmetry == Permutations(Messages) \cup Permutations(Reqs)
=============================================================================
