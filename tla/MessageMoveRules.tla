-------------------------- MODULE MessageMoveRules --------------------------
(* Which messages an ActiveSync client may move, delete or rewrite           *)
(* (src/src/MessageMoveRules.ts).                                            *)
EXTENDS FiniteSets

\* "Other": Inbox, Sent Items, Deleted Items and every folder without rules of its own.
Folders == {"Drafts", "Outbox", "Other"}

\* A message row.  `queued`: scheduledSendTime is set; `lease`: the job's
\* scheduledSendLeaseExpiresAt; `relayed`: scheduledSendRelayedAt, from the relay
\* until the message is filed; `delivered`: a mark that only a delivery leaves.
Message == [place : Folders \cup {"gone"}, queued : BOOLEAN,
            lease : {"none", "live", "lapsed"}, relayed : BOOLEAN,
            delivered : BOOLEAN, flags : SUBSET {"read", "answered"}]

\* Mutant of hasLiveSendLease: the lease is not looked at.
hasLiveSendLeaseNever(m) == FALSE

hasLiveSendLease(m) == m.lease = "live"

\* What was delivered was not queued by a send, even if a filter filed it there.
CancelsSend(m) == m.place = "Outbox" /\ ~m.delivered

\* Mutant of planMessageMove: a message that was relayed can be taken back.
planMessageMoveUnmarked(m, to) ==
    /\ ~hasLiveSendLease(m)
    /\ to # "Outbox"
    /\ to = "Drafts" => m.place = "Drafts" \/ CancelsSend(m)

\* Mutant of planMessageMove: Drafts is a destination like any other.
planMessageMoveIntoDrafts(m, to) ==
    /\ ~hasLiveSendLease(m)
    /\ to # "Outbox"
    /\ m.place = "Outbox" => ~m.relayed

\* Whether the move is allowed, with `moved` as its patch.
planMessageMove(m, to) ==
    /\ ~hasLiveSendLease(m)
    /\ to # "Outbox"
    /\ to = "Drafts" => m.place = "Drafts" \/ CancelsSend(m)
    /\ m.place = "Outbox" => ~m.relayed

\* The row after a move of what was read as `m`: out of Outbox, the scheduled send
\* is cancelled.
moved(row, m, to) ==
    IF m.place = "Outbox" THEN [row EXCEPT !.place = to, !.queued = FALSE, !.lease = "none"]
    ELSE [row EXCEPT !.place = to]

isGenuineDraft(m) == m.place = "Drafts" /\ ~m.delivered /\ ~m.relayed
=============================================================================
