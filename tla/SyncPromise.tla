---------------------------- MODULE SyncPromise ----------------------------
(***************************************************************************)
(* What the Sync command promises a device about one collection: the       *)
(* abstract specification of SyncCommand                                   *)
(* (src/src/commands/SyncCommand.ts, src/src/models/EasCollectionState.ts).*)
(*                                                                         *)
(* A SyncKey names a set of items.  The server accepts at most two keys:   *)
(* the one it issued last and the one that it was issued for.  A round     *)
(* starts from the set that an accepted key names, and what it writes last *)
(* makes its own key and the one it started from the accepted ones, at     *)
(* once or after all keys were withdrawn; it may also be abandoned.  The   *)
(* device moves from key to key as it takes the answers, and what it then  *)
(* has is what its key names.                                              *)
(***************************************************************************)
EXTENDS Integers

CONSTANT Items  \* ServerIds

\* A key is its generation and a cursor; the device's first key is a restart's.
Keys     == (Nat \ {0}) \X Nat
StartKey == <<1, 0>>
Zero     == <<0, 0>>

VARIABLES
    key,    \* the device's key, Zero if it has none
    held,   \* what the device has
    names,  \* the set that each accepted key names
    saving  \* the key withdrawn for the round being saved, with its set

vars == <<key, held, names, saving>>

NoNames == [k \in {} |-> {}]

Init == key = Zero /\ held = {} /\ names = NoNames /\ saving = {}

\* The accepted keys after a round from key k, which named `from`.  No round goes
\* on from a key that the device has left behind.
IsRound(k, from) ==
    \E n \in DOMAIN names' :
        /\ key[1] <= k[1]
        /\ n \in Keys
        /\ n[1] = k[1] + 1
        /\ DOMAIN names' = {k, n}
        /\ names'[k] = from

\* A round is saved at once.
Advance ==
    /\ names' # names
    /\ \E k \in DOMAIN names : IsRound(k, names[k])
    /\ UNCHANGED <<key, held, saving>>

\* A round begins to be saved: until that is done no key is accepted.
Withdraw ==
    /\ saving' # {}
    /\ names' = NoNames
    /\ \E k \in DOMAIN names : saving' = {<<k, names[k]>>}
    /\ UNCHANGED <<key, held>>

Publish ==
    /\ saving' = {}
    /\ \E s \in saving : IsRound(s[1], s[2])
    /\ UNCHANGED <<key, held>>

Abandon ==
    /\ saving' = {}
    /\ saving # {}
    /\ UNCHANGED <<key, held, names>>

\* A device without a key is promised nothing but a first key.
Reset ==
    /\ key = Zero
    /\ saving = {}
    /\ DOMAIN names' \subseteq Keys
    /\ UNCHANGED <<key, held, saving>>

\* The device takes an answer.
Take ==
    /\ IF key = Zero THEN key' = StartKey ELSE key'[1] = key[1] + 1
    /\ key' \in DOMAIN names
    /\ held' = names[key']
    /\ UNCHANGED <<names, saving>>

StartOver ==
    /\ key # Zero
    /\ key' = Zero
    /\ held' = {}
    /\ UNCHANGED <<names, saving>>

\* An item ceases to exist, and nobody counts it any more.
Vanish ==
    /\ UNCHANGED key
    /\ names' # names \/ held' # held \/ saving' # saving
    /\ DOMAIN names' = DOMAIN names
    /\ \E i \in Items :
          /\ names' = [k \in DOMAIN names |-> names[k] \ {i}]
          /\ held' = held \ {i}
          /\ saving' = {<<s[1], s[2] \ {i}>> : s \in saving}

Next ==
    \/ Advance \/ Withdraw \/ Publish \/ Abandon
    \/ Reset \/ Take \/ StartOver \/ Vanish

Spec == Init /\ [][Next]_vars
-----------------------------------------------------------------------------
(* Properties.                                                             *)

\* Whatever is lost, retried or abandoned: as long as the device's key is
\* accepted, or comes to be accepted again when the round at work is saved, it
\* names exactly what the device has.
KeyNamesHeld ==
    /\ key \in DOMAIN names => names[key] = held
    /\ \A s \in saving : s[1] = key => s[2] = held
=============================================================================
