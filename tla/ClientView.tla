----------------------------- MODULE ClientView -----------------------------
(***************************************************************************)
(* What a relayer node promises the client of a transaction: one execution  *)
(* at most, and a story it can act upon: an error and nothing more, or the  *)
(* hashes of the attempts, one of them the one that is executed, and, once  *)
(* executed and not before, the receipt.  A replacement that was under way  *)
(* then may still be told of, and ends the story.  An error is no promise   *)
(* that nothing is executed: the answer of the network may have been lost.  *)
(***************************************************************************)
EXTENDS Naturals

CONSTANTS
  Ids,       \* transactionIds
  Attempts   \* the attempts of each, in their order

VARIABLES
  told,      \* what the client of an id knows
  hashes,    \* how many hashes it was told, of the first attempts
  executed   \* the attempts of an id that were executed

viewVars == <<told, hashes, executed>>

Init ==
  /\ told = [t \in Ids |-> "nothing"]
  /\ hashes = [t \in Ids |-> 0]
  /\ executed = [t \in Ids |-> {}]

Tell(t, what) ==
  /\ told' = [told EXCEPT ![t] = what]
  /\ UNCHANGED executed

TellError(t) == told[t] = "nothing" /\ Tell(t, "error") /\ UNCHANGED hashes

AnotherHash(t) == hashes' = [hashes EXCEPT ![t] = @ + 1]

TellHash(t) == told[t] \in {"nothing", "hash"} /\ Tell(t, "hash") /\ AnotherHash(t)

TellMined(t) ==
  /\ told[t] = "hash"
  /\ \E n \in executed[t] : n <= hashes[t]
  /\ Tell(t, "mined") /\ UNCHANGED hashes

TellLateHash(t) == told[t] = "mined" /\ Tell(t, "late hash") /\ AnotherHash(t)

Execute(t, n) ==
  /\ executed[t] = {}
  /\ executed' = [executed EXCEPT ![t] = {n}]
  /\ UNCHANGED <<told, hashes>>

Next ==
  \E t \in Ids :
    \/ TellError(t) \/ TellHash(t) \/ TellMined(t) \/ TellLateHash(t)
    \/ \E n \in Attempts : Execute(t, n)

Spec == Init /\ [][Next]_viewVars
=============================================================================
