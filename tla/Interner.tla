------------------------------ MODULE Interner ------------------------------
(***************************************************************************)
(* What libindexdb's StringTable promises: it gives each string an ID, the *)
(* same one for as long as the table is not finalized, IDs count up from   *)
(* the first string, and finalizing renumbers them in the strings' order.  *)
(* An ID is 1 more than the code's, so that it is a position.              *)
(***************************************************************************)
EXTENDS Naturals, Sequences

CONSTANT String   \* natural numbers; a smaller one stands for a smaller string

VARIABLES strings,  \* strings[id]
          answer,   \* what the last call returned, 0 for kInvalidID
          renumber  \* renumber[id]: the ID after finalizing, <<>> before

internerVars == <<strings, answer, renumber>>

InternerInit ==
    /\ strings = <<>>
    /\ answer = 0
    /\ renumber = <<>>

Position(s) == {i \in 1..Len(strings) : strings[i] = s}

Intern(s) ==
    /\ strings' = IF Position(s) = {} THEN Append(strings, s) ELSE strings
    /\ answer' \in 1..Len(strings') /\ strings'[answer'] = s
    /\ UNCHANGED renumber

(* A string that was never inserted has no ID. *)
Ask(s) ==
    /\ answer' \in IF Position(s) = {} THEN {0} ELSE Position(s)
    /\ UNCHANGED <<strings, renumber>>

Renumber ==
    /\ renumber = <<>>
    /\ strings' \in [1..Len(strings) -> {strings[i] : i \in 1..Len(strings)}]
    /\ \A i, j \in 1..Len(strings) : i < j => strings'[i] < strings'[j]
    /\ renumber' \in [1..Len(strings) -> 1..Len(strings)]
    /\ \A i \in 1..Len(strings) : strings'[renumber'[i]] = strings[i]
    /\ UNCHANGED answer

InternerNext == Renumber \/ \E s \in String : Intern(s) \/ Ask(s)

InternerSpec == InternerInit /\ [][InternerNext]_internerVars
=============================================================================
