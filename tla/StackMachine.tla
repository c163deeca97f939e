------------------------------ MODULE StackMachine ------------------------------
(***************************************************************************)
(* What the machine of pkg/at promises: words of data, and two stacks that *)
(* hold what was pushed on them and give it back last in, first out.  The  *)
(* code keeps all three in one array of bytes, the stacks growing down     *)
(* towards the data.                                                       *)
(***************************************************************************)
EXTENDS Integers, Sequences

CONSTANTS DataWords, CallWords, UserWords,
          CallLength          \* of the instruction that calls

VARIABLES data, calls, user, pc, running

vars == <<data, calls, user, pc, running>>

Address == 0..DataWords - 1

Init == /\ data = [k \in Address |-> 0] /\ calls = <<>> /\ user = <<>>
        /\ pc = 0 /\ running = TRUE

\* Any instruction but those below: it writes one word of data at most.
Compute ==
    /\ \/ data' = data
       \/ \E k \in Address : \A j \in Address \ {k} : data'[j] = data[j]
    /\ DOMAIN data' = Address
    /\ UNCHANGED <<calls, user, running>>

Push == /\ Len(user) < UserWords
        /\ \E k \in Address : user' = Append(user, data[k])
        /\ UNCHANGED <<data, calls, running>>

Pop == /\ \E k \in Address :
              /\ user = Append(user', data'[k])
              /\ \A j \in Address \ {k} : data'[j] = data[j]
       /\ DOMAIN data' = Address
       /\ UNCHANGED <<calls, running>>

Call == /\ Len(calls) < CallWords
        /\ calls' = Append(calls, pc + CallLength) /\ pc' \in Address
        /\ UNCHANGED <<data, user, running>>

Return == /\ calls = Append(calls', pc')
          /\ UNCHANGED <<data, user, running>>

\* The program ends, with an error or not.  It has written nothing, unless the
\* error is a call on a full stack: then the last word of data is lost.
Stop == /\ running' = FALSE
        /\ \/ data' = data
           \/ /\ Len(calls) = CallWords
              /\ data' = [data EXCEPT ![DataWords - 1] = pc - 1]
        /\ UNCHANGED <<calls, user>>

Next == running = TRUE /\ (Compute \/ Push \/ Pop \/ Call \/ Return \/ Stop)

Spec == Init /\ [][Next]_vars
=============================================================================
