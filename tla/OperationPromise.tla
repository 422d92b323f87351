--------------------------- MODULE OperationPromise ---------------------------
(***************************************************************************)
(* What an Endpoint Operation promises its caller, with no sessions, rows  *)
(* or frames: it waits, a single piece of its work is out at the device at *)
(* any time, the pieces are completed in sequence, and it ends exactly     *)
(* once - in success only when every piece succeeded.                      *)
(***************************************************************************)
EXTENDS Naturals

CONSTANTS Op,    \* operations
          Size   \* Size[o]: how many pieces operation o consists of

Ends == {"succeeded", "failed", "canceled", "expired"}

VARIABLES phase, \* "none", "waiting", "out" or how the operation ended
          done   \* the pieces that succeeded

promise == <<phase, done>>

PromiseInit ==
    /\ phase = [o \in Op |-> "none"]
    /\ done = [o \in Op |-> {}]

Create(o) ==
    /\ phase[o] = "none"
    /\ phase' = [phase EXCEPT ![o] = "waiting"]
    /\ UNCHANGED done

\* A caller may only withdraw an operation none of whose work has left.
Cancel(o) ==
    /\ phase[o] = "waiting" /\ done[o] = {}
    /\ phase' = [phase EXCEPT ![o] = "canceled"]
    /\ UNCHANGED done

\* The operations of E run out of time, and the next piece of an operation of
\* O (at most one operation) goes out.
ExpireAndDispatch(E, O) ==
    /\ \A o \in E : phase[o] \in {"waiting", "out"}
    /\ \A o \in O : phase[o] = "waiting"
    /\ \A o, p \in O : o = p
    /\ E \cap O = {}
    /\ phase' = [o \in Op |-> IF o \in E THEN "expired"
                              ELSE IF o \in O THEN "out" ELSE phase[o]]
    /\ UNCHANGED done

\* The piece that is out succeeds: it is the one after those already done.
Complete(o, k) ==
    /\ phase[o] = "out"
    /\ done[o] = 0 .. (k - 1) /\ k < Size[o]
    /\ done' = [done EXCEPT ![o] = 0 .. k]
    /\ phase' = [phase EXCEPT ![o] = IF k + 1 = Size[o] THEN "succeeded" ELSE "waiting"]

\* The piece that is out ends in any other way, and the operation with it.
Fail(o, end) ==
    /\ phase[o] = "out"
    /\ end \in Ends \ {"succeeded"}
    /\ phase' = [phase EXCEPT ![o] = end]
    /\ UNCHANGED done

PromiseNext ==
    \/ \E o \in Op : Create(o) \/ Cancel(o)
    \/ \E E, O \in SUBSET Op : ExpireAndDispatch(E, O)
    \/ \E o \in Op : \E k \in 0 .. (Size[o] - 1) : Complete(o, k)
    \/ \E o \in Op, end \in Ends : Fail(o, end)

PromiseSpec == PromiseInit /\ [][PromiseNext]_promise

=============================================================================
