--------------------------- MODULE BuildDirectory ---------------------------
(***************************************************************************)
(* What a build may rely on: an invocation of the compiler works on one    *)
(* output file, which afterwards is what was asked for, in full, if the    *)
(* invocation succeeds, and is as before or gone if it fails or is killed. *)
(***************************************************************************)
CONSTANTS Files,      \* the files outputs may go to; Stdout is another place
          Stdout, Absent,
          Forms,      \* the forms of output
          NoName

(* An invocation is asked for an output of some form, of the unit or of the *)
(* main of its program, and may be told where to put it.                    *)
Requests == [form : Forms, main : BOOLEAN, name : Files \cup {Stdout, NoName}]

VARIABLES dir,        \* what each file holds: nothing, or a form and whether main
          request,    \* what the invocation under way is to do
          place,      \* where its output goes, once it has begun to replace it
          status      \* "idle", "running", "succeeded", "failed" or "killed"

vars == <<dir, request, place, status>>

Init ==
  /\ dir = [f \in Files |-> Absent]
  /\ request \in Requests
  /\ place = NoName /\ status = "idle"

Invoke ==
  /\ status # "running"
  /\ status' = "running" /\ place' = NoName
  /\ request' \in Requests
  /\ UNCHANGED dir

Output(r) == [form |-> r.form, main |-> r.main]

(* A name the request gives is used; without one, only a file that holds    *)
(* an earlier output of the same kind, or nothing, may be replaced.          *)
MayReplace(p) ==
  IF request.name # NoName THEN p = request.name
  ELSE p \in Files => dir[p] \in {Absent, Output(request)}

Begin(p) ==
  /\ status = "running" /\ place = NoName
  /\ MayReplace(p)
  /\ place' = p
  /\ dir' = [f \in Files |-> IF f = p THEN Absent ELSE dir[f]]
  /\ UNCHANGED <<request, status>>

Succeed ==
  /\ status = "running" /\ place # NoName
  /\ status' = "succeeded" /\ place' = NoName
  /\ dir' = [f \in Files |-> IF f = place THEN Output(request) ELSE dir[f]]
  /\ request' \in Requests

Stop(how) ==
  /\ status = "running"
  /\ status' = how /\ place' = NoName
  /\ request' \in Requests
  /\ UNCHANGED dir

Next ==
  \/ Invoke
  \/ \E p \in Files \cup {Stdout} : Begin(p)
  \/ Succeed
  \/ \E how \in {"failed", "killed"} : Stop(how)

Spec == Init /\ [][Next]_vars
=============================================================================
