---------------------------- MODULE AdapterUse -----------------------------
(***************************************************************************)
(* A caller of the adapter interface: Create, Exec and Destroy in any      *)
(* order, Destroy repeated as SPEC.md section 2 allows an operator to.     *)
(*                                                                         *)
(* The caller remembers what it was told, which is what the interface      *)
(* promises are about: the last call, the name of the last sandbox, whether*)
(* its Create returned nil, and whether a Destroy of it has failed.        *)
(***************************************************************************)
EXTENDS DockerAdapter, Naturals

CONSTANT MaxCalls   \* bound: calls of the interface in one behaviour

ASSUME CallsAssumption == MaxCalls \in Nat

VARIABLES
  last,      \* the operation called last
  tried,     \* the name of the last Create the adapter took up
  made,      \* that name once the Create has returned nil
  retrying,  \* a Destroy has returned an error since
  calls      \* number of calls so far

callerVars == <<last, tried, made, retrying, calls>>
useVars == <<adapterVars, callerVars>>

UseTypeOK ==
  /\ AdapterTypeOK
  /\ last \in {"none", "create", "exec", "destroy"}
  /\ tried \in Names \cup {NoName} /\ made \in Names \cup {NoName}
  /\ retrying \in BOOLEAN
  /\ calls \in 0..MaxCalls

UseInit ==
  /\ AdapterInit
  /\ last = "none" /\ tried = NoName /\ made = NoName
  /\ retrying = FALSE /\ calls = 0

Calls(op) == calls < MaxCalls /\ calls' = calls + 1 /\ last' = op

CallCreate(n) ==
  /\ Calls("create") /\ AdapterCreate(n)
  /\ \/ adapter.name # NoName /\ UNCHANGED <<tried, made, retrying>>
     \/ adapter.name = NoName /\ tried' = n /\ made' = NoName /\ retrying' = FALSE

CallExec ==
  /\ Calls("exec") /\ AdapterExec
  /\ UNCHANGED <<tried, made, retrying>>

CallDestroy ==
  /\ Calls("destroy") /\ AdapterDestroy
  /\ UNCHANGED <<tried, made, retrying>>

(* A step of a command, and what the caller learns when it returns. *)
Learns ==
  /\ made' = IF last = "create" /\ reply' = "nil" THEN tried ELSE made
  /\ retrying' = (retrying \/ (last = "destroy" /\ reply' \in Errors))
  /\ UNCHANGED <<last, tried, calls>>

UseDeadlined == DeadlinedCommand /\ Learns
UseUndo == UndoCommand /\ Learns

UseDone == calls = MaxCalls /\ call = "idle" /\ UNCHANGED useVars

UseNext ==
  \/ \E n \in Names : CallCreate(n)
  \/ CallExec \/ CallDestroy
  \/ UseDeadlined \/ UseUndo
  \/ UseDone

UseSpec == UseInit /\ [][UseNext]_useVars

(* Commands with a deadline end; nothing makes the two undo commands end.  *)
UseFairSpec == UseSpec /\ WF_useVars(UseDeadlined)

-----------------------------------------------------------------------------
(* A container that was there before is never touched: docker create       *)
(* refuses its name, and a Create that failed leaves nothing to destroy    *)
(* (the created field of the adapter).                                     *)
ForeignContainerKept ==
  [][\A n \in Names : container[n] = "foreign" => container'[n] = "foreign"]_useVars

(* A sandbox whose Create returned nil is not forgotten while its container*)
(* exists: between calls the adapter still names it, so that Destroy can be*)
(* called again.                                                           *)
ContainerNeverForgotten ==
  (call = "idle" /\ made # NoName /\ container[made] \in Ours)
    => adapter = [name |-> made, created |-> TRUE]

(* When the first Destroy of a sandbox returns nil, neither its container  *)
(* nor its workspace volume is left.                                       *)
FirstDestroyRemovesAll ==
  (call = "idle" /\ last = "destroy" /\ reply = "nil" /\ made # NoName
     /\ ~retrying)
    => container[made] = "absent" /\ volume[made] = "absent"

(* Create reports success only for a container that runs with a workspace. *)
CreateNilMeansRunning ==
  (call = "idle" /\ last = "create" /\ reply = "nil")
    => container[tried] = "running" /\ volume[tried] # "absent"

(* Exec and Destroy return whatever the daemon does: their commands have a *)
(* deadline and none of them is repeated.                                  *)
DeadlinedCallsReturn ==
  (call # "idle" /\ last \in {"exec", "destroy"}) ~> (call = "idle")

-----------------------------------------------------------------------------
(* What the documents say and the code does not do. *)

(* SPEC.md line 35: Create takes at most 30 seconds, so it returns.        *)
CreateReturns == (call # "idle" /\ last = "create") ~> (call = "idle")

(* SPEC.md line 34: a failed Destroy can be retried, so a Destroy that     *)
(* finally returns nil has left no workspace volume.                       *)
RetriedDestroyRemovesVolume ==
  (call = "idle" /\ last = "destroy" /\ reply = "nil" /\ made # NoName)
    => volume[made] = "absent"

(* SPEC.md line 34: Destroy is called after a failed Create too, so when it*)
(* returns nil no container of that Create is left.                        *)
DestroyUndoesFailedCreate ==
  (call = "idle" /\ last = "destroy" /\ reply = "nil" /\ tried # NoName)
    => container[tried] \notin Ours
=============================================================================
