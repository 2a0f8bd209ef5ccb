--------------------------- MODULE AdapterProofs ----------------------------
(***************************************************************************)
(* Theorems about the Docker adapter, for every set of names, every number *)
(* of calls and every way the daemon's commands may fail.                  *)
(*                                                                         *)
(* What a caller is told depends on what happened commands earlier, so the *)
(* invariants of AdapterUse are strengthened by what holds while a command *)
(* runs (Commanding) and by what the adapter's two fields say of the last  *)
(* sandbox (Knowing).                                                      *)
(***************************************************************************)
EXTENDS AdapterUse, TLAPS

-----------------------------------------------------------------------------
(* The steps of the adapter, for every caller of it. *)

(* What docker rm and docker volume rm do to the named container or volume,*)
(* and to no other.                                                        *)
LEMMA ContainerRemoval ==
  ASSUME AdapterTypeOK, adapter.name \in Names, NEW outcome \in Outcomes,
         RemoveContainer(outcome)
  PROVE  /\ container' \in [Names -> {"absent", "foreign"} \cup Ours]
         /\ container'[adapter.name] \in {"absent", container[adapter.name]}
         /\ outcome = "nil" => container'[adapter.name] = "absent"
         /\ \A n \in Names \ {adapter.name} : container'[n] = container[n]
BY DEF AdapterTypeOK, RemoveContainer

LEMMA VolumeRemoval ==
  ASSUME AdapterTypeOK, adapter.name \in Names, NEW outcome \in Outcomes,
         RemoveVolume(outcome)
  PROVE  /\ volume' \in [Names -> {"absent", "foreign", "own"}]
         /\ outcome = "nil" => volume'[adapter.name] = "absent"
         /\ \A n \in Names \ {adapter.name} : volume'[n] = volume[n]
BY DEF AdapterTypeOK, RemoveVolume

(* Every call of the adapter and every docker command keeps the types. *)
LEMMA AdapterTypeStep ==
  ASSUME AdapterTypeOK, call # "idle" => adapter.name \in Names,
         \/ \E n \in Names : AdapterCreate(n)
         \/ AdapterExec \/ AdapterDestroy \/ DeadlinedCommand \/ UndoCommand
  PROVE  AdapterTypeOK'
<1> USE NoNameAssumption DEF AdapterTypeOK, Returns, Runs, FreshAdapter
<1>1. {"nil", "error", "deadline"} = Outcomes /\ Ours = {"created", "running"}
  BY DEF Outcomes, Errors, Ours
<1>2. ASSUME NEW n \in Names, AdapterCreate(n) PROVE AdapterTypeOK'
  <2>1. adapter' \in {adapter, [adapter EXCEPT !.name = n]}
    BY <1>2 DEF AdapterCreate
  <2>2. adapter' \in [name: Names \cup {NoName}, created: BOOLEAN]
    BY <2>1
  <2> QED
    BY <1>1, <1>2, <2>2 DEF AdapterCreate
<1>3. CASE AdapterExec
  BY <1>1, <1>3 DEF AdapterExec
<1>4. CASE AdapterDestroy
  BY <1>1, <1>4 DEF AdapterDestroy
<1>5. CASE DockerCreated
  BY <1>1, <1>5 DEF DockerCreated, Mounted
<1>6. CASE DockerCreateFails
  BY <1>1, <1>6 DEF DockerCreateFails, Mounted
<1>7. CASE DockerStarted
  BY <1>1, <1>7 DEF DockerStarted
<1>8. CASE DockerStartFails
  BY <1>1, <1>8 DEF DockerStartFails
<1>9. ASSUME NEW outcome \in Outcomes, DockerExecEnds(outcome) PROVE AdapterTypeOK'
  BY <1>9 DEF DockerExecEnds
<1>10. ASSUME NEW outcome \in Outcomes, DestroyContainer(outcome) PROVE AdapterTypeOK'
  BY <1>10, ContainerRemoval DEF DestroyContainer
<1>11. ASSUME NEW outcome \in Outcomes, DestroyVolume(outcome) PROVE AdapterTypeOK'
  <2>1. volume' \in [Names -> {"absent", "foreign", "own"}]
    BY <1>11, VolumeRemoval DEF DestroyVolume
  <2>2. adapter' \in {adapter, FreshAdapter}
    BY <1>11 DEF DestroyVolume
  <2>3. adapter' \in [name: Names \cup {NoName}, created: BOOLEAN]
    <3>1. FreshAdapter \in [name: Names \cup {NoName}, created: BOOLEAN]
      OBVIOUS
    <3> HIDE DEF FreshAdapter
    <3> QED
      BY <2>2, <3>1
  <2> QED
    BY <1>1, <1>11, <2>1, <2>3 DEF DestroyVolume
<1>12. CASE UndoContainer
  BY <1>12, ContainerRemoval DEF UndoContainer
<1>13. CASE UndoVolume
  <2>1. volume' \in [Names -> {"absent", "foreign", "own"}]
    BY <1>13, VolumeRemoval DEF UndoVolume
  <2> QED
    BY <1>1, <1>13, <2>1 DEF UndoVolume
<1> QED
  BY <1>2, <1>3, <1>4, <1>5, <1>6, <1>7, <1>8, <1>9, <1>10, <1>11, <1>12, <1>13
     DEF DeadlinedCommand, UndoCommand

-----------------------------------------------------------------------------
(* A caller of the interface. *)

Commanding ==
  /\ call # "idle" => adapter.name \in Names
  /\ call \in {"create", "start", "undoContainer", "undoVolume"} =>
       last = "create" /\ tried = adapter.name /\ made = NoName
  /\ call = "exec" => last = "exec"
  /\ call \in {"removeContainer", "removeVolume"} => last = "destroy"
  /\ call = "create" => ~adapter.created
  /\ call \in {"start", "undoContainer", "undoVolume", "removeContainer", "removeVolume"} =>
       adapter.created
  /\ call = "start" => container[adapter.name] \in Ours /\ volume[adapter.name] # "absent"
  /\ call = "removeVolume" /\ containerErr = "nil" => container[adapter.name] = "absent"

Knowing ==
  /\ adapter.created =>
       /\ adapter.name \in Names /\ tried = adapter.name
       /\ container[adapter.name] # "foreign"
  /\ adapter.created /\ call \notin {"start", "undoContainer", "undoVolume"} =>
       made = adapter.name
  /\ made # NoName => made = tried
  /\ made # NoName /\ ~adapter.created =>
       /\ adapter = FreshAdapter /\ container[made] \notin Ours
       /\ ~retrying => container[made] = "absent" /\ volume[made] = "absent"
  /\ call = "idle" /\ last = "destroy" /\ reply = "nil" => ~adapter.created

UseInv == UseTypeOK /\ Commanding /\ Knowing /\ CreateNilMeansRunning

-----------------------------------------------------------------------------
LEMMA UseInvInit == UseInit => UseInv
<1> SUFFICES ASSUME UseInit PROVE UseInv
  OBVIOUS
<1> USE NoNameAssumption, CallsAssumption DEF UseInit, AdapterInit, FreshAdapter
<1>1. UseTypeOK
  <2>1. container \in [Names -> {"absent", "foreign"} \cup Ours]
        /\ volume \in [Names -> {"absent", "foreign", "own"}]
    OBVIOUS
  <2>2. AdapterTypeOK
    BY <2>1 DEF AdapterTypeOK, Outcomes
  <2>3. calls \in 0..MaxCalls
    OBVIOUS
  <2> QED
    BY <2>2, <2>3 DEF UseTypeOK
<1>2. Commanding /\ Knowing /\ CreateNilMeansRunning
  BY DEF Commanding, Knowing, CreateNilMeansRunning
<1> QED
  BY <1>1, <1>2 DEF UseInv

(* Every call and every command keeps the types. *)
LEMMA UseTypeStep == UseInv /\ [UseNext]_useVars => UseTypeOK'
<1> SUFFICES ASSUME UseInv, [UseNext]_useVars PROVE UseTypeOK'
  OBVIOUS
<1> USE NoNameAssumption, CallsAssumption DEF UseInv, UseTypeOK
<1>1. call # "idle" => adapter.name \in Names
  BY DEF Commanding
<1>2. ASSUME NEW n \in Names, CallCreate(n) PROVE UseTypeOK'
  <2>1. AdapterTypeOK'
    BY <1>1, <1>2, AdapterTypeStep DEF CallCreate
  <2>2. tried' \in {tried, n} /\ made' \in {made, NoName} /\ retrying' \in {retrying, FALSE}
    BY <1>2 DEF CallCreate
  <2>3. last' = "create" /\ calls' \in 0..MaxCalls
    BY <1>2 DEF CallCreate, Calls
  <2> QED
    BY <2>1, <2>2, <2>3
<1>3. CASE CallExec
  BY <1>1, <1>3, AdapterTypeStep DEF CallExec, Calls
<1>4. CASE CallDestroy
  BY <1>1, <1>4, AdapterTypeStep DEF CallDestroy, Calls
<1>5. CASE UseDeadlined \/ UseUndo
  <2>1. AdapterTypeOK' /\ Learns
    BY <1>1, <1>5, AdapterTypeStep DEF UseDeadlined, UseUndo
  <2>2. made' \in Names \cup {NoName} /\ UNCHANGED <<last, tried, calls>>
    BY <2>1 DEF Learns
  <2>3. retrying' \in BOOLEAN
    BY <2>1, Zenon DEF Learns
  <2> QED
    BY <2>1, <2>2, <2>3
<1>6. CASE UNCHANGED useVars
  BY <1>6 DEF useVars, callerVars, adapterVars, AdapterTypeOK
<1> QED
  BY <1>2, <1>3, <1>4, <1>5, <1>6 DEF UseNext, UseDone

-----------------------------------------------------------------------------
(* The calls. *)

LEMMA CreateKeepsInv ==
  ASSUME UseInv, NEW n \in Names, CallCreate(n), UseTypeOK'
  PROVE  UseInv'
<1> USE NoNameAssumption DEF UseInv, CallCreate, Calls, AdapterCreate, Returns, Runs
<1>1. CASE adapter.created \/ adapter.name # NoName
  <2>1. /\ UNCHANGED <<adapter, container, volume, containerErr, call>>
        /\ reply' = "error" /\ last' = "create" /\ call = "idle"
    BY <1>1
  <2>2. UNCHANGED <<tried, made, retrying>>
    BY <1>1 DEF Knowing
  <2> QED
    BY <2>1, <2>2 DEF Commanding, Knowing, CreateNilMeansRunning
<1>2. CASE ~adapter.created /\ adapter.name = NoName
  <2>1. /\ adapter' = [adapter EXCEPT !.name = n] /\ UNCHANGED <<container, volume, containerErr>>
        /\ call' \in {"idle", "create"} /\ reply' # "nil"
        /\ tried' = n /\ made' = NoName /\ last' = "create"
    BY <1>2
  <2>2. adapter'.name = n /\ adapter'.created = FALSE
    BY <1>2, <2>1 DEF UseTypeOK, AdapterTypeOK
  <2> QED
    BY <2>1, <2>2 DEF Commanding, Knowing, CreateNilMeansRunning
<1> QED
  BY <1>1, <1>2 DEF UseTypeOK, AdapterTypeOK

LEMMA ExecKeepsInv ==
  ASSUME UseInv, CallExec, UseTypeOK'
  PROVE  UseInv'
<1> USE DEF UseInv
<1>1. /\ UNCHANGED <<adapter, container, volume, containerErr, tried, made, retrying>>
      /\ call = "idle" /\ last' = "exec"
      /\ call' = "idle" \/ (call' = "exec" /\ adapter.name \in Names)
  BY DEF CallExec, Calls, AdapterExec, Returns, Runs, UseTypeOK, AdapterTypeOK
<1> QED
  BY <1>1 DEF Commanding, Knowing, CreateNilMeansRunning

LEMMA DestroyKeepsInv ==
  ASSUME UseInv, CallDestroy, UseTypeOK'
  PROVE  UseInv'
<1> USE DEF UseInv
<1>1. /\ UNCHANGED <<adapter, container, volume, containerErr, tried, made, retrying>>
      /\ call = "idle" /\ last' = "destroy"
      /\ \/ call' = "idle" /\ (adapter.name = NoName \/ ~adapter.created)
         \/ call' = "removeContainer" /\ adapter.created /\ adapter.name # NoName
  BY DEF CallDestroy, Calls, AdapterDestroy, Returns, Runs
<1>2. adapter.name \in Names \cup {NoName}
  BY DEF UseTypeOK, AdapterTypeOK
<1> QED
  BY <1>1, <1>2, NoNameAssumption DEF Commanding, Knowing, CreateNilMeansRunning

(* The commands of Create. *)
LEMMA CreateCommandsKeepInv ==
  ASSUME UseInv, UseTypeOK', Learns,
         \/ DockerCreated \/ DockerCreateFails \/ DockerStarted \/ DockerStartFails
         \/ UndoContainer \/ UndoVolume
  PROVE  UseInv'
<1> USE NoNameAssumption DEF UseInv, Returns, Runs
<1>1. /\ adapter \in [name: Names \cup {NoName}, created: BOOLEAN]
      /\ container \in [Names -> {"absent", "foreign"} \cup Ours]
      /\ volume \in [Names -> {"absent", "foreign", "own"}]
  BY DEF UseTypeOK, AdapterTypeOK
<1>2. /\ adapter.name \in Names /\ last = "create" /\ tried = adapter.name /\ made = NoName
      /\ UNCHANGED <<last, tried>>
  BY DEF Commanding, Learns, DockerCreated, DockerCreateFails, DockerStarted, DockerStartFails,
         UndoContainer, UndoVolume
<1>3. made' = IF reply' = "nil" THEN tried ELSE NoName
  BY <1>2 DEF Learns
<1>4. CASE DockerCreated
  <2>1. /\ adapter' = [adapter EXCEPT !.created = TRUE]
        /\ container' = [container EXCEPT ![adapter.name] = "created"]
        /\ volume' = Mounted(adapter.name) /\ call' = "start" /\ reply' = "none"
    BY <1>4 DEF DockerCreated
  <2>2. /\ adapter'.name = adapter.name /\ adapter'.created = TRUE
        /\ container'[adapter.name] = "created" /\ volume'[adapter.name] # "absent"
    BY <1>1, <1>2, <2>1 DEF Mounted
  <2>3. made' = NoName
    BY <1>3, <2>1
  <2> QED
    BY <1>2, <2>1, <2>2, <2>3 DEF Commanding, Knowing, CreateNilMeansRunning, Ours
<1>5. CASE DockerCreateFails
  <2>1. /\ adapter' = [adapter EXCEPT !.name = NoName] /\ ~adapter.created
        /\ call' = "idle" /\ reply' = "error"
    BY <1>5 DEF DockerCreateFails, Commanding
  <2>2. adapter'.name = NoName /\ adapter'.created = FALSE
    BY <1>1, <2>1
  <2>3. made' = NoName
    BY <1>3, <2>1
  <2> QED
    BY <1>2, <2>1, <2>2, <2>3 DEF Commanding, Knowing, CreateNilMeansRunning
<1>6. CASE DockerStarted
  <2>1. /\ UNCHANGED <<adapter, volume>> /\ adapter.created
        /\ container'[adapter.name] = "running" /\ volume[adapter.name] # "absent"
        /\ call' = "idle" /\ reply' = "nil"
    BY <1>1, <1>2, <1>6 DEF DockerStarted, Commanding
  <2>2. made' = adapter.name
    BY <1>2, <1>3, <2>1
  <2> QED
    BY <1>2, <2>1, <2>2 DEF Commanding, Knowing, CreateNilMeansRunning
<1>7. CASE DockerStartFails
  <2>1. /\ UNCHANGED <<adapter, volume>> /\ adapter.created
        /\ container'[adapter.name] \in Ours
        /\ call' = "undoContainer" /\ reply' = "none"
    BY <1>1, <1>2, <1>7 DEF DockerStartFails, Commanding, Ours
  <2>2. made' = NoName
    BY <1>3, <2>1
  <2> QED
    BY <1>2, <2>1, <2>2 DEF Commanding, Knowing, CreateNilMeansRunning, Ours
<1>8. CASE UndoContainer
  <2>1. PICK outcome \in Outcomes : RemoveContainer(outcome)
    BY <1>8 DEF UndoContainer
  <2>2. container'[adapter.name] \in {"absent", container[adapter.name]}
    BY <1>2, <2>1, ContainerRemoval DEF UseTypeOK
  <2>3. /\ UNCHANGED <<adapter, volume>> /\ adapter.created
        /\ container[adapter.name] # "foreign"
        /\ call' = "undoVolume" /\ reply' = "none"
    BY <1>8 DEF UndoContainer, Commanding, Knowing
  <2>4. made' = NoName
    BY <1>3, <2>3
  <2> QED
    BY <1>2, <2>2, <2>3, <2>4 DEF Commanding, Knowing, CreateNilMeansRunning
<1>9. CASE UndoVolume
  <2>1. adapter' = FreshAdapter /\ call' = "idle" /\ reply' = "error"
    BY <1>9 DEF UndoVolume
  <2>2. made' = NoName
    BY <1>3, <2>1
  <2> QED
    BY <1>2, <2>1, <2>2 DEF Commanding, Knowing, CreateNilMeansRunning, FreshAdapter
<1> QED
  BY <1>4, <1>5, <1>6, <1>7, <1>8, <1>9

LEMMA ExecEndKeepsInv ==
  ASSUME UseInv, UseTypeOK', Learns, NEW outcome \in Outcomes, DockerExecEnds(outcome)
  PROVE  UseInv'
<1> USE DEF UseInv
<1>1. /\ last = "exec" /\ UNCHANGED <<last, tried, made, adapter, container, volume>>
      /\ call = "exec" /\ call' = "idle"
  BY DEF DockerExecEnds, Commanding, Learns, Returns
<1>2. retrying' = retrying
  BY <1>1 DEF Learns, UseTypeOK
<1> QED
  BY <1>1, <1>2 DEF Commanding, Knowing, CreateNilMeansRunning

(* The commands of Destroy. *)
LEMMA RemoveContainerKeepsInv ==
  ASSUME UseInv, UseTypeOK', Learns, NEW outcome \in Outcomes, DestroyContainer(outcome)
  PROVE  UseInv'
<1> USE NoNameAssumption DEF UseInv, Runs
<1>1. /\ adapter.name \in Names /\ adapter.created /\ last = "destroy"
      /\ made = adapter.name /\ tried = adapter.name /\ container[adapter.name] # "foreign"
      /\ UNCHANGED <<last, tried, made, adapter, volume>>
      /\ containerErr' = outcome /\ call' = "removeVolume" /\ reply' = "none"
  BY DEF DestroyContainer, Commanding, Knowing, Learns
<1>2. /\ container'[adapter.name] \in {"absent", container[adapter.name]}
      /\ outcome = "nil" => container'[adapter.name] = "absent"
  BY <1>1, ContainerRemoval DEF DestroyContainer, UseTypeOK
<1> QED
  BY <1>1, <1>2 DEF Commanding, Knowing, CreateNilMeansRunning

LEMMA RemoveVolumeKeepsInv ==
  ASSUME UseInv, UseTypeOK', Learns, NEW outcome \in Outcomes, DestroyVolume(outcome)
  PROVE  UseInv'
<1> USE NoNameAssumption DEF UseInv, Returns
<1>1. /\ adapter.name \in Names /\ adapter.created /\ last = "destroy"
      /\ made = adapter.name /\ tried = adapter.name
      /\ UNCHANGED <<last, tried, made, container>>
      /\ call' = "idle"
  BY DEF DestroyVolume, Commanding, Knowing, Learns
<1>2. CASE containerErr # "nil"
  <2>1. UNCHANGED adapter /\ reply' # "nil"
    BY <1>2 DEF DestroyVolume
  <2> QED
    BY <1>1, <2>1 DEF Commanding, Knowing, CreateNilMeansRunning
<1>3. CASE containerErr = "nil"
  <2>1. /\ adapter' = FreshAdapter /\ reply' = outcome /\ container[made] = "absent"
        /\ RemoveVolume(outcome)
    BY <1>1, <1>3 DEF DestroyVolume, Commanding
  <2>2. outcome = "nil" => volume'[made] = "absent"
    BY <1>1, <2>1, VolumeRemoval DEF UseTypeOK
  <2>3. outcome # "nil" => retrying'
    BY <1>1, <2>1 DEF Learns, Outcomes
  <2> QED
    BY <1>1, <2>1, <2>2, <2>3
       DEF Commanding, Knowing, CreateNilMeansRunning, FreshAdapter, Ours
<1> QED
  BY <1>2, <1>3

LEMMA UseInvNext == UseInv /\ [UseNext]_useVars => UseInv'
<1> SUFFICES ASSUME UseInv, [UseNext]_useVars PROVE UseInv'
  OBVIOUS
<1>1. UseTypeOK'
  BY UseTypeStep
<1>2. ASSUME NEW n \in Names, CallCreate(n) PROVE UseInv'
  BY <1>1, <1>2, CreateKeepsInv
<1>3. CASE CallExec
  BY <1>1, <1>3, ExecKeepsInv
<1>4. CASE CallDestroy
  BY <1>1, <1>4, DestroyKeepsInv
<1>5. CASE UseDeadlined
  BY <1>1, <1>5, CreateCommandsKeepInv, ExecEndKeepsInv, RemoveContainerKeepsInv,
     RemoveVolumeKeepsInv DEF UseDeadlined, DeadlinedCommand
<1>6. CASE UseUndo
  BY <1>1, <1>6, CreateCommandsKeepInv DEF UseUndo, UndoCommand
<1>7. CASE UNCHANGED useVars
  BY <1>1, <1>7 DEF useVars, callerVars, adapterVars, UseInv, Commanding, Knowing,
                    CreateNilMeansRunning
<1> QED
  BY <1>2, <1>3, <1>4, <1>5, <1>6, <1>7 DEF UseNext, UseDone

(* Between and during calls, whatever the daemon does (adapter.go). *)
THEOREM UseInvariant == UseSpec => []UseInv
BY UseInvInit, UseInvNext, PTL DEF UseSpec

(* The variables of the adapter and of its caller keep their types.        *)
THEOREM UseTypeCorrect == UseSpec => []UseTypeOK
BY UseInvariant, PTL DEF UseInv

(* A sandbox the caller was told it has is named by the adapter as long as *)
(* its container exists (Destroy keeps name and created if docker rm fails)*)
THEOREM NeverForgotten == UseSpec => []ContainerNeverForgotten
<1>1. UseInv => ContainerNeverForgotten
  <2> SUFFICES ASSUME UseInv, call = "idle", made # NoName, container[made] \in Ours
               PROVE  adapter = [name |-> made, created |-> TRUE]
    BY DEF ContainerNeverForgotten
  <2>1. adapter.created /\ adapter.name = made
    BY DEF UseInv, Knowing, UseTypeOK, AdapterTypeOK
  <2>2. adapter \in [name: Names \cup {NoName}, created: BOOLEAN]
    BY DEF UseInv, UseTypeOK, AdapterTypeOK
  <2> QED
    BY <2>1, <2>2
<1> QED
  BY <1>1, UseInvariant, PTL

(* The first Destroy that returns nil has removed container and workspace. *)
THEOREM DestroyRemovesAll == UseSpec => []FirstDestroyRemovesAll
<1>1. UseInv => FirstDestroyRemovesAll
  BY DEF UseInv, Knowing, FirstDestroyRemovesAll
<1> QED
  BY <1>1, UseInvariant, PTL

(* Create returns nil only with the container running and its volume there.*)
THEOREM CreateNilRuns == UseSpec => []CreateNilMeansRunning
BY UseInvariant, PTL DEF UseInv

(* No call, however it fails, touches a container that was there before.   *)
LEMMA ForeignStep ==
  ASSUME UseInv, [UseNext]_useVars, NEW n \in Names, container[n] = "foreign"
  PROVE  container'[n] = "foreign"
<1>1. /\ container \in [Names -> {"absent", "foreign"} \cup Ours]
      /\ call # "idle" => adapter.name \in Names
      /\ call = "start" \/ adapter.created => adapter.name # n
  BY DEF UseInv, UseTypeOK, AdapterTypeOK, Commanding, Knowing, Ours
<1>2. CASE UNCHANGED container
  BY <1>2
<1>3. CASE DockerCreated
  BY <1>1, <1>3 DEF DockerCreated
<1>4. CASE DockerCreateFails
  BY <1>1, <1>4 DEF DockerCreateFails
<1>5. CASE DockerStarted \/ DockerStartFails
  BY <1>1, <1>5 DEF DockerStarted, DockerStartFails
<1>6. ASSUME NEW outcome \in Outcomes, RemoveContainer(outcome),
             call \in {"undoContainer", "removeContainer"}
      PROVE  container'[n] = "foreign"
  <2>1. adapter.name \in Names /\ adapter.name # n
    BY <1>1, <1>6 DEF UseInv, Commanding
  <2> QED
    BY <1>6, <2>1, ContainerRemoval DEF UseInv, UseTypeOK
<1>7. CASE DeadlinedCommand
  BY <1>2, <1>3, <1>4, <1>5, <1>6, <1>7
     DEF DeadlinedCommand, DockerExecEnds, DestroyContainer, DestroyVolume
<1>8. CASE UndoCommand
  BY <1>2, <1>6, <1>8 DEF UndoCommand, UndoContainer, UndoVolume
<1>9. CASE (\E m \in Names : CallCreate(m)) \/ CallExec \/ CallDestroy \/ UNCHANGED useVars
  BY <1>2, <1>9 DEF CallCreate, AdapterCreate, CallExec, AdapterExec, CallDestroy, AdapterDestroy,
                    useVars, adapterVars
<1> QED
  BY <1>7, <1>8, <1>9 DEF UseNext, UseDeadlined, UseUndo, UseDone

(* A container that was there before is neither removed nor used. *)
THEOREM ForeignKept == UseSpec => ForeignContainerKept
<1>1. UseInv /\ [UseNext]_useVars
        => [\A n \in Names : container[n] = "foreign" => container'[n] = "foreign"]_useVars
  BY ForeignStep
<1> QED
  BY <1>1, UseInvariant, PTL DEF UseSpec, ForeignContainerKept
=============================================================================
