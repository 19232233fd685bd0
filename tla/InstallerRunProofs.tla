-------------------------- MODULE InstallerRunProofs ---------------------------
(***************************************************************************)
(* What holds of InstallerRun for any images, any length of the pull's     *)
(* output and of the installer's log, and any number of failures: it is    *)
(* well typed, a node that may need a reboot is drained, px-runc works     *)
(* with the files of the image that was pulled, a download is announced    *)
(* only if there is one, and the service is restarted only if it must.     *)
(***************************************************************************)
EXTENDS InstallerRun, TLAPS

\* What the process starts with is of the right kind.
LEMMA Nothing == NoStream \in Streams /\ NoOutput \in Outputs
  BY SizesAssumption DEF NoStream, Streams, NoOutput, Outputs, Lists

\* The initial states are well typed.
LEMMA InitType == Init => TypeOK
  <1> SUFFICES ASSUME Init PROVE TypeOK
    OBVIOUS
  <1>1. 0 \in 0..MaxLen /\ 0 \in 0..Frames /\ 0 \in 0..MaxStarts
    BY SizesAssumption, FramesAssumption, BoundsAssumption
  <1>2. failed \subseteq Calls /\ local \in Images \union {None}
        /\ installed \in Images \union {None}
    BY DEF Init
  <1>3. cntr \in [state : {"none", "running", "ok", "failed"},
                 image : Images \union {None}]
    BY DEF Init
  <1> QED
    BY <1>1, <1>2, <1>3, Nothing DEF Init, TypeOK

\* A call that fails is one of those that may.
LEMMA StepFailed == ASSUME TypeOK, [Next]_vars PROVE failed' \subseteq Calls
  <1> USE DEF Ok, Fault, Calls
  <1>1. failed \subseteq Calls
    BY DEF TypeOK
  <1>2. CASE ImagePull
    BY <1>2 DEF ImagePull
  <1>3. CASE Ok
    BY <1>1, <1>3
  <1>4. CASE Inspect \/ RunFails \/ OpenLog
    BY <1>1, <1>4 DEF Inspect, RunFails, OpenLog
  <1>5. CASE ReadHeader \/ ReadData
    BY <1>1, <1>5 DEF ReadHeader, ReadData
  <1>6. CASE WaitFails \/ Configure \/ ConfigureFails
    BY <1>1, <1>6 DEF WaitFails, Configure, ConfigureFails
  <1> QED
    BY <1>1, <1>2, <1>3, <1>4, <1>5, <1>6
       DEF Next, vars, ReadFirst, ReadShort, ReadFails, CopyRest, CopyFails,
           Pulled, RunContainer, Wait, Finish, ContainerEnds, Crash, Rest

\* Every step preserves the types, as long as no frame is read past the end
\* of the log.
LEMMA StepType ==
    ASSUME TypeOK, pc = "data" => got < Frames, [Next]_vars
    PROVE  TypeOK'
  <1>0. failed' \subseteq Calls
    BY StepFailed
  <1> USE <1>0 DEF TypeOK, Goto, docker, pull, log, runc, need
  <1>1. CASE ImagePull
    <2>1. /\ pc' = "first" /\ starts' \in 0..MaxStarts
          /\ told' = FALSE /\ needInstall' = FALSE /\ needCordon' = FALSE
          /\ needRestart' = FALSE /\ broken' = FALSE
      BY <1>1, BoundsAssumption DEF ImagePull
    <2>2. mark' \in 0..Frames /\ got' \in 0..Frames
      BY <1>1, FramesAssumption DEF ImagePull
    <2>3. stream' \in Streams /\ wanted' \in Images /\ arrived' \in 0..MaxLen
      BY <1>1 DEF ImagePull, Streams
    <2> QED BY <1>1, <2>1, <2>2, <2>3 DEF ImagePull
  <1>2. CASE ReadFirst
    BY <1>2 DEF ReadFirst, Announced
  <1>3. CASE ReadShort \/ CopyRest
    BY <1>3 DEF ReadShort, CopyRest, Pulled
  <1>4. CASE ReadFails \/ CopyFails \/ Crash
    BY <1>4 DEF ReadFails, CopyFails, Crash, Exit
  <1>5. CASE Inspect
    <2>1. pc' \in {"run", "runc"} /\ needInstall' \in BOOLEAN
      BY <1>5 DEF Inspect
    <2> QED BY <1>5, <2>1, Nothing, SizesAssumption DEF Inspect
  <1>6. CASE RunContainer
    <2>1. cntr' \in [state : {"none", "running", "ok", "failed"},
                    image : Images \union {None}]
      BY <1>6 DEF RunContainer
    <2>2. 0 \in 0..Frames
      BY FramesAssumption
    <2> QED BY <1>6, <2>1, <2>2 DEF RunContainer
  <1>7. CASE RunFails
    <2>1. cntr' \in [state : {"none", "running", "ok", "failed"},
                    image : Images \union {None}]
      BY <1>7 DEF RunFails
    <2> QED BY <1>7, <2>1 DEF RunFails
  <1>8. CASE OpenLog
    BY <1>8 DEF OpenLog
  <1>9. ASSUME NEW err \in BOOLEAN, LogProcessed(err)
        PROVE  /\ pc' = "wait" /\ needCordon' \in BOOLEAN
               /\ got' = got /\ broken' = broken
    BY <1>9 DEF LogProcessed, EndLog
  <1>10. CASE ReadHeader
    <2>1. /\ pc' \in {"data", "wait"} /\ needCordon' \in BOOLEAN
          /\ got' = got /\ broken' = broken
      BY <1>10, <1>9 DEF ReadHeader
    <2> QED BY <1>10, <2>1 DEF ReadHeader
  <1>11. CASE ReadData
    <2>1. got + 1 \in 0..Frames
      BY <1>11, FramesAssumption DEF ReadData
    <2>2. /\ pc' \in {"header", "wait"} /\ needCordon' \in BOOLEAN
          /\ got' \in 0..Frames /\ broken' \in BOOLEAN
      BY <1>11, <1>9, <2>1 DEF ReadData
    <2> QED BY <1>11, <2>2 DEF ReadData
  <1>12. CASE Wait
    BY <1>12 DEF Wait
  <1>13. CASE WaitFails \/ ConfigureFails
    BY <1>13 DEF WaitFails, ConfigureFails, Exit
  <1>14. CASE Configure
    <2>1. needRestart' \in BOOLEAN
      BY <1>14 DEF Configure
    <2>2. /\ pc' = "done" /\ output' \in Outputs
          /\ host' \in {"same", "new", "later", "noconfig"}
          /\ UNCHANGED <<docker, pull, log, need, starts>>
      BY <1>14 DEF Configure
    <2> QED BY <2>1, <2>2
  <1>15. CASE Finish
    BY <1>15, Nothing DEF Finish
  <1>16. CASE ContainerEnds
    BY <1>16 DEF ContainerEnds
  <1>17. CASE Rest \/ UNCHANGED vars
    BY <1>17 DEF Rest, vars
  <1> QED BY <1>1, <1>2, <1>3, <1>4, <1>5, <1>6, <1>7, <1>8, <1>10, <1>11,
             <1>12, <1>13, <1>14, <1>15, <1>16, <1>17 DEF Next

-----------------------------------------------------------------------------
\* Why CordonIfInDoubt holds: as long as the log is read, it is only broken
\* when a read of it has failed, and a frame is read only if one is left.
LogInv == /\ pc = "logs" => ~broken
          /\ pc \in {"header", "data"} => (broken => "cutlog" \in failed)
          /\ pc = "data" => got < Frames

CordonInv == TypeOK /\ LogInv /\ CordonIfInDoubt

\* Why RightImage holds: the tag is on the image the registry served unless the
\* pull is excepted, and the installer container is of the image with the tag.
PullInv ==
    /\ pc \in {"first", "copy"} /\ arrived # stream.len /\ arrived < BufSize
          => "cutfirst" \in failed
    /\ failed \intersect {"cutfirst", "error"} = {}
       /\ pc \in {"inspect", "run", "logs", "header", "data", "wait"} =>
          local = wanted
    /\ pc \in {"logs", "header", "data", "wait"} => cntr.image = local
    /\ pc \in {"run", "logs", "header", "data", "wait"} => needInstall

ImageInv == TypeOK /\ LogInv /\ PullInv /\ RightImage

\* A step that is not the pull forgets no failure.
LEMMA Remembers ==
    ASSUME [Next]_vars, ~ImagePull
    PROVE  failed \subseteq failed'
  <1> USE DEF Ok, Fault
  <1>1. CASE Inspect \/ RunFails \/ OpenLog
    BY <1>1 DEF Inspect, RunFails, OpenLog
  <1>2. CASE ReadHeader \/ ReadData
    BY <1>2 DEF ReadHeader, ReadData
  <1>3. CASE WaitFails \/ Configure \/ ConfigureFails
    BY <1>3 DEF WaitFails, Configure, ConfigureFails
  <1> QED
    BY <1>1, <1>2, <1>3
       DEF Next, vars, ReadFirst, ReadShort, ReadFails, CopyRest, CopyFails,
           Pulled, RunContainer, Wait, Finish, ContainerEnds, Crash, Rest

\* Every step preserves what is known of the log.
LEMMA LogStep == ASSUME TypeOK, LogInv, [Next]_vars PROVE LogInv'
  <1> USE DEF LogInv, Goto, log, Exit
  <1>1. CASE ImagePull \/ ReadFirst \/ ReadShort \/ ReadFails
    BY <1>1 DEF ImagePull, ReadFirst, ReadShort, ReadFails, Pulled
  <1>2. CASE CopyRest \/ CopyFails \/ Inspect
    BY <1>2 DEF CopyRest, CopyFails, Inspect, Pulled
  <1>3. CASE RunContainer \/ RunFails
    BY <1>3 DEF RunContainer, RunFails
  <1>4. CASE OpenLog
    BY <1>4 DEF OpenLog
  <1>5. CASE ReadHeader
    BY <1>5 DEF ReadHeader, LogProcessed, EndLog, MoreFrames
  <1>6. CASE ReadData
    BY <1>6 DEF ReadData, LogProcessed, EndLog, Fault, Ok
  <1>7. CASE Wait \/ WaitFails \/ Configure \/ ConfigureFails \/ Finish
    BY <1>7 DEF Wait, WaitFails, Configure, ConfigureFails, Finish
  <1>8. CASE ContainerEnds
    BY <1>8 DEF ContainerEnds, Ok
  <1>9. CASE Crash \/ Rest \/ UNCHANGED vars
    BY <1>9 DEF Crash, Rest, vars
  <1> QED BY <1>1, <1>2, <1>3, <1>4, <1>5, <1>6, <1>7, <1>8, <1>9 DEF Next

\* Every reachable state is well typed.
THEOREM TypeCorrect == Spec => []TypeOK
  <1>1. Init => TypeOK /\ LogInv
    BY InitType DEF Init, LogInv
  <1>2. TypeOK /\ LogInv /\ [Next]_vars => (TypeOK /\ LogInv)'
    BY StepType, LogStep DEF LogInv
  <1> QED BY <1>1, <1>2, PTL DEF Spec

-----------------------------------------------------------------------------
\* Every step preserves what decides on the drain.
LEMMA CordonStep == CordonInv /\ [Next]_vars => CordonInv'
  <1> SUFFICES ASSUME CordonInv, [Next]_vars PROVE CordonIfInDoubt'
    BY StepType, LogStep DEF CordonInv, LogInv
  <1> USE DEF CordonInv, CordonIfInDoubt, Goto, log, need, Exit
  <1>1. CASE ImagePull \/ ReadFirst \/ ReadShort \/ ReadFails
    BY <1>1 DEF ImagePull, ReadFirst, ReadShort, ReadFails, Pulled
  <1>2. CASE CopyRest \/ CopyFails \/ Inspect
    BY <1>2 DEF CopyRest, CopyFails, Inspect, Pulled
  <1>3. CASE RunContainer \/ RunFails
    BY <1>3 DEF RunContainer, RunFails
  <1>4. CASE OpenLog
    BY <1>4 DEF OpenLog, Fault
  <1>5. mark \in Nat /\ got \in Nat /\ Frames \in Nat /\ mark <= Frames /\ got <= Frames
    BY FramesAssumption DEF TypeOK
  <1>6. CASE ReadHeader
    <2>1. CASE pc' = "data"
      BY <2>1
    <2>2. CASE ~broken /\ got = Frames /\ LogProcessed(FALSE)
      <3>1. needCordon' <=> mark \in 1..got
        BY <2>2 DEF LogProcessed, EndLog
      <3>2. got' = got /\ mark' = mark
        BY <1>6, <2>2 DEF ReadHeader, LogProcessed, EndLog
      <3> QED BY <1>5, <2>2, <3>1, <3>2
    <2>3. CASE LogProcessed(TRUE) /\ (broken \/ Fault("cutlog"))
      <3>1. needCordon'
        BY <2>3 DEF LogProcessed, EndLog
      <3>2. "cutlog" \in failed'
        BY <1>6, <2>3, Remembers DEF ReadHeader, LogInv, ImagePull, Fault
      <3> QED BY <3>1, <3>2
    <2> QED BY <1>6, <2>1, <2>2, <2>3 DEF ReadHeader
  <1>7. CASE ReadData
    BY <1>5, <1>7 DEF ReadData, LogProcessed, EndLog, Fault, Ok
  <1>8. CASE Wait \/ WaitFails \/ ConfigureFails \/ Finish
    BY <1>8 DEF Wait, WaitFails, ConfigureFails, Finish, Ok
  <1>9. CASE Configure
    <2>1. failed \subseteq failed'
      BY <1>9, Remembers DEF Configure, ImagePull
    <2> QED BY <1>9, <2>1 DEF Configure
  <1>10. CASE ContainerEnds \/ Crash \/ Rest \/ UNCHANGED vars
    BY <1>10 DEF ContainerEnds, Crash, Rest, vars, Ok
  <1> QED BY <1>1, <1>2, <1>3, <1>4, <1>6, <1>7, <1>8, <1>9, <1>10 DEF Next

\* The switch goes on without a drain only if the whole log was read and asked
\* for no reboot, whatever fails, unless the log could not be opened or a frame
\* was read in two.
THEOREM CordonCorrect == Spec => []CordonIfInDoubt
  <1>1. Init => CordonInv
    BY InitType DEF Init, CordonInv, LogInv, CordonIfInDoubt
  <1> QED BY <1>1, CordonStep, PTL DEF Spec, CordonInv

\* Every step preserves what ties the files to the pull.
LEMMA ImageStep == ImageInv /\ [Next]_vars => ImageInv'
  <1> SUFFICES ASSUME ImageInv, [Next]_vars PROVE PullInv' /\ RightImage'
    BY StepType, LogStep DEF ImageInv, LogInv
  <1> USE DEF ImageInv, PullInv, RightImage, Goto, docker, need
  <1>1. CASE ImagePull
    BY <1>1 DEF ImagePull, Streams
  <1>2. CASE ReadFirst
    BY <1>2, SizesAssumption DEF ReadFirst, Ok, TypeOK
  <1>3. CASE ReadShort \/ CopyRest
    BY <1>3 DEF ReadShort, CopyRest, Pulled, Complete, Ok
  <1>4. CASE ReadFails \/ CopyFails \/ Crash
    BY <1>4 DEF ReadFails, CopyFails, Crash, Exit
  <1>5. CASE Inspect
    BY <1>5, Remembers DEF Inspect, ImagePull, TypeOK
  <1>6. CASE RunContainer \/ RunFails
    BY <1>6 DEF RunContainer, RunFails, Ok
  <1>7. CASE OpenLog
    BY <1>7, Remembers DEF OpenLog, ImagePull
  <1>8. CASE ReadHeader
    BY <1>8, Remembers DEF ReadHeader, ImagePull, LogProcessed, EndLog
  <1>9. CASE ReadData
    BY <1>9, Remembers DEF ReadData, ImagePull, LogProcessed, EndLog
  <1>10. CASE Wait
    BY <1>10 DEF Wait, Ok, TypeOK
  <1>11. CASE WaitFails \/ ConfigureFails
    BY <1>11 DEF WaitFails, ConfigureFails, Exit
  <1>12. CASE Configure
    BY <1>12, Remembers DEF Configure, ImagePull
  <1>13. CASE Finish
    BY <1>13 DEF Finish
  <1>14. CASE ContainerEnds
    <2>1. cntr'.image = cntr.image /\ cntr.state # "ok"
      BY <1>14 DEF ContainerEnds, TypeOK
    <2> QED BY <1>14, <2>1 DEF ContainerEnds, Ok, pull
  <1>15. CASE Rest \/ UNCHANGED vars
    BY <1>15 DEF Rest, vars, pull
  <1> QED BY <1>1, <1>2, <1>3, <1>4, <1>5, <1>6, <1>7, <1>8, <1>9, <1>10, <1>11,
             <1>12, <1>13, <1>14, <1>15 DEF Next

\* px-runc is given files of the image that has the tag, whatever fails, and it
\* is the one the registry served, unless the pull broke off in its first buffer
\* or Docker reported an error in its output.
THEOREM ImageCorrect == Spec => []RightImage
  <1>1. Init => ImageInv
    BY InitType DEF Init, ImageInv, LogInv, PullInv, RightImage
  <1> QED BY <1>1, ImageStep, PTL DEF Spec, ImageInv

-----------------------------------------------------------------------------
\* Why NoFalseAlarm holds: the daemon announces a layer only of an image that
\* is not the local one, which stays so until the pull is over.
AlarmInv == /\ pc = "first" /\ stream.layer # None => local # wanted
            /\ NoFalseAlarm

\* Every step preserves it.
LEMMA AlarmStep == AlarmInv /\ [Next]_vars => AlarmInv'
  <1> SUFFICES ASSUME AlarmInv, [Next]_vars PROVE AlarmInv'
    OBVIOUS
  <1> USE DEF AlarmInv, NoFalseAlarm, Goto, docker, pull
  <1>1. CASE ImagePull
    BY <1>1 DEF ImagePull
  <1>2. CASE ReadFirst
    BY <1>2 DEF ReadFirst, Announced
  <1>3. CASE ReadShort \/ ReadFails \/ CopyRest \/ CopyFails
    BY <1>3 DEF ReadShort, ReadFails, CopyRest, CopyFails, Pulled, Exit
  <1>4. CASE Inspect \/ RunContainer \/ RunFails \/ OpenLog
    BY <1>4 DEF Inspect, RunContainer, RunFails, OpenLog
  <1>5. CASE ReadHeader \/ ReadData
    BY <1>5 DEF ReadHeader, ReadData, LogProcessed, EndLog
  <1>6. CASE Wait \/ WaitFails \/ Configure \/ ConfigureFails \/ Finish
    BY <1>6 DEF Wait, WaitFails, Configure, ConfigureFails, Finish, Exit
  <1>7. CASE ContainerEnds
    BY <1>7 DEF ContainerEnds
  <1>8. CASE Crash \/ Rest \/ UNCHANGED vars
    BY <1>8 DEF Crash, Exit, Rest, vars
  <1> QED BY <1>1, <1>2, <1>3, <1>4, <1>5, <1>6, <1>7, <1>8 DEF Next

\* The servlet is told of a download only if the pulled image is not the local
\* one, for any output of the pull and any size of its first buffer.
THEOREM AlarmCorrect == Spec => []NoFalseAlarm
  <1>1. Init => AlarmInv
    BY DEF Init, AlarmInv, NoFalseAlarm
  <1>2. AlarmInv => NoFalseAlarm
    BY DEF AlarmInv
  <1> QED BY <1>1, <1>2, AlarmStep, PTL DEF Spec

-----------------------------------------------------------------------------
\* A list of the usual shape forces a restart when it has a mount of no pod.
LEMMA ForcesUsual ==
    ASSUME NEW list \in Lists, list # None => list.closed /\ list.mounts # {}
    PROVE  Forces(list) <=> list # None /\ ~(list.mounts \subseteq PodMounts)
  BY DEF Forces, Lists

\* Of output of the usual shape, isRestartRequired says what its comment says.
LEMMA RestartUsual ==
    ASSUME NEW o \in Outputs, Usual(o)
    PROVE  isRestartRequired(o, TRUE) <=> Changed(o)
  <1>1. o.add \in Lists /\ o.rm \in Lists
    BY DEF Outputs
  <1>2. \A l \in {o.add, o.rm} :
           Forces(l) <=> l # None /\ ~(l.mounts \subseteq PodMounts)
    BY <1>1, ForcesUsual DEF Usual
  <1>3. CASE o.spec = "unchanged"
    BY <1>3 DEF Usual, Changed, isRestartRequired, RestartFor, Reported
  <1>4. CASE o.spec # "unchanged"
    BY <1>2, <1>4 DEF Usual, Changed, isRestartRequired, RestartFor, Reported
  <1> QED BY <1>3, <1>4

RestartInv == TypeOK /\ LogInv /\ RestartIfChanged

\* Every step preserves what decides on the restart.
LEMMA RestartStep == RestartInv /\ [Next]_vars => RestartInv'
  <1> SUFFICES ASSUME RestartInv, [Next]_vars PROVE RestartIfChanged'
    BY StepType, LogStep DEF RestartInv, LogInv
  <1> USE DEF RestartInv, RestartIfChanged, Goto, runc, need
  <1>1. CASE ImagePull \/ ReadFirst \/ ReadShort \/ ReadFails
    BY <1>1 DEF ImagePull, ReadFirst, ReadShort, ReadFails, Pulled, Exit
  <1>2. CASE CopyRest \/ CopyFails \/ Inspect
    BY <1>2 DEF CopyRest, CopyFails, Inspect, Pulled, Exit
  <1>3. CASE RunContainer \/ RunFails \/ OpenLog
    BY <1>3 DEF RunContainer, RunFails, OpenLog
  <1>4. CASE ReadHeader \/ ReadData
    BY <1>4 DEF ReadHeader, ReadData, LogProcessed, EndLog
  <1>5. CASE Wait \/ WaitFails \/ ConfigureFails \/ Finish
    BY <1>5 DEF Wait, WaitFails, ConfigureFails, Finish, Exit
  <1>6. CASE Configure
    <2> SUFFICES ASSUME ~needInstall', host' = "same", "kubelet" \notin failed',
                        Usual(output)'
                 PROVE  needRestart' = Changed(output)'
      OBVIOUS
    <2>1. output' \in Outputs /\ ~needInstall
      BY <1>6 DEF Configure
    <2>2. needRestart' = isRestartRequired(output', TRUE)
      BY <1>6, <2>1 DEF Configure, Fault, isRestartRequired, RestartFor
    <2>3. isRestartRequired(output', TRUE) <=> Changed(output')
      BY <2>1, RestartUsual
    <2> QED BY <2>2, <2>3 DEF Changed, isRestartRequired, RestartFor
  <1>7. CASE ContainerEnds
    BY <1>7 DEF ContainerEnds, Ok
  <1>8. CASE Crash \/ Rest \/ UNCHANGED vars
    BY <1>8 DEF Crash, Exit, Rest, vars
  <1> QED BY <1>1, <1>2, <1>3, <1>4, <1>5, <1>6, <1>7, <1>8 DEF Next

\* The service is restarted just when px-runc reports a new specification or a
\* changed mount of no pod, for any mounts, if its output has the usual shape
\* and neither the unit file nor config.json asks for a restart.
THEOREM RestartCorrect == Spec => []RestartIfChanged
  <1>1. Init => RestartInv
    BY InitType DEF Init, RestartInv, LogInv, RestartIfChanged
  <1>2. RestartInv => RestartIfChanged
    BY DEF RestartInv
  <1> QED BY <1>1, <1>2, RestartStep, PTL DEF Spec
=============================================================================
