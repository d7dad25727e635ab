-------------------------------- MODULE SessionProofs ---------------------------------
(***************************************************************************)
(* The sessions of panes: SessionLifecycle for every capacity and budget;  *)
(* InitialSession, which says who may start the launch command, for every  *)
(* set of controllers and of payloads; and PtyWriter, a session's write    *)
(* path, for every threshold, chunk size and bound. For each, the safety   *)
(* properties and the refinement of the abstract specification follow from *)
(* one inductive invariant.                                                *)
(***************************************************************************)
EXTENDS SessionLifecycle, InitialSession, PtyWriter, SequenceFacts

\* The phases in which the worker has a PTY, and in which it waits for a child.
Open == {"up", "grace", "killing"}

\* What the pane has been told, phase by phase.
SignalsMatch ==
    /\ pc \in {"new", "up"} => signals = <<>>
    /\ pc = "closed" => \/ Len(signals) = 1
                        \/ ~waiting /\ Len(signals) = 2

\* The descriptor and the pid exist while there is a child to watch, and a
\* session can only wait for a key after its exit.
Resources ==
    /\ pc = "new" => /\ child = "none" /\ ~fd /\ ~pid /\ ~readOn /\ ~continuation
                     /\ produced = 0 /\ ~leader
    /\ pc = "up" => fd /\ pid
    /\ pc \in {"grace", "killing"} => pid
    /\ pc \in {"closed", "closing", "torn"} => ~pid
    /\ pc = "closed" => ~fd /\ ~readOn
    /\ pid => child \in {"running", "zombie", "reaped"}
    /\ child = "reaped" => kernelReaps \/ ~pid
    /\ waiting => pc = "closed"

\* The kernel buffers no more than its capacity.
Buffered == produced <= shown + Capacity

ReadGated == /\ fd /\ pc = "up" => readOn \/ continuation \/ hungUp
             /\ readOn => ~continuation

\* A begun sequence is kept until the session can no longer use it.
Staged == leader /\ (pc = "up" \/ waiting) => staged # "none"

\* The inductive invariant: the properties, and what they rest on.
IInv ==
    /\ TypeOK
    /\ SignalsMatch
    /\ Resources
    /\ Buffered
    /\ ReadGated
    /\ FinalOutputShown
    /\ ChildrenReaped
    /\ Staged

-----------------------------------------------------------------------------
LEMMA RoomGrows ==
    ASSUME NEW p \in Nat, NEW s \in Nat, NEW t \in Nat, NEW c \in Nat,
           p <= s + c, s <= t
    PROVE  p <= t + c
  OBVIOUS

\* One more signal.
LEMMA Signalled ==
    ASSUME TypeOK, NEW e \in {"exited", "dismissed"}, signals' = Append(signals, e)
    PROVE  /\ signals' \in Seq({"exited", "dismissed"})
           /\ Len(signals') = Len(signals) + 1
<1> DEFINE S == {"exited", "dismissed"}
<1>1. signals \in Seq(S) /\ e \in S
  BY DEF TypeOK
<1> HIDE DEF S
<1>2. Append(signals, e) \in Seq(S) /\ Len(Append(signals, e)) = Len(signals) + 1
  BY ONLY <1>1
<1> QED BY <1>2 DEF S

\* The final drain shows everything: the kernel holds less than its limit.
LEMMA FinalDrainShowsAll ==
    ASSUME TypeOK, Buffered, FinalDrain
    PROVE  shown' = produced
  BY LifecycleAssumption DEF TypeOK, Buffered, FinalDrain, Unread, Least

\* A bounded read shows some of what was written and leaves reading armed.
LEMMA DrainArms ==
    ASSUME TypeOK, Buffered, NEW on \in BOOLEAN, NEW pending \in BOOLEAN,
           on => ~pending, on \/ pending \/ hungUp \/ ~slave, Drain(on, pending),
           UNCHANGED produced
    PROVE  /\ shown' \in 0..produced /\ shown <= shown'
           /\ readOn' \in BOOLEAN /\ continuation' \in BOOLEAN /\ hungUp' \in BOOLEAN
           /\ readOn' \/ continuation' \/ hungUp'
           /\ readOn' => ~continuation'
<1>1. PICK n \in 0..Least(Unread, ReadBudget) :
          /\ shown' = shown + n
          /\ \/ n > 0 /\ readOn' = FALSE /\ continuation' = TRUE /\ UNCHANGED hungUp
             \/ /\ n = Unread /\ n < ReadBudget
                /\ readOn' = (on /\ slave) /\ hungUp' = (hungUp \/ ~slave)
                /\ continuation' = pending
  BY DEF Drain
<1>2. n \in Nat /\ n <= produced - shown
  BY LifecycleAssumption DEF TypeOK, Unread, Least
<1>3. shown' \in 0..produced /\ shown <= shown'
  BY <1>1, <1>2 DEF TypeOK
<1>4. /\ readOn' \in BOOLEAN /\ continuation' \in BOOLEAN /\ hungUp' \in BOOLEAN
      /\ readOn' \/ continuation' \/ hungUp'
      /\ readOn' => ~continuation'
  <2>1. \/ readOn' = FALSE /\ continuation' = TRUE /\ hungUp' = hungUp
        \/ /\ readOn' = (on /\ slave) /\ hungUp' = (hungUp \/ ~slave)
           /\ continuation' = pending
    BY <1>1
  <2>2. hungUp \in BOOLEAN /\ slave \in BOOLEAN
    BY DEF TypeOK
  <2>3. CASE readOn' = FALSE /\ continuation' = TRUE /\ hungUp' = hungUp
    BY <2>2, <2>3, Zenon
  <2>4. CASE /\ readOn' = (on /\ slave) /\ hungUp' = (hungUp \/ ~slave)
             /\ continuation' = pending
    BY <2>2, <2>4, Zenon
  <2> QED BY <2>1, <2>3, <2>4
<1> QED BY <1>3, <1>4

\* The invariant holds initially.
LEMMA InitInvariant == Init => IInv
<1> SUFFICES ASSUME Init PROVE IInv
  OBVIOUS
<1>1. TypeOK
  <2>1. signals \in Seq({"exited", "dismissed"})
    BY DEF Init
  <2>2. produced \in Nat /\ atExit \in 0..produced /\ shown \in 0..produced
    BY DEF Init
  <2>3. /\ slave \in BOOLEAN /\ fd \in BOOLEAN /\ pid \in BOOLEAN
        /\ readOn \in BOOLEAN /\ hungUp \in BOOLEAN /\ continuation \in BOOLEAN
        /\ waiting \in BOOLEAN /\ leader \in BOOLEAN
        /\ requested \in BOOLEAN /\ kernelReaps \in BOOLEAN
    BY Zenon DEF Init
  <2> QED BY <2>1, <2>2, <2>3 DEF Init, TypeOK
<1>2. Buffered
  BY LifecycleAssumption DEF Init, Buffered
<1> QED
  BY <1>1, <1>2
  DEF Init, IInv, SignalsMatch, Resources, ReadGated, FinalOutputShown, ChildrenReaped, Staged

\* The environment: output, the child's end, and the request to shut down.
LEMMA EnvironmentKeeps == IInv /\ Environment => IInv'
<1> SUFFICES ASSUME IInv, Environment PROVE IInv'
  OBVIOUS
<1>1. CASE Write
  BY <1>1, LifecycleAssumption
  DEF Write, IInv, TypeOK, SignalsMatch, Resources, Buffered, ReadGated, Unread,
      FinalOutputShown, ChildrenReaped, Staged, keys
<1>2. CASE Exit
  <2>1. TypeOK'
    <3>1. slave' \in BOOLEAN
      BY <1>2, Zenon DEF Exit, keys, IInv, TypeOK
    <3>2. signals' \in Seq({"exited", "dismissed"})
      BY <1>2 DEF Exit, keys, IInv, TypeOK
    <3> QED BY <1>2, <3>1, <3>2 DEF Exit, keys, IInv, TypeOK
  <2>2. SignalsMatch'
    BY <1>2 DEF Exit, keys, IInv, TypeOK, SignalsMatch, Resources
  <2>3. Resources'
    BY <1>2 DEF Exit, keys, IInv, TypeOK, Resources
  <2>4. Buffered'
    BY <1>2 DEF Exit, keys, IInv, TypeOK, Buffered
  <2>5. ReadGated'
    BY <1>2 DEF Exit, keys, IInv, TypeOK, ReadGated, Resources
  <2>6. FinalOutputShown'
    BY <1>2 DEF Exit, keys, IInv, TypeOK, FinalOutputShown, ChildrenReaped
  <2>7. ChildrenReaped'
    BY <1>2 DEF Exit, keys, IInv, TypeOK, ChildrenReaped, Resources
  <2>8. Staged'
    BY <1>2 DEF Exit, keys, IInv, TypeOK, Staged, Resources
  <2> QED BY <2>1, <2>2, <2>3, <2>4, <2>5, <2>6, <2>7, <2>8 DEF IInv
<1>3. CASE JobsEnd \/ RequestShutdown \/ \E open \in BOOLEAN : SetSlave(open)
  <2>1. TypeOK'
    <3>1. slave' \in BOOLEAN /\ requested' \in BOOLEAN
      BY <1>3, Zenon DEF JobsEnd, RequestShutdown, SetSlave, keys, kernel, IInv, TypeOK
    <3>2. signals' \in Seq({"exited", "dismissed"})
      BY <1>3 DEF JobsEnd, RequestShutdown, SetSlave, keys, kernel, IInv, TypeOK
    <3> QED BY <1>3, <3>1, <3>2 DEF JobsEnd, RequestShutdown, SetSlave, keys, kernel, IInv, TypeOK
  <2>2. SignalsMatch'
    BY <1>3 DEF JobsEnd, RequestShutdown, SetSlave, keys, kernel, IInv, TypeOK, SignalsMatch, Resources
  <2>3. Resources'
    BY <1>3 DEF JobsEnd, RequestShutdown, SetSlave, keys, kernel, IInv, TypeOK, Resources
  <2>4. Buffered'
    BY <1>3 DEF JobsEnd, RequestShutdown, SetSlave, keys, kernel, IInv, TypeOK, Buffered
  <2>5. ReadGated'
    BY <1>3 DEF JobsEnd, RequestShutdown, SetSlave, keys, kernel, IInv, TypeOK, ReadGated, Resources
  <2>6. FinalOutputShown'
    BY <1>3 DEF JobsEnd, RequestShutdown, SetSlave, keys, kernel, IInv, TypeOK, FinalOutputShown, Resources
  <2>7. ChildrenReaped'
    BY <1>3 DEF JobsEnd, RequestShutdown, SetSlave, keys, kernel, IInv, TypeOK, ChildrenReaped, Resources
  <2>8. Staged'
    BY <1>3 DEF JobsEnd, RequestShutdown, SetSlave, keys, kernel, IInv, TypeOK, Staged, Resources
  <2> QED BY <2>1, <2>2, <2>3, <2>4, <2>5, <2>6, <2>7, <2>8 DEF IInv
<1> QED BY <1>1, <1>2, <1>3 DEF Environment

\* Starting up, with or without a child.
LEMMA InitializeKeeps ==
    ASSUME IInv, NEW ok \in BOOLEAN, Initialize(ok)
    PROVE  IInv'
<1>1. CASE ok
  <2>1. TypeOK'
    BY <1>1 DEF Initialize, keys, IInv, TypeOK
  <2>2. SignalsMatch'
    BY <1>1 DEF Initialize, keys, IInv, TypeOK, SignalsMatch, Resources
  <2>3. Resources'
    BY <1>1 DEF Initialize, keys, IInv, TypeOK, Resources
  <2>4. Buffered'
    BY <1>1 DEF Initialize, keys, IInv, TypeOK, Buffered
  <2>5. ReadGated'
    BY <1>1 DEF Initialize, keys, IInv, TypeOK, ReadGated, Resources
  <2>6. FinalOutputShown'
    BY <1>1 DEF Initialize, keys, IInv, TypeOK, FinalOutputShown, Resources
  <2>7. ChildrenReaped'
    BY <1>1 DEF Initialize, keys, IInv, TypeOK, ChildrenReaped, Resources
  <2>8. Staged'
    BY <1>1 DEF Initialize, keys, IInv, TypeOK, Staged, Resources
  <2> QED BY <2>1, <2>2, <2>3, <2>4, <2>5, <2>6, <2>7, <2>8 DEF IInv
<1>2. CASE ~ok
  <2>1. TypeOK'
    BY <1>2 DEF Initialize, Announce, keys, IInv, TypeOK
  <2>2. SignalsMatch'
    BY <1>2 DEF Initialize, Announce, keys, IInv, TypeOK, SignalsMatch, Resources
  <2>3. Resources'
    BY <1>2 DEF Initialize, Announce, keys, IInv, TypeOK, Resources
  <2>4. Buffered'
    BY <1>2 DEF Initialize, Announce, keys, IInv, TypeOK, Buffered
  <2>5. ReadGated'
    BY <1>2 DEF Initialize, Announce, keys, IInv, TypeOK, ReadGated, Resources
  <2>6. FinalOutputShown'
    BY <1>2 DEF Initialize, Announce, keys, IInv, TypeOK, FinalOutputShown, Resources
  <2>7. ChildrenReaped'
    BY <1>2 DEF Initialize, Announce, keys, IInv, TypeOK, ChildrenReaped, Resources
  <2>8. Staged'
    BY <1>2 DEF Initialize, Announce, keys, IInv, TypeOK, Staged, Resources
  <2> QED BY <2>1, <2>2, <2>3, <2>4, <2>5, <2>6, <2>7, <2>8 DEF IInv
<1> QED BY <1>1, <1>2

\* What a read does while the PTY is open.
LEMMA ReadShows ==
    ASSUME IInv, fd, ReadFromPty \/ Continue
    PROVE  /\ shown' \in 0..produced /\ shown <= shown'
           /\ readOn' \in BOOLEAN /\ continuation' \in BOOLEAN /\ hungUp' \in BOOLEAN
           /\ readOn' \/ continuation' \/ hungUp'
           /\ readOn' => ~continuation'
<1>1. CASE ReadFromPty
  <2>1. readOn /\ ~continuation /\ readOn \in BOOLEAN /\ continuation \in BOOLEAN
    BY <1>1 DEF ReadFromPty, IInv, ReadGated, TypeOK
  <2>2. Drain(readOn, continuation) /\ produced' = produced
    BY <1>1 DEF ReadFromPty, kernel
  <2> QED BY <2>1, <2>2, DrainArms DEF IInv
<1>2. CASE Continue
  <2>1. Drain(TRUE, FALSE) /\ produced' = produced
    BY <1>2 DEF Continue, kernel
  <2> QED BY <2>1, DrainArms DEF IInv
<1> QED BY <1>1, <1>2

\* The bounded reads.
LEMMA ReadKeeps ==
    ASSUME IInv, ReadFromPty \/ Continue
    PROVE  IInv'
<1>1. CASE Continue /\ ~fd
  <2>1. TypeOK'
    <3>1. continuation' \in BOOLEAN
      BY <1>1, Zenon DEF Continue, keys, kernel, IInv, TypeOK
    <3>2. signals' \in Seq({"exited", "dismissed"})
      BY <1>1 DEF Continue, keys, kernel, IInv, TypeOK
    <3> QED BY <1>1, <3>1, <3>2 DEF Continue, keys, kernel, IInv, TypeOK
  <2>2. SignalsMatch'
    BY <1>1 DEF Continue, keys, kernel, IInv, TypeOK, SignalsMatch, Resources
  <2>3. Resources'
    BY <1>1 DEF Continue, keys, kernel, IInv, TypeOK, Resources
  <2>4. Buffered'
    BY <1>1 DEF Continue, keys, kernel, IInv, TypeOK, Buffered
  <2>5. ReadGated'
    BY <1>1 DEF Continue, keys, kernel, IInv, TypeOK, ReadGated, Resources
  <2>6. FinalOutputShown'
    BY <1>1 DEF Continue, keys, kernel, IInv, TypeOK, FinalOutputShown, Resources
  <2>7. ChildrenReaped'
    BY <1>1 DEF Continue, keys, kernel, IInv, TypeOK, ChildrenReaped, Resources
  <2>8. Staged'
    BY <1>1 DEF Continue, keys, kernel, IInv, TypeOK, Staged, Resources
  <2> QED BY <2>1, <2>2, <2>3, <2>4, <2>5, <2>6, <2>7, <2>8 DEF IInv
<1>2. CASE ReadFromPty \/ (Continue /\ fd)
  <2>1. /\ pc = "up" /\ fd
        /\ UNCHANGED <<pc, kernel, fd, pid, waiting, keys, requested, signals>>
    BY <1>2 DEF ReadFromPty, Continue, IInv, Resources, TypeOK
  <2>2. /\ shown' \in 0..produced /\ shown <= shown'
        /\ readOn' \in BOOLEAN /\ continuation' \in BOOLEAN /\ hungUp' \in BOOLEAN
        /\ readOn' \/ continuation' \/ hungUp'
        /\ readOn' => ~continuation'
    BY <1>2, <2>1, ReadShows
  <2>3. TypeOK'
    BY <2>1, <2>2, LifecycleAssumption DEF keys, kernel, IInv, TypeOK
  <2>4. SignalsMatch'
    BY <2>1, <2>2, LifecycleAssumption DEF keys, kernel, IInv, TypeOK, SignalsMatch, Resources
  <2>5. Resources'
    BY <2>1, <2>2, LifecycleAssumption DEF keys, kernel, IInv, TypeOK, Resources
  <2>6. Buffered'
    <3>1. produced \in Nat /\ shown \in Nat /\ shown' \in Nat
      BY <2>2 DEF IInv, TypeOK
    <3>2. produced' = produced /\ shown <= shown' /\ produced <= shown + Capacity
      BY <2>1, <2>2 DEF kernel, IInv, Buffered
    <3>3. Capacity \in Nat
      BY LifecycleAssumption
    <3>4. produced <= shown' + Capacity
      BY <3>1, <3>2, <3>3, RoomGrows
    <3> QED BY <3>2, <3>4 DEF Buffered
  <2>7. ReadGated'
    BY <2>1, <2>2, LifecycleAssumption DEF keys, kernel, IInv, TypeOK, ReadGated, Resources
  <2>8. FinalOutputShown'
    BY <2>1, <2>2, LifecycleAssumption DEF keys, kernel, IInv, TypeOK, FinalOutputShown, Resources
  <2>9. ChildrenReaped'
    BY <2>1, <2>2, LifecycleAssumption DEF keys, kernel, IInv, TypeOK, ChildrenReaped, Resources
  <2>10. Staged'
    BY <2>1, <2>2, LifecycleAssumption DEF keys, kernel, IInv, TypeOK, Staged, Resources
  <2> QED BY <2>3, <2>4, <2>5, <2>6, <2>7, <2>8, <2>9, <2>10 DEF IInv
<1> QED BY <1>1, <1>2 DEF ReadFromPty

\* The exit: everything is shown before it is announced.
LEMMA CheckChildKeeps ==
    ASSUME IInv, NEW wait \in BOOLEAN, CheckChild(wait)
    PROVE  IInv'
<1>1. shown' = produced
  BY FinalDrainShowsAll DEF IInv, CheckChild
<1>2. Len(signals') = 1
  BY DEF CheckChild, Announce, IInv, SignalsMatch
<1>3. TypeOK'
  <2>1. /\ fd' \in BOOLEAN /\ pid' \in BOOLEAN /\ readOn' \in BOOLEAN
        /\ waiting' \in BOOLEAN /\ leader' \in BOOLEAN
    BY <1>1, <1>2, Zenon DEF CheckChild, Exited, ForgetPid, ClosePty, keys, IInv, TypeOK
  <2>2. signals' \in Seq({"exited", "dismissed"})
    BY Signalled DEF CheckChild, Announce, IInv
  <2> QED BY <1>1, <1>2, <2>1, <2>2 DEF CheckChild, Exited, ForgetPid, ClosePty, keys, IInv, TypeOK
<1> QED
  BY <1>1, <1>2, <1>3, LifecycleAssumption
  DEF CheckChild, Exited, ForgetPid, ClosePty, IInv, TypeOK, SignalsMatch, Resources, Buffered,
      ReadGated, FinalOutputShown, ChildrenReaped, Staged, keys

\* Keys, before and after the exit.
LEMMA KeysKeep ==
    ASSUME IInv,
           \/ SendKey
           \/ \E bytes \in BOOLEAN : StageSequenceKey(bytes)
           \/ \E flush, current \in BOOLEAN : ResolveSequence(flush, current)
    PROVE  IInv'
<1>1. CASE SendKey
  <2>1. TypeOK'
    <3>1. waiting' \in BOOLEAN
      BY <1>1, Zenon DEF SendKey, keys, kernel, IInv, TypeOK
    <3>2. signals' \in Seq({"exited", "dismissed"})
      BY <1>1 DEF SendKey, keys, kernel, IInv, TypeOK
    <3> QED BY <1>1, <3>1, <3>2 DEF SendKey, keys, kernel, IInv, TypeOK
  <2>2. SignalsMatch'
    <3>1. waiting /\ pc = "closed"
      BY <1>1 DEF SendKey, IInv, Resources
    <3>2. Len(signals) = 1
      BY <3>1 DEF IInv, SignalsMatch
    <3>3. Len(signals') = 2 /\ ~waiting' /\ pc' = "closed"
      BY <1>1, <3>1, <3>2, Signalled DEF SendKey, IInv
    <3> QED BY <3>3 DEF SignalsMatch
  <2>3. Resources'
    BY <1>1 DEF SendKey, keys, kernel, IInv, TypeOK, Resources
  <2>4. Buffered'
    BY <1>1 DEF SendKey, keys, kernel, IInv, TypeOK, Buffered
  <2>5. ReadGated'
    BY <1>1 DEF SendKey, keys, kernel, IInv, TypeOK, ReadGated, Resources
  <2>6. FinalOutputShown'
    BY <1>1 DEF SendKey, keys, kernel, IInv, TypeOK, FinalOutputShown, Resources
  <2>7. ChildrenReaped'
    BY <1>1 DEF SendKey, keys, kernel, IInv, TypeOK, ChildrenReaped, Resources
  <2>8. Staged'
    BY <1>1 DEF SendKey, keys, kernel, IInv, TypeOK, Staged, Resources
  <2> QED BY <2>1, <2>2, <2>3, <2>4, <2>5, <2>6, <2>7, <2>8 DEF IInv
<1>2. CASE \E bytes \in BOOLEAN : StageSequenceKey(bytes)
  BY <1>2 DEF StageSequenceKey, IInv, TypeOK, SignalsMatch, Resources, Buffered,
      ReadGated, FinalOutputShown, ChildrenReaped, Staged, keys, kernel
<1>3. CASE \E flush, current \in BOOLEAN : ResolveSequence(flush, current)
  <2>1. TypeOK'
    <3>1. waiting' \in BOOLEAN /\ leader' \in BOOLEAN
      BY <1>3, Zenon DEF ResolveSequence, keys, kernel, IInv, TypeOK
    <3>2. signals' \in Seq({"exited", "dismissed"})
      BY <1>3 DEF ResolveSequence, keys, kernel, IInv, TypeOK
    <3> QED BY <1>3, <3>1, <3>2 DEF ResolveSequence, keys, kernel, IInv, TypeOK
  <2>2. SignalsMatch'
    <3>1. CASE signals' = signals /\ waiting' = waiting
      BY <1>3, <3>1 DEF ResolveSequence, IInv, SignalsMatch
    <3>2. CASE waiting /\ ~waiting' /\ signals' = Append(signals, "dismissed")
      <4>1. pc = "closed"
        BY <3>2 DEF IInv, Resources
      <4>2. Len(signals) = 1
        BY <3>2, <4>1 DEF IInv, SignalsMatch
      <4>3. Len(signals') = 2 /\ ~waiting' /\ pc' = "closed"
        BY <1>3, <3>2, <4>1, <4>2, Signalled DEF ResolveSequence, IInv
      <4> QED BY <4>3 DEF SignalsMatch
    <3> QED BY <1>3, <3>1, <3>2 DEF ResolveSequence
  <2>3. Resources'
    BY <1>3 DEF ResolveSequence, keys, kernel, IInv, TypeOK, Resources
  <2>4. Buffered'
    BY <1>3 DEF ResolveSequence, keys, kernel, IInv, TypeOK, Buffered
  <2>5. ReadGated'
    BY <1>3 DEF ResolveSequence, keys, kernel, IInv, TypeOK, ReadGated, Resources
  <2>6. FinalOutputShown'
    BY <1>3 DEF ResolveSequence, keys, kernel, IInv, TypeOK, FinalOutputShown, Resources
  <2>7. ChildrenReaped'
    BY <1>3 DEF ResolveSequence, keys, kernel, IInv, TypeOK, ChildrenReaped, Resources
  <2>8. Staged'
    BY <1>3 DEF ResolveSequence, keys, kernel, IInv, TypeOK, Staged, Resources
  <2> QED BY <2>1, <2>2, <2>3, <2>4, <2>5, <2>6, <2>7, <2>8 DEF IInv
<1> QED BY <1>1, <1>2, <1>3

\* The steps of the shutdown.
LEMMA ShutdownKeeps ==
    ASSUME IInv, Shutdown \/ GraceExpires \/ ShutdownReaps \/ ShutdownEnds
    PROVE  IInv'
<1>1. CASE Shutdown
  <2>1. TypeOK'
    <3>1. /\ pid' \in BOOLEAN /\ waiting' \in BOOLEAN
          /\ pc' \in {"grace", "closing"}
      BY <1>1, Zenon DEF Shutdown, IInv, TypeOK
    <3>2. UNCHANGED <<kernel, shown, fd, pid, readOn, hungUp, continuation,
                      keys, requested, signals>>
      BY <1>1 DEF Shutdown
    <3> QED BY <3>1, <3>2 DEF keys, kernel, IInv, TypeOK
  <2>2. SignalsMatch'
    BY <1>1 DEF Shutdown, keys, kernel, IInv, TypeOK, SignalsMatch, Resources
  <2>3. Resources'
    BY <1>1 DEF Shutdown, keys, kernel, IInv, TypeOK, Resources
  <2>4. Buffered'
    BY <1>1 DEF Shutdown, keys, kernel, IInv, TypeOK, Buffered, Resources
  <2>5. ReadGated'
    BY <1>1 DEF Shutdown, keys, kernel, IInv, TypeOK, ReadGated, Resources
  <2>6. FinalOutputShown'
    BY <1>1 DEF Shutdown, keys, kernel, IInv, TypeOK, FinalOutputShown, Resources
  <2>7. ChildrenReaped'
    BY <1>1 DEF Shutdown, keys, kernel, IInv, TypeOK, ChildrenReaped, Resources
  <2>8. Staged'
    BY <1>1 DEF Shutdown, keys, kernel, IInv, TypeOK, Staged, Resources
  <2> QED BY <2>1, <2>2, <2>3, <2>4, <2>5, <2>6, <2>7, <2>8 DEF IInv
<1>2. CASE GraceExpires
  BY <1>2 DEF GraceExpires, IInv, TypeOK, SignalsMatch, Resources, Buffered,
      ReadGated, FinalOutputShown, ChildrenReaped, Staged, keys, kernel
<1>3. CASE ShutdownReaps
  <2>1. shown' = produced
    BY <1>3, FinalDrainShowsAll DEF IInv, ShutdownReaps
  <2>2. TypeOK'
    <3>1. pid' \in BOOLEAN
      BY <1>3, <2>1, Zenon DEF ShutdownReaps, keys, IInv, TypeOK
    <3>2. signals' \in Seq({"exited", "dismissed"})
      BY <1>3, <2>1 DEF ShutdownReaps, keys, IInv, TypeOK
    <3> QED BY <1>3, <2>1, <3>1, <3>2 DEF ShutdownReaps, keys, IInv, TypeOK
  <2>3. SignalsMatch'
    BY <1>3, <2>1, LifecycleAssumption DEF ShutdownReaps, keys, IInv, TypeOK, SignalsMatch, Resources
  <2>4. Resources'
    BY <1>3, <2>1, LifecycleAssumption DEF ShutdownReaps, keys, IInv, TypeOK, Resources
  <2>5. Buffered'
    BY <1>3, <2>1, LifecycleAssumption DEF ShutdownReaps, keys, IInv, TypeOK, Buffered
  <2>6. ReadGated'
    BY <1>3, <2>1, LifecycleAssumption DEF ShutdownReaps, keys, IInv, TypeOK, ReadGated, Resources
  <2>7. FinalOutputShown'
    BY <1>3, <2>1, LifecycleAssumption DEF ShutdownReaps, keys, IInv, TypeOK, FinalOutputShown, Resources
  <2>8. ChildrenReaped'
    BY <1>3, <2>1, LifecycleAssumption DEF ShutdownReaps, keys, IInv, TypeOK, ChildrenReaped, Resources
  <2>9. Staged'
    BY <1>3, <2>1, LifecycleAssumption DEF ShutdownReaps, keys, IInv, TypeOK, Staged, Resources
  <2> QED BY <2>2, <2>3, <2>4, <2>5, <2>6, <2>7, <2>8, <2>9 DEF IInv
<1>4. CASE ShutdownEnds
  BY <1>4 DEF ShutdownEnds, ClosePty, IInv, TypeOK, SignalsMatch, Resources, Buffered,
      ReadGated, FinalOutputShown, ChildrenReaped, Staged, keys, kernel
<1> QED BY <1>1, <1>2, <1>3, <1>4

LEMMA NextKeeps == IInv /\ [Next]_vars => IInv'
<1> SUFFICES ASSUME IInv, [Next]_vars PROVE IInv'
  OBVIOUS
<1>1. CASE UNCHANGED vars
  BY <1>1 DEF vars, keys, kernel, IInv, TypeOK, SignalsMatch, Resources, Buffered,
      ReadGated, FinalOutputShown, ChildrenReaped, Staged
<1>2. CASE Worker
  BY <1>2, InitializeKeeps, ReadKeeps, CheckChildKeeps, KeysKeep, ShutdownKeeps
  DEF Worker
<1>3. CASE Environment
  BY <1>3, EnvironmentKeeps
<1> QED BY <1>1, <1>2, <1>3 DEF Next

LEMMA Invariance == Spec => []IInv
  BY InitInvariant, NextKeeps, PTL DEF Spec

\* Type correctness.
THEOREM TypeCorrect == Spec => []TypeOK
  BY Invariance, PTL DEF IInv

\* Output written before the exit is shown by the time it is announced.
THEOREM NoOutputLost == Spec => []FinalOutputShown
  BY Invariance, PTL DEF IInv

\* Reading stays armed, by one mechanism at a time.
THEOREM ReadingNeverStalls == Spec => []ReadStaysArmed
<1>1. IInv => ReadStaysArmed
  BY DEF IInv, ReadGated, ReadStaysArmed
<1> QED BY <1>1, Invariance, PTL

\* No child outlives its session.
THEOREM EveryChildReaped == Spec => []ChildrenReaped
  BY Invariance, PTL DEF IInv

\* shutdown() signals no process group but its child's.
THEOREM PidNeverStale == Spec => []PidIsOurs
<1>1. IInv => PidIsOurs
  BY DEF IInv, Resources, PidIsOurs
<1> QED BY <1>1, Invariance, PTL

\* A sequence begun before the exit can still dismiss the session.
THEOREM LeaderKept == Spec => []LeaderOutlivesExit
<1>1. IInv => LeaderOutlivesExit
  BY DEF IInv, Staged, LeaderOutlivesExit
<1> QED BY <1>1, Invariance, PTL

-----------------------------------------------------------------------------
(* The refinement *)

\* A step that changes none of what the pane sees.
LEMMA Unseen ==
    ASSUME UNCHANGED <<pc, produced, shown, signals, waiting>>
    PROVE  UNCHANGED Session!vars
  BY DEF Session!vars

\* The worker implements what a session promises its pane.
THEOREM RefinesSession == Spec => ImplementsSession
<1>1. Init => Session!Init
  BY DEF Init, Session!Init
<1>2. IInv /\ [Next]_vars => [Session!Next]_(Session!vars)
  <2> SUFFICES ASSUME IInv, [Next]_vars PROVE [Session!Next]_(Session!vars)
    OBVIOUS
  <2>1. CASE Write
    BY <2>1 DEF Write, Session!Next, Session!Produce
  <2>2. CASE \/ Exit \/ JobsEnd \/ RequestShutdown
             \/ \E open \in BOOLEAN : SetSlave(open)
             \/ \E bytes \in BOOLEAN : StageSequenceKey(bytes)
             \/ UNCHANGED vars
    BY <2>2, Unseen DEF Exit, JobsEnd, RequestShutdown, SetSlave, StageSequenceKey,
        vars, kernel
  <2>3. ASSUME NEW ok \in BOOLEAN, Initialize(ok)
        PROVE  Session!Next
    <3>1. CASE ok
      BY <2>3, <3>1 DEF Initialize, Session!Next, Session!Launch
    <3>2. CASE ~ok
      BY <2>3, <3>2 DEF Initialize, Announce, IInv, SignalsMatch, Resources,
          Session!Next, Session!Fail
    <3> QED BY <3>1, <3>2
  <2>4. CASE ReadFromPty \/ Continue
    <3>1. CASE shown' = shown
      BY <2>4, <3>1, Unseen DEF ReadFromPty, Continue, kernel
    <3>2. CASE shown' # shown
      <4>1. /\ pc = "up"
            /\ UNCHANGED <<pc, produced, waiting, signals>>
        BY <2>4, <3>2 DEF ReadFromPty, Continue, kernel, IInv, Resources
      <4>2. shown' \in (shown + 1)..produced
        <5>1. shown' \in 0..produced /\ shown <= shown'
          BY <2>4, <4>1, ReadShows DEF IInv, Resources
        <5> QED BY <3>2, <5>1 DEF IInv, TypeOK
      <4> QED BY <4>1, <4>2 DEF Session!Next, Session!Show
    <3> QED BY <3>1, <3>2
  <2>5. ASSUME NEW wait \in BOOLEAN, CheckChild(wait)
        PROVE  Session!End
    <3>1. shown' = produced
      BY <2>5, FinalDrainShowsAll DEF IInv, CheckChild
    <3>2. /\ pc = "up" /\ pc' = "closed" /\ produced' = produced
          /\ signals' = Append(signals, "exited") /\ Len(signals') = 1
      BY <2>5 DEF CheckChild, Announce, IInv, SignalsMatch
    <3> QED BY <3>1, <3>2 DEF Session!End
  <2>6. ASSUME waiting, ~waiting', signals' = Append(signals, "dismissed"),
               UNCHANGED <<pc, produced, shown>>
        PROVE  Session!Next
    <3>1. pc = "closed" /\ Len(signals) = 1 /\ signals \in Seq({"exited", "dismissed"})
      BY <2>6 DEF IInv, Resources, SignalsMatch, TypeOK
    <3>2. Len(signals') = 2
      BY <2>6, <3>1, Signalled DEF IInv
    <3> QED BY <2>6, <3>1, <3>2 DEF Session!Next, Session!Dismiss
  <2>7. CASE SendKey \/ \E flush, current \in BOOLEAN : ResolveSequence(flush, current)
    <3>1. CASE UNCHANGED <<waiting, signals>>
      BY <2>7, <3>1, Unseen DEF SendKey, ResolveSequence, kernel
    <3>2. CASE waiting /\ ~waiting' /\ signals' = Append(signals, "dismissed")
      BY <2>6, <2>7, <3>2 DEF SendKey, ResolveSequence, kernel
    <3> QED BY <2>7, <3>1, <3>2 DEF SendKey, ResolveSequence
  <2>8. CASE Shutdown
    BY <2>8 DEF Shutdown, kernel, Session!Next, Session!TearDown
  <2>9. CASE GraceExpires \/ ShutdownEnds
    BY <2>9 DEF GraceExpires, ShutdownEnds, kernel, Session!vars
  <2>10. CASE ShutdownReaps
    <3>1. shown' = produced /\ produced' = produced
      BY <2>10, FinalDrainShowsAll DEF IInv, ShutdownReaps
    <3>2. CASE shown = produced
      BY <2>10, <3>1, <3>2 DEF ShutdownReaps, Session!vars
    <3>3. CASE shown # produced
      <4>1. shown' \in (shown + 1)..produced
        BY <3>1, <3>3 DEF IInv, TypeOK
      <4> QED BY <2>10, <3>1, <4>1 DEF ShutdownReaps, Session!Next, Session!Show
    <3> QED BY <3>2, <3>3
  <2> QED
    BY <2>1, <2>2, <2>3, <2>4, <2>5, <2>7, <2>8, <2>9, <2>10
    DEF Next, Worker, Environment, Session!Next
<1> QED BY <1>1, <1>2, Invariance, PTL DEF Spec, ImplementsSession, Session!Spec

-----------------------------------------------------------------------------
(* The initial-session lease. The inductive invariant says who may hold    *)
(* what in each start state; the notification invariant is part of it,     *)
(* because a controller that waits outside the deque exists exactly        *)
(* between a promotion (or the commit) and its own poll.                   *)

\* The coordinator's fields agree with each other.
CoordinatorInv ==
    /\ state = "Reserved" <=> holder # {}
    /\ holder = {} <=> holderPayload = NoPayload
    /\ holder \intersect waiters = {}
    /\ waiters # {} => state = "Reserved"
    /\ resolved # {} => state = "Consumed"

\* What a controller's state says about its ticket and its worker.
ControllerInv ==
    \A c \in Controllers :
        /\ start[c] = "Idle" => ~claim[c] /\ worker[c] = "none"
        /\ start[c] = "WaitingForLease" =>
              claim[c] /\ worker[c] = "none" /\ launch[c] = NoPayload
        /\ start[c] # "Broken"
        /\ worker[c] = "starting" => start[c] = "Started"
        /\ start[c] = "Cancelled" => ~claim[c] /\ worker[c] = "none"
        /\ start[c] = "Started" => worker[c] # "none"
        /\ worker[c] = "none" => launch[c] = NoPayload

\* Where a controller's ticket can be.
TicketInv ==
    \A c \in Controllers :
        /\ c \in waiters => start[c] = "WaitingForLease"
        /\ start[c] = "WaitingForLease" => c \in holder \union waiters \union resolved
        /\ c \in holder => start[c] = "WaitingForLease" \/ worker[c] = "starting"
        /\ worker[c] = "starting" => (claim[c] <=> c \in holder)
        /\ worker[c] = "starting" => (c \in holder <=> launch[c] # NoPayload)
        /\ worker[c] = "up" /\ launch[c] # NoPayload => state = "Consumed"
        /\ c \in resolved => c \notin holder \union waiters

\* The inductive invariant of InitialSession.
LeaseInv ==
    /\ LeaseTypeOK
    /\ CoordinatorInv
    /\ ControllerInv
    /\ TicketInv
    /\ OneConsumer
    /\ NoLostNotification

USE InitialSessionAssumption

LEMMA LeaseInvInit == LeaseInit => LeaseInv
<1> SUFFICES ASSUME LeaseInit PROVE LeaseInv
  OBVIOUS
<1>1. LeaseTypeOK
  <2>1. claim \in [Controllers -> BOOLEAN] /\ notifying \in BOOLEAN
    BY DEF LeaseInit
  <2>2. /\ start \in [Controllers -> {"Idle", "WaitingForLease", "Started",
                                     "Cancelled", "Broken", "Destroyed"}]
        /\ worker \in [Controllers -> {"none", "starting", "up", "failed"}]
    BY DEF LeaseInit
  <2>3. /\ ticket \in [Controllers -> Nat] /\ lastTicket \in Nat
        /\ launch \in [Controllers -> Payloads \union {NoPayload}]
    BY DEF LeaseInit
  <2> QED BY <2>1, <2>2, <2>3 DEF LeaseInit, LeaseTypeOK
<1>2. CoordinatorInv /\ ControllerInv /\ TicketInv
  BY DEF LeaseInit, CoordinatorInv, ControllerInv, TicketInv
<1>3. OneConsumer /\ NoLostNotification
  BY DEF LeaseInit, OneConsumer, NoLostNotification
<1> QED BY <1>1, <1>2, <1>3 DEF LeaseInv

LEMMA StartSessionStep ==
    ASSUME LeaseInv, NEW c \in Controllers, StartSession(c)
    PROVE  LeaseInv'
<1>1. LeaseTypeOK'
  <2>1. state' \in {"Available", "Reserved", "Consumed"}
    BY DEF StartSession, FirstRequest, Launch, lease, LeaseInv, LeaseTypeOK, CoordinatorInv
  <2>2. holder' \in SUBSET Controllers
    BY DEF StartSession, FirstRequest, Launch, lease, LeaseInv, LeaseTypeOK, CoordinatorInv
  <2>3. \A a, b \in holder' : a = b
    BY DEF StartSession, FirstRequest, Launch, lease, LeaseInv, LeaseTypeOK, CoordinatorInv
  <2>4. holderPayload' \in Payloads \union {NoPayload}
    BY DEF StartSession, FirstRequest, Launch, lease, LeaseInv, LeaseTypeOK, CoordinatorInv
  <2>5. waiters' \in SUBSET Controllers /\ resolved' \in SUBSET Controllers
    BY DEF StartSession, FirstRequest, Launch, lease, LeaseInv, LeaseTypeOK, CoordinatorInv
  <2>6. ticket' \in [Controllers -> Nat] /\ lastTicket' \in Nat
    BY DEF StartSession, FirstRequest, Launch, lease, LeaseInv, LeaseTypeOK, CoordinatorInv
  <2>7. notifying' \in BOOLEAN
    BY DEF StartSession, FirstRequest, Launch, lease, LeaseInv, LeaseTypeOK, CoordinatorInv
  <2>8. polls' \in SUBSET Controllers /\ payload' \in Payloads
    BY DEF StartSession, FirstRequest, Launch, lease, LeaseInv, LeaseTypeOK, CoordinatorInv
  <2>9. start' \in [Controllers -> {"Idle", "WaitingForLease", "Started",
                               "Cancelled", "Broken", "Destroyed"}]
    BY DEF StartSession, FirstRequest, Launch, lease, LeaseInv, LeaseTypeOK, CoordinatorInv
  <2>10. claim' \in [Controllers -> BOOLEAN]
    BY DEF StartSession, FirstRequest, Launch, lease, LeaseInv, LeaseTypeOK, CoordinatorInv
  <2>11. worker' \in [Controllers -> {"none", "starting", "up", "failed"}]
    BY DEF StartSession, FirstRequest, Launch, lease, LeaseInv, LeaseTypeOK, CoordinatorInv
  <2>12. launch' \in [Controllers -> Payloads \union {NoPayload}]
    BY DEF StartSession, FirstRequest, Launch, lease, LeaseInv, LeaseTypeOK, CoordinatorInv
  <2> QED BY <2>1, <2>2, <2>3, <2>4, <2>5, <2>6, <2>7, <2>8, <2>9, <2>10, <2>11, <2>12 DEF LeaseTypeOK
<1>2. CoordinatorInv'
  BY DEF StartSession, FirstRequest, Launch, lease, LeaseInv, LeaseTypeOK, CoordinatorInv, ControllerInv, TicketInv, OneConsumer, NoLostNotification
<1>3. ControllerInv'
  BY DEF StartSession, FirstRequest, Launch, lease, LeaseInv, LeaseTypeOK, CoordinatorInv, ControllerInv, TicketInv, OneConsumer, NoLostNotification
<1>4. TicketInv'
  BY DEF StartSession, FirstRequest, Launch, lease, LeaseInv, LeaseTypeOK, CoordinatorInv, ControllerInv, TicketInv, OneConsumer, NoLostNotification
<1>5. OneConsumer'
  BY DEF StartSession, FirstRequest, Launch, lease, LeaseInv, LeaseTypeOK, CoordinatorInv, ControllerInv, TicketInv, OneConsumer, NoLostNotification
<1>6. NoLostNotification'
  BY DEF StartSession, FirstRequest, Launch, lease, LeaseInv, LeaseTypeOK, CoordinatorInv, ControllerInv, TicketInv, OneConsumer, NoLostNotification
<1> QED BY <1>1, <1>2, <1>3, <1>4, <1>5, <1>6 DEF LeaseInv

LEMMA UpdatePayloadStep ==
    ASSUME LeaseInv, NEW p \in Payloads, UpdatePayload(p)
    PROVE  LeaseInv'
<1>1. LeaseTypeOK'
  <2>1. state' \in {"Available", "Reserved", "Consumed"}
    BY DEF UpdatePayload, lease, LeaseInv, LeaseTypeOK, CoordinatorInv
  <2>2. holder' \in SUBSET Controllers
    BY DEF UpdatePayload, lease, LeaseInv, LeaseTypeOK, CoordinatorInv
  <2>3. \A a, b \in holder' : a = b
    BY DEF UpdatePayload, lease, LeaseInv, LeaseTypeOK, CoordinatorInv
  <2>4. holderPayload' \in Payloads \union {NoPayload}
    BY DEF UpdatePayload, lease, LeaseInv, LeaseTypeOK, CoordinatorInv
  <2>5. waiters' \in SUBSET Controllers /\ resolved' \in SUBSET Controllers
    BY DEF UpdatePayload, lease, LeaseInv, LeaseTypeOK, CoordinatorInv
  <2>6. ticket' \in [Controllers -> Nat] /\ lastTicket' \in Nat
    BY DEF UpdatePayload, lease, LeaseInv, LeaseTypeOK, CoordinatorInv
  <2>7. notifying' \in BOOLEAN
    BY DEF UpdatePayload, lease, LeaseInv, LeaseTypeOK, CoordinatorInv
  <2>8. polls' \in SUBSET Controllers /\ payload' \in Payloads
    BY DEF UpdatePayload, lease, LeaseInv, LeaseTypeOK, CoordinatorInv
  <2>9. start' \in [Controllers -> {"Idle", "WaitingForLease", "Started",
                               "Cancelled", "Broken", "Destroyed"}]
    BY DEF UpdatePayload, lease, LeaseInv, LeaseTypeOK, CoordinatorInv
  <2>10. claim' \in [Controllers -> BOOLEAN]
    BY DEF UpdatePayload, lease, LeaseInv, LeaseTypeOK, CoordinatorInv
  <2>11. worker' \in [Controllers -> {"none", "starting", "up", "failed"}]
    BY DEF UpdatePayload, lease, LeaseInv, LeaseTypeOK, CoordinatorInv
  <2>12. launch' \in [Controllers -> Payloads \union {NoPayload}]
    BY DEF UpdatePayload, lease, LeaseInv, LeaseTypeOK, CoordinatorInv
  <2> QED BY <2>1, <2>2, <2>3, <2>4, <2>5, <2>6, <2>7, <2>8, <2>9, <2>10, <2>11, <2>12 DEF LeaseTypeOK
<1>2. CoordinatorInv'
  BY DEF UpdatePayload, lease, LeaseInv, LeaseTypeOK, CoordinatorInv, ControllerInv, TicketInv, OneConsumer, NoLostNotification
<1>3. ControllerInv'
  BY DEF UpdatePayload, lease, LeaseInv, LeaseTypeOK, CoordinatorInv, ControllerInv, TicketInv, OneConsumer, NoLostNotification
<1>4. TicketInv'
  BY DEF UpdatePayload, lease, LeaseInv, LeaseTypeOK, CoordinatorInv, ControllerInv, TicketInv, OneConsumer, NoLostNotification
<1>5. OneConsumer'
  BY DEF UpdatePayload, lease, LeaseInv, LeaseTypeOK, CoordinatorInv, ControllerInv, TicketInv, OneConsumer, NoLostNotification
<1>6. NoLostNotification'
  BY DEF UpdatePayload, lease, LeaseInv, LeaseTypeOK, CoordinatorInv, ControllerInv, TicketInv, OneConsumer, NoLostNotification
<1> QED BY <1>1, <1>2, <1>3, <1>4, <1>5, <1>6 DEF LeaseInv

LEMMA RequestsChangedStep ==
    ASSUME LeaseInv, RequestsChanged
    PROVE  LeaseInv'
<1>1. LeaseTypeOK'
  <2>1. state' \in {"Available", "Reserved", "Consumed"}
    BY DEF RequestsChanged, lease, LeaseInv, LeaseTypeOK, CoordinatorInv
  <2>2. holder' \in SUBSET Controllers
    BY DEF RequestsChanged, lease, LeaseInv, LeaseTypeOK, CoordinatorInv
  <2>3. \A a, b \in holder' : a = b
    BY DEF RequestsChanged, lease, LeaseInv, LeaseTypeOK, CoordinatorInv
  <2>4. holderPayload' \in Payloads \union {NoPayload}
    BY DEF RequestsChanged, lease, LeaseInv, LeaseTypeOK, CoordinatorInv
  <2>5. waiters' \in SUBSET Controllers /\ resolved' \in SUBSET Controllers
    BY DEF RequestsChanged, lease, LeaseInv, LeaseTypeOK, CoordinatorInv
  <2>6. ticket' \in [Controllers -> Nat] /\ lastTicket' \in Nat
    BY DEF RequestsChanged, lease, LeaseInv, LeaseTypeOK, CoordinatorInv
  <2>7. notifying' \in BOOLEAN
    BY DEF RequestsChanged, lease, LeaseInv, LeaseTypeOK, CoordinatorInv
  <2>8. polls' \in SUBSET Controllers /\ payload' \in Payloads
    BY DEF RequestsChanged, lease, LeaseInv, LeaseTypeOK, CoordinatorInv
  <2>9. start' \in [Controllers -> {"Idle", "WaitingForLease", "Started",
                               "Cancelled", "Broken", "Destroyed"}]
    BY DEF RequestsChanged, lease, LeaseInv, LeaseTypeOK, CoordinatorInv
  <2>10. claim' \in [Controllers -> BOOLEAN]
    BY DEF RequestsChanged, lease, LeaseInv, LeaseTypeOK, CoordinatorInv
  <2>11. worker' \in [Controllers -> {"none", "starting", "up", "failed"}]
    BY DEF RequestsChanged, lease, LeaseInv, LeaseTypeOK, CoordinatorInv
  <2>12. launch' \in [Controllers -> Payloads \union {NoPayload}]
    BY DEF RequestsChanged, lease, LeaseInv, LeaseTypeOK, CoordinatorInv
  <2> QED BY <2>1, <2>2, <2>3, <2>4, <2>5, <2>6, <2>7, <2>8, <2>9, <2>10, <2>11, <2>12 DEF LeaseTypeOK
<1>2. CoordinatorInv'
  BY DEF RequestsChanged, lease, LeaseInv, LeaseTypeOK, CoordinatorInv, ControllerInv, TicketInv, OneConsumer, NoLostNotification
<1>3. ControllerInv'
  BY DEF RequestsChanged, lease, LeaseInv, LeaseTypeOK, CoordinatorInv, ControllerInv, TicketInv, OneConsumer, NoLostNotification
<1>4. TicketInv'
  BY DEF RequestsChanged, lease, LeaseInv, LeaseTypeOK, CoordinatorInv, ControllerInv, TicketInv, OneConsumer, NoLostNotification
<1>5. OneConsumer'
  BY DEF RequestsChanged, lease, LeaseInv, LeaseTypeOK, CoordinatorInv, ControllerInv, TicketInv, OneConsumer, NoLostNotification
<1>6. NoLostNotification'
  BY DEF RequestsChanged, lease, LeaseInv, LeaseTypeOK, CoordinatorInv, ControllerInv, TicketInv, OneConsumer, NoLostNotification
<1> QED BY <1>1, <1>2, <1>3, <1>4, <1>5, <1>6 DEF LeaseInv

LEMMA TryStartSessionStep ==
    ASSUME LeaseInv, NEW c \in Controllers, TryStartSession(c)
    PROVE  LeaseInv'
<1>1. LeaseTypeOK'
  <2>1. state' \in {"Available", "Reserved", "Consumed"}
    BY DEF TryStartSession, Poll, Launch, Withdraw, Remove, Oldest, lease, LeaseInv, LeaseTypeOK, CoordinatorInv
  <2>2. holder' \in SUBSET Controllers
    BY DEF TryStartSession, Poll, Launch, Withdraw, Remove, Oldest, lease, LeaseInv, LeaseTypeOK, CoordinatorInv
  <2>3. \A a, b \in holder' : a = b
    BY DEF TryStartSession, Poll, Launch, Withdraw, Remove, Oldest, lease, LeaseInv, LeaseTypeOK, CoordinatorInv
  <2>4. holderPayload' \in Payloads \union {NoPayload}
    BY DEF TryStartSession, Poll, Launch, Withdraw, Remove, Oldest, lease, LeaseInv, LeaseTypeOK, CoordinatorInv
  <2>5. waiters' \in SUBSET Controllers /\ resolved' \in SUBSET Controllers
    BY DEF TryStartSession, Poll, Launch, Withdraw, Remove, Oldest, lease, LeaseInv, LeaseTypeOK, CoordinatorInv
  <2>6. ticket' \in [Controllers -> Nat] /\ lastTicket' \in Nat
    BY DEF TryStartSession, Poll, Launch, Withdraw, Remove, Oldest, lease, LeaseInv, LeaseTypeOK, CoordinatorInv
  <2>7. notifying' \in BOOLEAN
    BY DEF TryStartSession, Poll, Launch, Withdraw, Remove, Oldest, lease, LeaseInv, LeaseTypeOK, CoordinatorInv
  <2>8. polls' \in SUBSET Controllers /\ payload' \in Payloads
    BY DEF TryStartSession, Poll, Launch, Withdraw, Remove, Oldest, lease, LeaseInv, LeaseTypeOK, CoordinatorInv
  <2>9. start' \in [Controllers -> {"Idle", "WaitingForLease", "Started",
                               "Cancelled", "Broken", "Destroyed"}]
    BY DEF TryStartSession, Poll, Launch, Withdraw, Remove, Oldest, lease, LeaseInv, LeaseTypeOK, CoordinatorInv
  <2>10. claim' \in [Controllers -> BOOLEAN]
    BY DEF TryStartSession, Poll, Launch, Withdraw, Remove, Oldest, lease, LeaseInv, LeaseTypeOK, CoordinatorInv
  <2>11. worker' \in [Controllers -> {"none", "starting", "up", "failed"}]
    BY DEF TryStartSession, Poll, Launch, Withdraw, Remove, Oldest, lease, LeaseInv, LeaseTypeOK, CoordinatorInv
  <2>12. launch' \in [Controllers -> Payloads \union {NoPayload}]
    BY DEF TryStartSession, Poll, Launch, Withdraw, Remove, Oldest, lease, LeaseInv, LeaseTypeOK, CoordinatorInv
  <2> QED BY <2>1, <2>2, <2>3, <2>4, <2>5, <2>6, <2>7, <2>8, <2>9, <2>10, <2>11, <2>12 DEF LeaseTypeOK
<1>2. CoordinatorInv'
  BY DEF TryStartSession, Poll, Launch, Withdraw, Remove, Oldest, lease, LeaseInv, LeaseTypeOK, CoordinatorInv, ControllerInv, TicketInv, OneConsumer, NoLostNotification
<1>3. ControllerInv'
  BY DEF TryStartSession, Poll, Launch, Withdraw, Remove, Oldest, lease, LeaseInv, LeaseTypeOK, CoordinatorInv, ControllerInv, TicketInv, OneConsumer, NoLostNotification
<1>4. TicketInv'
  BY DEF TryStartSession, Poll, Launch, Withdraw, Remove, Oldest, lease, LeaseInv, LeaseTypeOK, CoordinatorInv, ControllerInv, TicketInv, OneConsumer, NoLostNotification
<1>5. OneConsumer'
  BY DEF TryStartSession, Poll, Launch, Withdraw, Remove, Oldest, lease, LeaseInv, LeaseTypeOK, CoordinatorInv, ControllerInv, TicketInv, OneConsumer, NoLostNotification
<1>6. NoLostNotification'
  BY DEF TryStartSession, Poll, Launch, Withdraw, Remove, Oldest, lease, LeaseInv, LeaseTypeOK, CoordinatorInv, ControllerInv, TicketInv, OneConsumer, NoLostNotification
<1> QED BY <1>1, <1>2, <1>3, <1>4, <1>5, <1>6 DEF LeaseInv

LEMMA BeginShutdownStep ==
    ASSUME LeaseInv, NEW c \in Controllers, BeginShutdown(c)
    PROVE  LeaseInv'
<1>1. LeaseTypeOK'
  <2>1. state' \in {"Available", "Reserved", "Consumed"}
    BY DEF BeginShutdown, Withdraw, Remove, Oldest, lease, LeaseInv, LeaseTypeOK, CoordinatorInv
  <2>2. holder' \in SUBSET Controllers
    BY DEF BeginShutdown, Withdraw, Remove, Oldest, lease, LeaseInv, LeaseTypeOK, CoordinatorInv
  <2>3. \A a, b \in holder' : a = b
    BY DEF BeginShutdown, Withdraw, Remove, Oldest, lease, LeaseInv, LeaseTypeOK, CoordinatorInv
  <2>4. holderPayload' \in Payloads \union {NoPayload}
    BY DEF BeginShutdown, Withdraw, Remove, Oldest, lease, LeaseInv, LeaseTypeOK, CoordinatorInv
  <2>5. waiters' \in SUBSET Controllers /\ resolved' \in SUBSET Controllers
    BY DEF BeginShutdown, Withdraw, Remove, Oldest, lease, LeaseInv, LeaseTypeOK, CoordinatorInv
  <2>6. ticket' \in [Controllers -> Nat] /\ lastTicket' \in Nat
    BY DEF BeginShutdown, Withdraw, Remove, Oldest, lease, LeaseInv, LeaseTypeOK, CoordinatorInv
  <2>7. notifying' \in BOOLEAN
    BY DEF BeginShutdown, Withdraw, Remove, Oldest, lease, LeaseInv, LeaseTypeOK, CoordinatorInv
  <2>8. polls' \in SUBSET Controllers /\ payload' \in Payloads
    BY DEF BeginShutdown, Withdraw, Remove, Oldest, lease, LeaseInv, LeaseTypeOK, CoordinatorInv
  <2>9. start' \in [Controllers -> {"Idle", "WaitingForLease", "Started",
                               "Cancelled", "Broken", "Destroyed"}]
    BY DEF BeginShutdown, Withdraw, Remove, Oldest, lease, LeaseInv, LeaseTypeOK, CoordinatorInv
  <2>10. claim' \in [Controllers -> BOOLEAN]
    BY DEF BeginShutdown, Withdraw, Remove, Oldest, lease, LeaseInv, LeaseTypeOK, CoordinatorInv
  <2>11. worker' \in [Controllers -> {"none", "starting", "up", "failed"}]
    BY DEF BeginShutdown, Withdraw, Remove, Oldest, lease, LeaseInv, LeaseTypeOK, CoordinatorInv
  <2>12. launch' \in [Controllers -> Payloads \union {NoPayload}]
    BY DEF BeginShutdown, Withdraw, Remove, Oldest, lease, LeaseInv, LeaseTypeOK, CoordinatorInv
  <2> QED BY <2>1, <2>2, <2>3, <2>4, <2>5, <2>6, <2>7, <2>8, <2>9, <2>10, <2>11, <2>12 DEF LeaseTypeOK
<1>2. CoordinatorInv'
  BY DEF BeginShutdown, Withdraw, Remove, Oldest, lease, LeaseInv, LeaseTypeOK, CoordinatorInv, ControllerInv, TicketInv, OneConsumer, NoLostNotification
<1>3. ControllerInv'
  BY DEF BeginShutdown, Withdraw, Remove, Oldest, lease, LeaseInv, LeaseTypeOK, CoordinatorInv, ControllerInv, TicketInv, OneConsumer, NoLostNotification
<1>4. TicketInv'
  BY DEF BeginShutdown, Withdraw, Remove, Oldest, lease, LeaseInv, LeaseTypeOK, CoordinatorInv, ControllerInv, TicketInv, OneConsumer, NoLostNotification
<1>5. OneConsumer'
  BY DEF BeginShutdown, Withdraw, Remove, Oldest, lease, LeaseInv, LeaseTypeOK, CoordinatorInv, ControllerInv, TicketInv, OneConsumer, NoLostNotification
<1>6. NoLostNotification'
  BY DEF BeginShutdown, Withdraw, Remove, Oldest, lease, LeaseInv, LeaseTypeOK, CoordinatorInv, ControllerInv, TicketInv, OneConsumer, NoLostNotification
<1> QED BY <1>1, <1>2, <1>3, <1>4, <1>5, <1>6 DEF LeaseInv

LEMMA DestroyStep ==
    ASSUME LeaseInv, NEW c \in Controllers, Destroy(c)
    PROVE  LeaseInv'
<1>1. LeaseTypeOK'
  <2>1. state' \in {"Available", "Reserved", "Consumed"}
    BY DEF Destroy, Withdraw, Remove, Oldest, lease, LeaseInv, LeaseTypeOK, CoordinatorInv
  <2>2. holder' \in SUBSET Controllers
    BY DEF Destroy, Withdraw, Remove, Oldest, lease, LeaseInv, LeaseTypeOK, CoordinatorInv
  <2>3. \A a, b \in holder' : a = b
    BY DEF Destroy, Withdraw, Remove, Oldest, lease, LeaseInv, LeaseTypeOK, CoordinatorInv
  <2>4. holderPayload' \in Payloads \union {NoPayload}
    BY DEF Destroy, Withdraw, Remove, Oldest, lease, LeaseInv, LeaseTypeOK, CoordinatorInv
  <2>5. waiters' \in SUBSET Controllers /\ resolved' \in SUBSET Controllers
    BY DEF Destroy, Withdraw, Remove, Oldest, lease, LeaseInv, LeaseTypeOK, CoordinatorInv
  <2>6. ticket' \in [Controllers -> Nat] /\ lastTicket' \in Nat
    BY DEF Destroy, Withdraw, Remove, Oldest, lease, LeaseInv, LeaseTypeOK, CoordinatorInv
  <2>7. notifying' \in BOOLEAN
    BY DEF Destroy, Withdraw, Remove, Oldest, lease, LeaseInv, LeaseTypeOK, CoordinatorInv
  <2>8. polls' \in SUBSET Controllers /\ payload' \in Payloads
    BY DEF Destroy, Withdraw, Remove, Oldest, lease, LeaseInv, LeaseTypeOK, CoordinatorInv
  <2>9. start' \in [Controllers -> {"Idle", "WaitingForLease", "Started",
                               "Cancelled", "Broken", "Destroyed"}]
    BY DEF Destroy, Withdraw, Remove, Oldest, lease, LeaseInv, LeaseTypeOK, CoordinatorInv
  <2>10. claim' \in [Controllers -> BOOLEAN]
    BY DEF Destroy, Withdraw, Remove, Oldest, lease, LeaseInv, LeaseTypeOK, CoordinatorInv
  <2>11. worker' \in [Controllers -> {"none", "starting", "up", "failed"}]
    BY DEF Destroy, Withdraw, Remove, Oldest, lease, LeaseInv, LeaseTypeOK, CoordinatorInv
  <2>12. launch' \in [Controllers -> Payloads \union {NoPayload}]
    BY DEF Destroy, Withdraw, Remove, Oldest, lease, LeaseInv, LeaseTypeOK, CoordinatorInv
  <2> QED BY <2>1, <2>2, <2>3, <2>4, <2>5, <2>6, <2>7, <2>8, <2>9, <2>10, <2>11, <2>12 DEF LeaseTypeOK
<1>2. CoordinatorInv'
  BY DEF Destroy, Withdraw, Remove, Oldest, lease, LeaseInv, LeaseTypeOK, CoordinatorInv, ControllerInv, TicketInv, OneConsumer, NoLostNotification
<1>3. ControllerInv'
  BY DEF Destroy, Withdraw, Remove, Oldest, lease, LeaseInv, LeaseTypeOK, CoordinatorInv, ControllerInv, TicketInv, OneConsumer, NoLostNotification
<1>4. TicketInv'
  BY DEF Destroy, Withdraw, Remove, Oldest, lease, LeaseInv, LeaseTypeOK, CoordinatorInv, ControllerInv, TicketInv, OneConsumer, NoLostNotification
<1>5. OneConsumer'
  BY DEF Destroy, Withdraw, Remove, Oldest, lease, LeaseInv, LeaseTypeOK, CoordinatorInv, ControllerInv, TicketInv, OneConsumer, NoLostNotification
<1>6. NoLostNotification'
  BY DEF Destroy, Withdraw, Remove, Oldest, lease, LeaseInv, LeaseTypeOK, CoordinatorInv, ControllerInv, TicketInv, OneConsumer, NoLostNotification
<1> QED BY <1>1, <1>2, <1>3, <1>4, <1>5, <1>6 DEF LeaseInv

LEMMA InitializeStep ==
    ASSUME LeaseInv, NEW c \in Controllers, NEW ok \in BOOLEAN, InitializeWorker(c, ok)
    PROVE  LeaseInv'
<1>1. LeaseTypeOK'
  <2>1. state' \in {"Available", "Reserved", "Consumed"}
    BY DEF InitializeWorker, Commit, Remove, Oldest, lease, LeaseInv, LeaseTypeOK, CoordinatorInv
  <2>2. holder' \in SUBSET Controllers
    BY DEF InitializeWorker, Commit, Remove, Oldest, lease, LeaseInv, LeaseTypeOK, CoordinatorInv
  <2>3. \A a, b \in holder' : a = b
    BY DEF InitializeWorker, Commit, Remove, Oldest, lease, LeaseInv, LeaseTypeOK, CoordinatorInv
  <2>4. holderPayload' \in Payloads \union {NoPayload}
    BY DEF InitializeWorker, Commit, Remove, Oldest, lease, LeaseInv, LeaseTypeOK, CoordinatorInv
  <2>5. waiters' \in SUBSET Controllers /\ resolved' \in SUBSET Controllers
    BY DEF InitializeWorker, Commit, Remove, Oldest, lease, LeaseInv, LeaseTypeOK, CoordinatorInv
  <2>6. ticket' \in [Controllers -> Nat] /\ lastTicket' \in Nat
    BY DEF InitializeWorker, Commit, Remove, Oldest, lease, LeaseInv, LeaseTypeOK, CoordinatorInv
  <2>7. notifying' \in BOOLEAN
    BY DEF InitializeWorker, Commit, Remove, Oldest, lease, LeaseInv, LeaseTypeOK, CoordinatorInv
  <2>8. polls' \in SUBSET Controllers /\ payload' \in Payloads
    BY DEF InitializeWorker, Commit, Remove, Oldest, lease, LeaseInv, LeaseTypeOK, CoordinatorInv
  <2>9. start' \in [Controllers -> {"Idle", "WaitingForLease", "Started",
                               "Cancelled", "Broken", "Destroyed"}]
    BY DEF InitializeWorker, Commit, Remove, Oldest, lease, LeaseInv, LeaseTypeOK, CoordinatorInv
  <2>10. claim' \in [Controllers -> BOOLEAN]
    BY DEF InitializeWorker, Commit, Remove, Oldest, lease, LeaseInv, LeaseTypeOK, CoordinatorInv
  <2>11. worker' \in [Controllers -> {"none", "starting", "up", "failed"}]
    BY DEF InitializeWorker, Commit, Remove, Oldest, lease, LeaseInv, LeaseTypeOK, CoordinatorInv
  <2>12. launch' \in [Controllers -> Payloads \union {NoPayload}]
    BY DEF InitializeWorker, Commit, Remove, Oldest, lease, LeaseInv, LeaseTypeOK, CoordinatorInv
  <2> QED BY <2>1, <2>2, <2>3, <2>4, <2>5, <2>6, <2>7, <2>8, <2>9, <2>10, <2>11, <2>12 DEF LeaseTypeOK
<1>2. CoordinatorInv'
  BY DEF InitializeWorker, Commit, Remove, Oldest, lease, LeaseInv, LeaseTypeOK, CoordinatorInv, ControllerInv, TicketInv, OneConsumer, NoLostNotification
<1>3. ControllerInv'
  BY DEF InitializeWorker, Commit, Remove, Oldest, lease, LeaseInv, LeaseTypeOK, CoordinatorInv, ControllerInv, TicketInv, OneConsumer, NoLostNotification
<1>4. TicketInv'
  BY DEF InitializeWorker, Commit, Remove, Oldest, lease, LeaseInv, LeaseTypeOK, CoordinatorInv, ControllerInv, TicketInv, OneConsumer, NoLostNotification
<1>5. OneConsumer'
  BY DEF InitializeWorker, Commit, Remove, Oldest, lease, LeaseInv, LeaseTypeOK, CoordinatorInv, ControllerInv, TicketInv, OneConsumer, NoLostNotification
<1>6. NoLostNotification'
  BY DEF InitializeWorker, Commit, Remove, Oldest, lease, LeaseInv, LeaseTypeOK, CoordinatorInv, ControllerInv, TicketInv, OneConsumer, NoLostNotification
<1> QED BY <1>1, <1>2, <1>3, <1>4, <1>5, <1>6 DEF LeaseInv

-----------------------------------------------------------------------------
\* Every step keeps the inductive invariant.
LEMMA LeaseInvStep == LeaseInv /\ [LeaseNext]_lease_vars => LeaseInv'
<1> SUFFICES ASSUME LeaseInv, [LeaseNext]_lease_vars PROVE LeaseInv'
  OBVIOUS
<1>1. CASE UNCHANGED lease_vars
  BY <1>1 DEF lease_vars, LeaseInv, LeaseTypeOK, CoordinatorInv, ControllerInv, TicketInv,
              OneConsumer, NoLostNotification
<1>2. CASE RequestsChanged
  BY <1>2, RequestsChangedStep
<1>3. ASSUME NEW p \in Payloads, UpdatePayload(p) PROVE LeaseInv'
  BY <1>3, UpdatePayloadStep
<1>4. ASSUME NEW c \in Controllers, StartSession(c) PROVE LeaseInv'
  BY <1>4, StartSessionStep
<1>5. ASSUME NEW c \in Controllers, TryStartSession(c) PROVE LeaseInv'
  BY <1>5, TryStartSessionStep
<1>6. ASSUME NEW c \in Controllers, BeginShutdown(c) PROVE LeaseInv'
  BY <1>6, BeginShutdownStep
<1>7. ASSUME NEW c \in Controllers, Destroy(c) PROVE LeaseInv'
  BY <1>7, DestroyStep
<1>8. ASSUME NEW c \in Controllers, NEW ok \in BOOLEAN, InitializeWorker(c, ok)
      PROVE  LeaseInv'
  BY <1>8, InitializeStep
<1> QED BY <1>1, <1>2, <1>3, <1>4, <1>5, <1>6, <1>7, <1>8 DEF LeaseNext

LEMMA LeaseInvariance == LeaseSpec => []LeaseInv
BY LeaseInvInit, LeaseInvStep, PTL DEF LeaseSpec

\* Types, for every set of controllers and payloads.
THEOREM LeaseTypeCorrect == LeaseSpec => []LeaseTypeOK
<1>1. LeaseInv => LeaseTypeOK
  BY DEF LeaseInv
<1> QED BY <1>1, LeaseInvariance, PTL

\* Two sessions never run the launch command.
THEOREM LeaseExclusive == LeaseSpec => []OneConsumer
<1>1. LeaseInv => OneConsumer
  BY DEF LeaseInv
<1> QED BY <1>1, LeaseInvariance, PTL

\* A promoted or resolved waiter is always about to be told.
THEOREM NotificationKept == LeaseSpec => []NoLostNotification
<1>1. LeaseInv => NoLostNotification
  BY DEF LeaseInv
<1> QED BY <1>1, LeaseInvariance, PTL

\* No ticket becomes invalid, and the worker's commit or release finds its own.
THEOREM LeaseSound == LeaseSpec => []LeaseNeverBroken
<1>1. LeaseInv => LeaseNeverBroken
  BY DEF LeaseInv, LeaseNeverBroken, ControllerInv, TicketInv, CoordinatorInv
<1> QED BY <1>1, LeaseInvariance, PTL

\* Nobody waits behind a holder that is gone.
THEOREM ReservationNeverLeaks == LeaseSpec => []ReservationLive
<1>1. LeaseInv => ReservationLive
  BY DEF LeaseInv, ReservationLive, LeaseTypeOK, CoordinatorInv, TicketInv,
         NoLostNotification
<1> QED BY <1>1, LeaseInvariance, PTL

\* The lease is neither broken nor leaked.
THEOREM LeaseStaysSafe == LeaseSpec => []LeaseSafe
<1>1. LeaseNeverBroken /\ ReservationLive => LeaseSafe
  BY DEF LeaseSafe
<1> QED BY <1>1, LeaseSound, ReservationNeverLeaks, PTL

-----------------------------------------------------------------------------
\* A controller is promoted with the payload of that moment.
LEMMA PromotionStep ==
    ASSUME LeaseInv, [LeaseNext]_lease_vars, NEW c \in Controllers, c \in holder', c \notin holder
    PROVE  holderPayload' = payload
BY DEF LeaseNext, lease_vars, lease, RequestsChanged, UpdatePayload, StartSession,
       FirstRequest, Launch, TryStartSession, Poll, BeginShutdown, Destroy,
       InitializeWorker, Withdraw, Remove, Commit, LeaseInv, CoordinatorInv

THEOREM PromotedWithCurrent == LeaseSpec => PromotionIsCurrent
<1>1. LeaseInv /\ [LeaseNext]_lease_vars =>
         [\A c \in Controllers :
             c \in holder' /\ c \notin holder => holderPayload' = payload]_lease_vars
  BY PromotionStep
<1> QED BY <1>1, LeaseInvariance, PTL DEF LeaseSpec, PromotionIsCurrent

\* Grants follow ticket order: nobody overtakes an older waiter.
LEMMA GrantStep ==
    ASSUME LeaseInv, [LeaseNext]_lease_vars, NEW c \in Controllers, c \in holder', c \notin holder
    PROVE  \A w \in waiters : ticket'[c] <= ticket[w]
BY DEF LeaseNext, lease_vars, lease, RequestsChanged, UpdatePayload, StartSession,
       FirstRequest, Launch, TryStartSession, Poll, BeginShutdown, Destroy,
       InitializeWorker, Withdraw, Remove, Oldest, Commit, LeaseInv, CoordinatorInv

THEOREM FirstComeFirstServed == LeaseSpec => GrantsInOrder
<1>1. LeaseInv /\ [LeaseNext]_lease_vars =>
         [\A c \in Controllers :
             c \in holder' /\ c \notin holder =>
                 \A w \in waiters : ticket'[c] <= ticket[w]]_lease_vars
  BY GrantStep
<1> QED BY <1>1, LeaseInvariance, PTL DEF LeaseSpec, GrantsInOrder

\* A session launches with the snapshot its grant took, whatever was reloaded.
LEMMA SnapshotStep ==
    ASSUME LeaseInv, [LeaseNext]_lease_vars, NEW c \in Controllers, launch[c] # launch'[c]
    PROVE  launch'[c] = IF c \in holder THEN holderPayload ELSE payload
BY DEF LeaseNext, lease_vars, lease, RequestsChanged, UpdatePayload, StartSession,
       FirstRequest, Launch, TryStartSession, Poll, BeginShutdown, Destroy,
       InitializeWorker, LeaseInv, LeaseTypeOK, CoordinatorInv, ControllerInv, TicketInv

THEOREM SnapshotKept == LeaseSpec => SnapshotImmutable
<1>1. LeaseInv /\ [LeaseNext]_lease_vars =>
         [\A c \in Controllers :
             launch[c] # launch'[c] =>
                 launch'[c] = IF c \in holder THEN holderPayload ELSE payload]_lease_vars
  BY SnapshotStep
<1> QED BY <1>1, LeaseInvariance, PTL DEF LeaseSpec, SnapshotImmutable

\* Grants are unaffected by reloads and by who else comes and goes.
THEOREM GrantsHonoured == LeaseSpec => GrantsSound
BY SnapshotKept, PromotedWithCurrent, FirstComeFirstServed DEF GrantsSound

-----------------------------------------------------------------------------
\* Who runs the launch command changes only when the holder's terminal is up.
LEMMA UsersKept ==
    ASSUME launch' = launch, worker' = worker
    PROVE  Users' = Users
BY DEF Users

LEMMA NoUserBefore ==
    ASSUME LeaseInv, state # "Consumed"
    PROVE  Users = {}
BY DEF LeaseInv, LeaseTypeOK, TicketInv, Users

\* Starting a session makes nobody a user yet.
LEMMA LaunchMakesNoUser ==
    ASSUME LeaseInv, NEW c \in Controllers, worker[c] = "none",
           worker' = [worker EXCEPT ![c] = "starting"],
           \A d \in Controllers : d # c => launch'[d] = launch[d]
    PROVE  Users' = Users
BY DEF LeaseInv, LeaseTypeOK, Users

\* The abstract lease after an operation of the coordinator, when nobody
\* becomes or stops being a user.
LEMMA RemoveReturns ==
    ASSUME LeaseInv, NEW c \in Controllers, Remove(c), Users' = Users
    PROVE  [Lease!Next]_(Lease!vars)
BY DEF Remove, Oldest, LeaseInv, LeaseTypeOK, CoordinatorInv,
       Lease!Next, Lease!Return, Lease!vars

LEMMA LeaseKept ==
    ASSUME UNCHANGED lease, Users' = Users
    PROVE  UNCHANGED Lease!vars
BY DEF lease, Lease!vars

LEMMA WithdrawReturns ==
    ASSUME LeaseInv, NEW c \in Controllers, Withdraw(c), Users' = Users
    PROVE  [Lease!Next]_(Lease!vars)
BY RemoveReturns, LeaseKept DEF Withdraw

LEMMA InitializeMaps ==
    ASSUME LeaseInv, NEW c \in Controllers, NEW ok \in BOOLEAN, InitializeWorker(c, ok)
    PROVE  [Lease!Next]_(Lease!vars)
<1>1. /\ worker[c] = "starting" /\ launch' = launch
      /\ worker' = [worker EXCEPT ![c] = IF ok THEN "up" ELSE "failed"]
  BY DEF InitializeWorker
<1>2. CASE claim[c] /\ ok
  <2>1. Commit(c) /\ c \in holder /\ state = "Reserved"
    BY <1>1, <1>2 DEF InitializeWorker, LeaseInv, TicketInv, CoordinatorInv
  <2>2. launch[c] # NoPayload /\ holder = {c}
    BY <1>1, <2>1 DEF LeaseInv, LeaseTypeOK, TicketInv
  <2>3. Users = {}
    BY <2>1, NoUserBefore
  <2>4. Users' = {c}
    BY <1>1, <1>2, <2>2, <2>3 DEF Users, LeaseInv, LeaseTypeOK
  <2>5. Lease!Spend(c)
    BY <2>1, <2>2, <2>3, <2>4 DEF Lease!Spend, Commit
  <2> QED BY <2>5 DEF Lease!Next
<1>3. CASE claim[c] /\ ~ok
  <2>1. Remove(c) /\ Users' = Users
    BY <1>1, <1>3 DEF InitializeWorker, Users, LeaseInv, LeaseTypeOK
  <2> QED BY <2>1, RemoveReturns
<1>4. CASE ~claim[c]
  <2>1. launch[c] = NoPayload /\ UNCHANGED lease
    BY <1>1, <1>4 DEF InitializeWorker, LeaseInv, TicketInv
  <2>2. Users' = Users
    BY <1>1, <2>1 DEF Users, LeaseInv, LeaseTypeOK
  <2> QED BY <2>1, <2>2, LeaseKept
<1> QED BY <1>2, <1>3, <1>4 DEF LeaseInv, LeaseTypeOK

LEMMA StartSessionMaps ==
    ASSUME LeaseInv, NEW c \in Controllers, StartSession(c)
    PROVE  [Lease!Next]_(Lease!vars)
<1>1. worker[c] = "none"
  BY DEF StartSession, LeaseInv, ControllerInv
<1>2. Users' = Users
  <2>1. CASE worker' = worker /\ launch' = launch
    BY <2>1, UsersKept
  <2>2. CASE \E p \in Payloads \union {NoPayload} : Launch(c, p)
    <3>1. PICK p \in Payloads \union {NoPayload} : Launch(c, p)
      BY <2>2
    <3>2. \A d \in Controllers : d # c => launch'[d] = launch[d]
      BY <3>1 DEF Launch, LeaseInv, LeaseTypeOK
    <3> QED BY <1>1, <3>1, <3>2, LaunchMakesNoUser DEF Launch
  <2> QED BY <2>1, <2>2 DEF StartSession, FirstRequest, LeaseInv, LeaseTypeOK
<1>3. CASE UNCHANGED lease
  BY <1>2, <1>3, LeaseKept
<1>4. CASE state = "Available" /\ state' = "Reserved" /\ holder' = {c}
  BY <1>2, <1>4 DEF Lease!Next, Lease!Take, Lease!vars
<1>5. CASE state = "Reserved" /\ state' = state /\ holder' = holder
  BY <1>2, <1>5 DEF Lease!vars
<1> QED BY <1>3, <1>4, <1>5 DEF StartSession, FirstRequest

LEMMA TryStartSessionMaps ==
    ASSUME LeaseInv, NEW c \in Controllers, TryStartSession(c)
    PROVE  [Lease!Next]_(Lease!vars)
<1>1. CASE worker' = worker /\ launch' = launch /\ UNCHANGED lease
  BY <1>1, UsersKept, LeaseKept
<1>2. CASE start[c] = "WaitingForLease"
  <2>1. worker[c] = "none" /\ Poll(c)
    BY <1>2 DEF TryStartSession, LeaseInv, ControllerInv
  <2>2. CASE worker' = worker /\ launch' = launch /\ Withdraw(c)
    BY <2>2, UsersKept, WithdrawReturns
  <2>3. ASSUME NEW p, Launch(c, p), UNCHANGED lease
        PROVE  [Lease!Next]_(Lease!vars)
    <3>1. \A d \in Controllers : d # c => launch'[d] = launch[d]
      BY <2>3 DEF Launch, LeaseInv, LeaseTypeOK
    <3>2. Users' = Users
      BY <2>1, <2>3, <3>1, LaunchMakesNoUser DEF Launch
    <3> QED BY <2>3, <3>2, LeaseKept
  <2> QED BY <1>1, <2>1, <2>2, <2>3 DEF Poll
<1> QED BY <1>1, <1>2 DEF TryStartSession

\* The protocol implements the one-shot lease.
THEOREM RefinesLease == LeaseSpec => ImplementsLease
<1>1. LeaseInit => Lease!Init
  BY DEF LeaseInit, Lease!Init, Users
<1>2. LeaseInv /\ [LeaseNext]_lease_vars => [Lease!Next]_(Lease!vars)
  <2> SUFFICES ASSUME LeaseInv, [LeaseNext]_lease_vars PROVE [Lease!Next]_(Lease!vars)
    OBVIOUS
  <2>1. CASE UNCHANGED <<lease, worker, launch>>
    BY <2>1, UsersKept, LeaseKept
  <2>2. CASE RequestsChanged
    <3>1. Users' = Users /\ state' = state /\ holder' = holder
      BY <2>2, UsersKept DEF RequestsChanged
    <3> QED BY <3>1 DEF Lease!vars
  <2>3. ASSUME NEW c \in Controllers, StartSession(c)
        PROVE  [Lease!Next]_(Lease!vars)
    BY <2>3, StartSessionMaps
  <2>4. ASSUME NEW c \in Controllers, TryStartSession(c)
        PROVE  [Lease!Next]_(Lease!vars)
    BY <2>4, TryStartSessionMaps
  <2>5. ASSUME NEW c \in Controllers, BeginShutdown(c) \/ Destroy(c)
        PROVE  [Lease!Next]_(Lease!vars)
    BY <2>5, UsersKept, WithdrawReturns DEF BeginShutdown, Destroy
  <2>6. ASSUME NEW c \in Controllers, NEW ok \in BOOLEAN, InitializeWorker(c, ok)
        PROVE  [Lease!Next]_(Lease!vars)
    BY <2>6, InitializeMaps
  <2>7. ASSUME NEW p \in Payloads, UpdatePayload(p)
        PROVE  [Lease!Next]_(Lease!vars)
    BY <2>1, <2>7 DEF UpdatePayload, lease
  <2>8. CASE UNCHANGED lease_vars
    BY <2>1, <2>8 DEF lease_vars, lease
  <2> QED BY <2>2, <2>3, <2>4, <2>5, <2>6, <2>7, <2>8 DEF LeaseNext
<1> QED BY <1>1, <1>2, LeaseInvariance, PTL DEF LeaseSpec, ImplementsLease, Lease!Spec

-----------------------------------------------------------------------------
(* The write path: its type and wakeup invariant, the bound on its         *)
(* storage, and that it implements ByteStream, from which the order and    *)
(* the completeness of the bytes follow.                                   *)

\* The inductive invariant: types, the wakeup invariant, and what bounds the
\* storage (the live bytes by their peak, the dead prefix by the compaction).
WriterInv ==
    /\ WriterOK
    /\ NoLostWakeup
    /\ Remaining <= peak
    /\ StorageBounded
    /\ ~HasPty => storage = <<>>

\* The numbered bytes of a submission form a sequence of numbers.
LEMMA BytesType ==
    ASSUME WriterOK, NEW n \in Nat
    PROVE  /\ Bytes(n) \in Seq(Nat)
           /\ Len(Bytes(n)) = n
           /\ \A i \in 1..n : Bytes(n)[i] = sent + i
<1>1. sent \in Nat
  BY DEF WriterOK
<1> QED BY <1>1 DEF Bytes

\* The live suffix of the buffer is a sequence of numbers.
LEMMA PendingType ==
    ASSUME WriterOK
    PROVE  /\ Pending \in Seq(Nat)
           /\ Len(Pending) = Remaining
           /\ Remaining \in Nat
           /\ IsEmpty <=> Pending = <<>>
<1>1. storage \in Seq(Nat) /\ consumed \in 0..Len(storage)
  BY DEF WriterOK
<1>2. /\ Pending \in Seq(Nat)
      /\ Len(Pending) = Len(storage) - consumed
  BY <1>1, Halves DEF Pending
<1>3. Len(storage) \in Nat /\ consumed \in Nat
  BY <1>1
<1>4. IsEmpty <=> Len(Pending) = 0
  BY <1>2, <1>3 DEF IsEmpty
<1>5. Pending = <<>> <=> Len(Pending) = 0
  BY <1>2
<1> QED BY <1>2, <1>3, <1>4, <1>5 DEF Remaining

\* A cleared buffer holds nothing.
LEMMA ClearedBuffer ==
    ASSUME ClearBuffer
    PROVE  /\ storage' \in Seq(Nat)
           /\ storage' = <<>>
           /\ consumed' = 0
           /\ consumed' \in 0..Len(storage')
           /\ Pending' = <<>>
           /\ Remaining' = 0
           /\ IsEmpty'
BY DEF ClearBuffer, Pending, Remaining, IsEmpty

\* With the buffer cleared and the notifier off, types are all that is left.
LEMMA WriterInvOfCleared ==
    ASSUME ClearBuffer, notifier' = FALSE, failed' \in BOOLEAN,
           phase' \in {"none", "launching", "open", "closed"},
           sent' \in Nat, written' \in Seq(Nat), peak' \in Nat,
           CompactionThreshold \in Nat
    PROVE  WriterInv'
<1>1. /\ storage' \in Seq(Nat) /\ storage' = <<>> /\ Len(storage') = 0
      /\ consumed' \in 0..Len(storage') /\ Remaining' = 0 /\ IsEmpty'
  BY ClearedBuffer
<1>2. WriterOK'
  BY <1>1 DEF WriterOK
<1>3. Remaining' <= peak' /\ StorageBounded'
  <2>1. Len(storage') = 0 /\ Remaining' = 0
    BY <1>1
  <2>2. Larger(CompactionThreshold, peak') \in Nat
    BY DEF Larger
  <2>3. StorageBounded'
    BY <2>1, <2>2 DEF StorageBounded
  <2> QED BY <2>1, <2>3
<1> QED BY <1>1, <1>2, <1>3 DEF WriterInv, NoLostWakeup

\* append() adds its data behind what waits, compacted or not.
LEMMA AppendExtendsPending ==
    ASSUME WriterOK, NEW data \in Seq(Nat), AppendToBuffer(data),
           CompactionThreshold \in Nat, Remaining <= peak
    PROVE  /\ Pending' = Pending \o data
           /\ storage' \in Seq(Nat)
           /\ consumed' \in 0..Len(storage')
           /\ Remaining' = Remaining + Len(data)
           /\ peak' \in Nat
           /\ Remaining' <= peak'
           /\ StorageBounded'
<1>1. /\ storage \in Seq(Nat) /\ consumed \in 0..Len(storage)
      /\ Len(storage) \in Nat /\ consumed \in Nat /\ Len(data) \in Nat
      /\ peak \in Nat
  BY DEF WriterOK
<1>2. /\ Pending \in Seq(Nat) /\ Len(Pending) = Remaining /\ Remaining \in Nat
      /\ Remaining = Len(storage) - consumed
  BY PendingType DEF Remaining
<1>3. /\ peak' \in Nat
      /\ Remaining + Len(data) <= peak'
      /\ peak <= peak'
  BY <1>1, <1>2 DEF AppendToBuffer, Larger
<1>4. CASE Compacts
  <2>1. storage' = Pending \o data /\ consumed' = 0
    BY <1>4 DEF AppendToBuffer
  <2>2. /\ storage' \in Seq(Nat)
        /\ Len(storage') = Remaining + Len(data)
    BY <2>1, <1>2, Concatenation
  <2>3. Pending' = storage'
    <3>1. SubSeq(storage', 1, Len(storage')) = storage'
      BY <2>2, WholeSequence
    <3>2. consumed' + 1 = 1
      BY <2>1
    <3> QED BY <3>1, <3>2 DEF Pending
  <2>4. Remaining' = Remaining + Len(data)
    BY <2>1, <2>2, <1>1, <1>2 DEF Remaining
  <2>5. StorageBounded'
    BY <2>1, <2>2, <1>1, <1>2, <1>3 DEF StorageBounded, Larger
  <2> QED BY <2>1, <2>2, <2>3, <2>4, <2>5, <1>1, <1>2, <1>3
<1>5. CASE ~Compacts
  <2>1. storage' = storage \o data /\ consumed' = consumed
    BY <1>5 DEF AppendToBuffer
  <2>2. /\ storage' \in Seq(Nat)
        /\ Len(storage') = Len(storage) + Len(data)
    BY <2>1, <1>1, Concatenation
  <2>3. Pending' = Pending \o data
    BY <2>1, <1>1, SuffixOfAppend DEF Pending
  <2>4. Remaining' = Remaining + Len(data)
    BY <2>1, <2>2, <1>1, <1>2 DEF Remaining
  <2>5. StorageBounded'
    <3>1. consumed <= Larger(CompactionThreshold, peak')
      BY <1>5, <1>1, <1>2, <1>3 DEF Larger, Compacts
    <3>2. Larger(CompactionThreshold, peak') \in Nat
      BY <1>3 DEF Larger
    <3>3. Len(storage') <= peak' + consumed
      BY <2>2, <1>1, <1>2, <1>3
    <3>4. Len(storage') <= peak' + Larger(CompactionThreshold, peak')
      BY <3>1, <3>2, <3>3, <2>2, <1>1, <1>3
    <3> QED BY <3>4 DEF StorageBounded
  <2> QED BY <2>1, <2>2, <2>3, <2>4, <2>5, <1>1, <1>2, <1>3
<1> QED BY <1>4, <1>5

\* Every action keeps the invariant.
LEMMA WriterInvStep == WriterInv /\ [WriterNext]_writer_vars => WriterInv'
<1> SUFFICES ASSUME WriterInv, [WriterNext]_writer_vars PROVE WriterInv'
  OBVIOUS
<1> USE PtyWriterAssumption
<1>0. /\ WriterOK /\ NoLostWakeup /\ Remaining <= peak
      /\ StorageBounded
      /\ storage \in Seq(Nat) /\ consumed \in 0..Len(storage)
      /\ Len(storage) \in Nat /\ sent \in Nat /\ written \in Seq(Nat)
      /\ peak \in Nat /\ CompactionThreshold \in Nat
  BY DEF WriterInv, WriterOK
<1>1. CASE OpenPty
  <2>1. /\ phase' = "launching" /\ notifier' = FALSE
        /\ UNCHANGED <<storage, consumed, sent, written, failed, peak>>
    BY <1>1 DEF OpenPty
  <2>2. storage = <<>>
    BY <1>1 DEF OpenPty, WriterInv, HasPty
  <2>3. Len(storage) = 0 /\ IsEmpty'
    BY <1>0, <2>1, <2>2 DEF IsEmpty
  <2>4. WriterOK'
    BY <1>0, <2>1 DEF WriterOK
  <2>5. Remaining' <= peak' /\ StorageBounded'
    BY <1>0, <2>1 DEF Remaining, StorageBounded, Larger
  <2> QED BY <2>1, <2>2, <2>3, <2>4, <2>5 DEF WriterInv, NoLostWakeup
<1>2. CASE Started
  BY <1>0, <1>2 DEF Started, WriterInv, WriterOK, NoLostWakeup, StorageBounded,
                    IsEmpty, Remaining, HasPty
<1>3. ASSUME NEW n \in 1..MaxChunk, NEW k \in 0..MaxSent, QueuePtyWrite(n, k)
      PROVE  WriterInv'
  <2>0. /\ n \in Nat \ {0} /\ k \in Nat
        /\ HasPty /\ phase' = phase /\ sent' \in Nat
        /\ HasPty' /\ phase' \in {"none", "launching", "open", "closed"}
    BY <1>0, <1>3 DEF QueuePtyWrite, HasPty, WriterOK
  <2>1. /\ Bytes(n) \in Seq(Nat) /\ Len(Bytes(n)) = n
        /\ Pending \in Seq(Nat) /\ Len(Pending) = Remaining
        /\ Remaining \in Nat
    BY <1>0, <2>0, BytesType, PendingType
  <2>2. ASSUME k <= n, DirectWrite(n, k) PROVE WriterInv'
    <3>1. /\ IsEmpty
          /\ written' = written \o SubSeq(Bytes(n), 1, k)
      BY <2>2 DEF DirectWrite
    <3>2. written' \in Seq(Nat)
      <4>1. SubSeq(Bytes(n), 1, k) \in Seq(Nat)
        BY <2>0, <2>1, <2>2, Halves
      <4> QED BY <1>0, <3>1, <4>1, Concatenation
    <3>3. CASE UNCHANGED <<storage, consumed, peak>> /\ notifier' = FALSE
                  /\ failed' \in BOOLEAN
      BY <1>0, <2>0, <3>1, <3>2, <3>3
         DEF WriterInv, WriterOK, NoLostWakeup, StorageBounded, IsEmpty, Remaining
    <3>4. CASE /\ k < n /\ UNCHANGED failed /\ notifier' = TRUE
               /\ AppendToBuffer(SubSeq(Bytes(n), k + 1, n))
      <4>1. /\ SubSeq(Bytes(n), k + 1, n) \in Seq(Nat)
            /\ Len(SubSeq(Bytes(n), k + 1, n)) = n - k
        BY <2>0, <2>1, <2>2, Halves
      <4>2. /\ storage' \in Seq(Nat) /\ consumed' \in 0..Len(storage')
            /\ Remaining' = Remaining + (n - k)
            /\ peak' \in Nat /\ Remaining' <= peak'
            /\ StorageBounded'
        BY <1>0, <3>4, <4>1, AppendExtendsPending
      <4>3. ~IsEmpty'
        BY <2>0, <2>1, <3>4, <4>2 DEF IsEmpty, Remaining
      <4> QED BY <1>0, <2>0, <3>2, <3>4, <4>2, <4>3
              DEF WriterInv, WriterOK, NoLostWakeup
    <3> QED BY <1>0, <2>2, <3>3, <3>4 DEF DirectWrite, WriterOK
  <2>3. ASSUME BufferWrite(n) PROVE WriterInv'
    <3>1. /\ AppendToBuffer(Bytes(n)) /\ ~IsEmpty
          /\ UNCHANGED <<notifier, written, failed>>
      BY <2>3 DEF BufferWrite
    <3>2. /\ storage' \in Seq(Nat) /\ consumed' \in 0..Len(storage')
          /\ Remaining' = Remaining + n
          /\ peak' \in Nat /\ Remaining' <= peak'
          /\ StorageBounded'
      BY <1>0, <2>1, <3>1, AppendExtendsPending
    <3>3. ~IsEmpty'
      BY <2>0, <2>1, <3>2 DEF IsEmpty, Remaining
    <3> QED BY <1>0, <2>0, <3>1, <3>2, <3>3 DEF WriterInv, WriterOK, NoLostWakeup
  <2>4. ASSUME LegacyWrite(n, k) PROVE WriterInv'
    <3> DEFINE all == Pending \o Bytes(n)
    <3>1. /\ all \in Seq(Nat) /\ Len(all) = Remaining + n
      BY <2>1, Concatenation
    <3> HIDE DEF all
    <3>2. /\ k \in 0..Len(all)
          /\ written' = written \o SubSeq(all, 1, k)
          /\ peak' = Larger(peak, Len(all))
      BY <2>0, <2>4, <3>1 DEF LegacyWrite, all
    <3>3. written' \in Seq(Nat)
      BY <1>0, <3>1, <3>2, Halves, Concatenation
    <3>4. /\ peak' \in Nat /\ peak <= peak' /\ Remaining + n <= peak'
      BY <1>0, <2>0, <2>1, <3>1, <3>2 DEF Larger
    <3>5. CASE ClearBuffer /\ notifier' = FALSE /\ failed' \in BOOLEAN
      BY <2>0, <3>3, <3>4, <3>5, WriterInvOfCleared
    <3>6. CASE /\ k < Len(all)
               /\ storage' = IF Compacts THEN all ELSE storage \o Bytes(n)
               /\ consumed' = k + IF Compacts THEN 0 ELSE consumed
               /\ notifier' = TRUE
               /\ UNCHANGED failed
      <4>1. /\ storage' \in Seq(Nat)
            /\ Len(storage') - consumed' = Len(all) - k
            /\ consumed' \in 0..Len(storage')
        <5>1. CASE Compacts
          BY <5>1, <3>1, <3>2, <3>6, <2>0, <2>1
        <5>2. CASE ~Compacts
          <6>1. /\ storage' = storage \o Bytes(n) /\ consumed' = k + consumed
            BY <5>2, <3>6
          <6>2. /\ storage \o Bytes(n) \in Seq(Nat)
                /\ Len(storage \o Bytes(n)) = Len(storage) + n
            BY <1>0, <2>1, Concatenation
          <6>3. Len(all) = Len(storage) - consumed + n
            BY <3>1 DEF Remaining
          <6>4. /\ Len(storage') = Len(storage) + n
                /\ storage' \in Seq(Nat) /\ consumed' = k + consumed
            BY <6>1, <6>2
          <6> QED BY <1>0, <2>0, <3>2, <6>3, <6>4
        <5> QED BY <5>1, <5>2
      <4>2. Remaining' = Len(all) - k /\ ~IsEmpty' /\ Remaining' <= peak'
        <5>1. /\ Remaining' = Len(storage') - consumed'
              /\ IsEmpty' <=> consumed' = Len(storage')
          BY DEF Remaining, IsEmpty
        <5>2. Len(storage') \in Nat /\ Len(all) - k <= Remaining + n /\ k < Len(all)
          BY <2>0, <2>1, <3>1, <3>2, <3>6, <4>1
        <5> QED BY <2>0, <2>1, <3>1, <3>2, <3>4, <4>1, <5>1, <5>2
      <4>3. StorageBounded'
        <5>1. CASE Compacts
          <6>1. Len(storage') = Remaining + n
            BY <5>1, <3>1, <3>6
          <6>2. Larger(CompactionThreshold, peak') \in Nat
            BY <1>0, <3>4 DEF Larger
          <6> QED BY <6>1, <6>2, <2>0, <2>1, <3>4 DEF StorageBounded
        <5>2. CASE ~Compacts
          <6>1. Len(storage') = Len(storage) + n
            BY <5>2, <3>6, <1>0, <2>1, Concatenation
          <6>2. consumed <= Larger(CompactionThreshold, peak')
            BY <5>2, <1>0, <2>0, <2>1, <3>4 DEF Larger, Compacts
          <6>3. Larger(CompactionThreshold, peak') \in Nat
            BY <1>0, <3>4 DEF Larger
          <6>4. Len(storage') <= peak' + consumed
            BY <6>1, <1>0, <2>0, <3>4 DEF Remaining
          <6>5. Len(storage') \in Nat /\ peak' \in Nat /\ consumed \in Nat
            BY <1>0, <3>4, <4>1
          <6>6. Len(storage') <= peak' + Larger(CompactionThreshold, peak')
            BY ONLY <6>2, <6>3, <6>4, <6>5
          <6> QED BY <6>6 DEF StorageBounded
        <5> QED BY <5>1, <5>2
      <4> QED BY <2>0, <3>3, <3>4, <3>6, <4>1, <4>2, <4>3
              DEF WriterInv, WriterOK, NoLostWakeup
    <3> QED BY <1>0, <2>4, <3>5, <3>6 DEF LegacyWrite, all, WriterOK
  <2> QED BY <1>3, <2>2, <2>3, <2>4 DEF QueuePtyWrite
<1>4. ASSUME NEW k \in 0..MaxSent, WriterReady(k)
      PROVE  WriterInv'
  <2>1. /\ phase = "open" /\ phase' = phase /\ sent' = sent /\ peak' = peak
        /\ notifier /\ k \in 0..Remaining
        /\ written' = written \o SubSeq(Pending, 1, k)
    BY <1>0, <1>4, PendingType DEF WriterReady
  <2>2. /\ Pending \in Seq(Nat) /\ Len(Pending) = Remaining
        /\ Remaining \in Nat /\ ~IsEmpty
    BY <1>0, <2>1, PendingType DEF NoLostWakeup
  <2>3. written' \in Seq(Nat)
    BY <1>0, <2>1, <2>2, Halves, Concatenation
  <2>4. CASE ClearBuffer /\ notifier' = FALSE /\ failed' \in BOOLEAN
    BY <1>0, <2>1, <2>3, <2>4, WriterInvOfCleared
  <2>5. CASE Consume(k) /\ notifier' = (k < Remaining) /\ UNCHANGED failed
    <3>1. CASE consumed + k = Len(storage)
      <4>1. ~(k < Remaining)
        BY <3>1, <2>1, <1>0 DEF Remaining
      <4>2. ClearBuffer
        BY <3>1, <2>5 DEF Consume
      <4>3. (k < Remaining) = FALSE
        BY <4>1
      <4>4. notifier' = FALSE
        BY <2>5, <4>3
      <4> QED BY <4>2, <4>4, <2>4, <2>5, <1>0 DEF WriterOK
    <3>2. CASE consumed + k # Len(storage)
      <4>1. k < Remaining
        BY <3>2, <2>1, <1>0 DEF Remaining
      <4>2. consumed' = consumed + k /\ storage' = storage /\ notifier' = TRUE
        BY <3>2, <2>5, <4>1 DEF Consume
      <4>3. /\ consumed' \in 0..Len(storage') /\ ~IsEmpty'
            /\ Remaining' <= peak'
        BY <1>0, <2>1, <4>1, <4>2 DEF Remaining, IsEmpty
      <4>4. WriterOK'
        BY <1>0, <2>1, <2>3, <2>5, <4>2, <4>3 DEF WriterOK
      <4>5. StorageBounded' /\ HasPty'
        BY <1>0, <2>1, <4>2 DEF StorageBounded, Larger, HasPty
      <4> QED BY <4>2, <4>3, <4>4, <4>5 DEF WriterInv, NoLostWakeup
    <3> QED BY <3>1, <3>2
  <2> QED BY <1>0, <1>4, <2>4, <2>5 DEF WriterReady, WriterOK
<1>5. CASE CloseWriter
  <2>1. /\ phase' = "closed" /\ ClearBuffer /\ notifier' = FALSE
        /\ UNCHANGED <<sent, written, failed, peak>>
    BY <1>5 DEF CloseWriter
  <2> QED BY <1>0, <2>1, WriterInvOfCleared DEF WriterOK
<1>6. CASE UNCHANGED writer_vars
  BY <1>0, <1>6 DEF writer_vars, WriterInv, WriterOK, NoLostWakeup, StorageBounded,
                    IsEmpty, Remaining, HasPty
<1> QED BY <1>1, <1>2, <1>3, <1>4, <1>5, <1>6 DEF WriterNext, Step

\* Initially everything is empty.
LEMMA WriterInvInit == WriterInit => WriterInv
<1> SUFFICES ASSUME WriterInit PROVE WriterInv
  OBVIOUS
<1> USE PtyWriterAssumption
<1>1. /\ storage = <<>> /\ consumed = 0 /\ Len(storage) = 0 /\ peak = 0
      /\ notifier = FALSE /\ phase = "none" /\ sent = 0 /\ written = <<>>
      /\ failed = FALSE
  BY DEF WriterInit
<1>2. WriterOK
  <2>1. storage \in Seq(Nat) /\ written \in Seq(Nat)
    BY <1>1
  <2>2. consumed \in 0..Len(storage)
    BY <1>1
  <2> QED BY <1>1, <2>1, <2>2 DEF WriterOK
<1>3. IsEmpty /\ Remaining = 0
  BY <1>1 DEF IsEmpty, Remaining
<1>4. StorageBounded
  BY <1>1 DEF StorageBounded, Larger
<1> QED BY <1>1, <1>2, <1>3, <1>4 DEF WriterInv, NoLostWakeup

-----------------------------------------------------------------------------
(* The write path's own invariants *)

\* The inductive invariant holds in every reachable state.
THEOREM WriterInvariance == WriterSpec => []WriterInv
BY WriterInvInit, WriterInvStep, PTL DEF WriterSpec

\* The writer's variables keep their types.
LEMMA WriterTyped == WriterSpec => []WriterOK
<1>1. WriterInv => WriterOK
  BY DEF WriterInv
<1> QED BY <1>1, WriterInvariance, PTL

\* Type correctness, in both write modes: the mode never changes.
THEOREM WriterTypeCorrect == WriterSpec => []WriterTypeOK
<1> DEFINE ModeOK == directWrites \in BOOLEAN
<1>1. WriterInit => ModeOK
  BY DEF WriterInit
<1>2. ModeOK /\ [WriterNext]_writer_vars => ModeOK'
  BY DEF WriterNext, writer_vars
<1>3. ModeOK /\ WriterOK => WriterTypeOK
  BY DEF WriterTypeOK
<1> QED BY <1>1, <1>2, <1>3, WriterTyped, PTL DEF WriterSpec

\* Bytes wait in the buffer exactly while the write notifier is enabled: the
\* retry that queuePtyWrite leaves to the notifier always comes.
THEOREM WakeupNeverLost == WriterSpec => []NoLostWakeup
<1>1. WriterInv => NoLostWakeup
  BY DEF WriterInv
<1> QED BY <1>1, WriterInvariance, PTL

\* Stale prefixes never grow the buffer without bound.
THEOREM StorageStaysBounded == WriterSpec => []StorageBounded
<1>1. WriterInv => StorageBounded
  BY DEF WriterInv
<1> QED BY <1>1, WriterInvariance, PTL

-----------------------------------------------------------------------------
(* The write path implements the byte stream *)

\* A step that moves the pipe like Transfer or Break is such a step.
LEMMA PipeStep ==
    ASSUME WriterOK, HasPty, UNCHANGED phase,
           NEW n \in 0..MaxSent, NEW k \in 0..MaxSent, sent' = sent + n,
           written' = written \o SubSeq(Pending \o Bytes(n), 1, k),
           \/ /\ k <= Len(Pending \o Bytes(n))
              /\ Pending' = SubSeq(Pending \o Bytes(n), k + 1,
                                   Len(Pending \o Bytes(n)))
              /\ failed' = failed
           \/ /\ k < Len(Pending \o Bytes(n))
              /\ Pending' = <<>>
              /\ failed' = TRUE
    PROVE  Pipe!Next
<1>1. Pipe!Fresh(n) = Bytes(n)
  BY DEF Pipe!Fresh, Bytes
<1>2. (IF phase = "launching" THEN "open" ELSE phase) = "open"
  BY DEF HasPty
<1>3. (IF phase = "launching" THEN "open" ELSE phase)'
          = (IF phase = "launching" THEN "open" ELSE phase)
  OBVIOUS
<1>4. CASE /\ k <= Len(Pending \o Bytes(n))
           /\ Pending' = SubSeq(Pending \o Bytes(n), k + 1,
                                Len(Pending \o Bytes(n)))
           /\ failed' = failed
  <2>1. Pipe!Transfer(n, k)
    BY <1>1, <1>2, <1>3, <1>4 DEF Pipe!Transfer
  <2> QED BY <2>1 DEF Pipe!Next
<1>5. CASE /\ k < Len(Pending \o Bytes(n))
           /\ Pending' = <<>>
           /\ failed' = TRUE
  <2>1. Pipe!Break(n, k)
    BY <1>1, <1>2, <1>3, <1>5 DEF Pipe!Break
  <2> QED BY <2>1 DEF Pipe!Next
<1> QED BY <1>4, <1>5

\* queuePtyWrite moves the pipe.
LEMMA QueueRefines ==
    ASSUME WriterInv, NEW n \in 1..MaxChunk, NEW k \in 0..MaxSent,
           QueuePtyWrite(n, k)
    PROVE  Pipe!Next
<1> DEFINE all == Pending \o Bytes(n)
<1>0. /\ WriterOK /\ HasPty /\ UNCHANGED phase /\ sent' = sent + n
      /\ n \in 0..MaxSent /\ n \in Nat /\ k \in Nat /\ sent + n <= MaxSent
      /\ CompactionThreshold \in Nat /\ Remaining <= peak /\ 0 \in 0..MaxSent
  BY PtyWriterAssumption DEF WriterInv, QueuePtyWrite, WriterOK
<1>1. /\ Pending \in Seq(Nat) /\ Bytes(n) \in Seq(Nat) /\ Len(Bytes(n)) = n
      /\ all \in Seq(Nat) /\ Len(all) = Len(Pending) + n
      /\ Len(Pending) \in Nat /\ Len(Pending) = Remaining
      /\ IsEmpty <=> Pending = <<>>
  <2>1. /\ Pending \in Seq(Nat) /\ Len(Pending) = Remaining
        /\ Remaining \in Nat /\ (IsEmpty <=> Pending = <<>>)
    BY <1>0, PendingType
  <2>2. Bytes(n) \in Seq(Nat) /\ Len(Bytes(n)) = n
    BY <1>0, BytesType
  <2>3. all \in Seq(Nat) /\ Len(all) = Len(Pending) + Len(Bytes(n))
    BY <2>1, <2>2, Concatenation
  <2> HIDE DEF all
  <2> QED BY <2>1, <2>2, <2>3
<1>2. ASSUME k <= n, DirectWrite(n, k) PROVE Pipe!Next
  <2>1. IsEmpty /\ written' = written \o SubSeq(Bytes(n), 1, k)
    BY <1>2 DEF DirectWrite
  <2>2. all = Bytes(n)
    BY <1>1, <2>1, ConcatenationLaws
  <2>3. CASE k = n /\ UNCHANGED <<storage, consumed, failed, peak>>
    <3>1. Pending' = <<>>
      BY <1>1, <2>1, <2>3 DEF Pending
    <3>2. SubSeq(Bytes(n), k + 1, Len(Bytes(n))) = <<>>
      <4>1. /\ SubSeq(Bytes(n), k + 1, Len(Bytes(n))) \in Seq(Nat)
            /\ Len(SubSeq(Bytes(n), k + 1, Len(Bytes(n)))) = 0
        BY <1>0, <1>1, <2>3, Halves
      <4> QED BY <4>1
    <3>3. /\ written' = written \o SubSeq(all, 1, k)
          /\ k <= Len(all)
          /\ Pending' = SubSeq(all, k + 1, Len(all))
          /\ failed' = failed
      BY <1>0, <1>1, <2>1, <2>2, <2>3, <3>1, <3>2
    <3> QED BY <1>0, <3>3, PipeStep
  <2>4. CASE /\ k < n /\ UNCHANGED failed
             /\ AppendToBuffer(SubSeq(Bytes(n), k + 1, n))
    <3>1. SubSeq(Bytes(n), k + 1, n) \in Seq(Nat)
      BY <1>0, <1>1, <2>4, Halves
    <3>2. Pending' = Pending \o SubSeq(Bytes(n), k + 1, n)
      BY <1>0, <2>4, <3>1, AppendExtendsPending
    <3>3. Pending' = SubSeq(Bytes(n), k + 1, n)
      BY <1>1, <2>1, <3>1, <3>2, ConcatenationLaws
    <3>4. /\ written' = written \o SubSeq(all, 1, k)
          /\ k <= Len(all)
          /\ Pending' = SubSeq(all, k + 1, Len(all))
          /\ failed' = failed
      <4>1. Pending' = SubSeq(all, k + 1, Len(all)) /\ Len(all) = n
        BY <1>1, <2>2, <3>3
      <4>2. k <= Len(all)
        BY <1>0, <2>4, <4>1
      <4>3. failed' = failed
        BY <2>4
      <4>4. written' = written \o SubSeq(all, 1, k)
        BY <2>1, <2>2
      <4> QED BY <4>1, <4>2, <4>3, <4>4
    <3> QED BY <1>0, <3>4, PipeStep
  <2>5. CASE k < n /\ failed' = TRUE /\ UNCHANGED <<storage, consumed, peak>>
    <3>1. Pending' = <<>>
      BY <1>1, <2>1, <2>5 DEF Pending
    <3> QED BY <1>0, <1>1, <2>1, <2>2, <2>5, <3>1, PipeStep
  <2> QED BY <1>2, <2>3, <2>4, <2>5 DEF DirectWrite
<1>3. ASSUME k = 0, BufferWrite(n) PROVE Pipe!Next
  <2>1. /\ AppendToBuffer(Bytes(n)) /\ written' = written /\ failed' = failed
    BY <1>3 DEF BufferWrite
  <2>2. Pending' = all
    BY <1>0, <1>1, <2>1, AppendExtendsPending
  <2>3. SubSeq(all, k + 1, Len(all)) = all
    <3>1. all \in Seq(Nat) /\ k + 1 = 1
      BY <1>1, <1>3
    <3>2. SubSeq(all, 1, Len(all)) = all
      BY ONLY <3>1, WholeSequence
    <3> QED BY ONLY <3>1, <3>2
  <2>4. written' = written \o SubSeq(all, 1, k)
    <3>1. SubSeq(all, 1, k) \in Seq(Nat) /\ Len(SubSeq(all, 1, k)) = 0
      BY <1>1, <1>3, Halves
    <3>2. SubSeq(all, 1, k) = <<>>
      BY <3>1
    <3>3. written \in Seq(Nat)
      BY <1>0 DEF WriterOK
    <3> QED BY <2>1, <3>2, <3>3, ConcatenationLaws
  <2>5. k <= Len(all)
    BY <1>0, <1>1, <1>3
  <2> HIDE DEF all
  <2> QED BY <1>0, <2>1, <2>2, <2>3, <2>4, <2>5, PipeStep DEF all
<1>4. ASSUME LegacyWrite(n, k) PROVE Pipe!Next
  <2>1. k \in 0..Len(all) /\ written' = written \o SubSeq(all, 1, k)
    BY <1>0, <1>1, <1>4 DEF LegacyWrite
  <2>2. CASE k = Len(all) /\ ClearBuffer /\ UNCHANGED failed
    <3>1. Pending' = <<>>
      BY <2>2, ClearedBuffer
    <3>2. SubSeq(all, k + 1, Len(all)) = <<>>
      <4>1. /\ SubSeq(all, k + 1, Len(all)) \in Seq(Nat)
            /\ Len(SubSeq(all, k + 1, Len(all))) = 0
        BY <1>1, <2>1, <2>2, Halves
      <4> QED BY <4>1
    <3>3. /\ written' = written \o SubSeq(all, 1, k)
          /\ k <= Len(all)
          /\ Pending' = SubSeq(all, k + 1, Len(all))
          /\ failed' = failed
      <4>1. Pending' = SubSeq(all, k + 1, Len(all))
        BY <3>1, <3>2
      <4>2. k <= Len(all)
        BY <1>1, <2>2
      <4>3. failed' = failed
        BY <2>2
      <4> QED BY <2>1, <4>1, <4>2, <4>3
    <3> QED BY <1>0, <3>3, PipeStep
  <2>3. CASE /\ k < Len(all) /\ UNCHANGED failed
             /\ storage' = IF Compacts THEN all ELSE storage \o Bytes(n)
             /\ consumed' = k + IF Compacts THEN 0 ELSE consumed
    <3>1. Pending' = SubSeq(all, k + 1, Len(all))
      <4>1. CASE Compacts
        <5>1. storage' = all /\ consumed' = k
          BY <4>1, <2>3, <1>0
        <5> QED BY <5>1 DEF Pending
      <4>2. CASE ~Compacts
        <5>1. storage' = storage \o Bytes(n) /\ consumed' = k + consumed
          BY <4>2, <2>3
        <5>2. /\ storage \in Seq(Nat) /\ consumed \in 0..Len(storage)
              /\ storage \o Bytes(n) \in Seq(Nat)
              /\ Len(storage \o Bytes(n)) = Len(storage) + n
          <6>1. storage \in Seq(Nat) /\ consumed \in 0..Len(storage)
            BY <1>0 DEF WriterOK
          <6>2. Bytes(n) \in Seq(Nat) /\ Len(Bytes(n)) = n
            BY <1>1
          <6> QED BY <6>1, <6>2, Concatenation
        <5>3. all = SubSeq(storage \o Bytes(n), consumed + 1,
                           Len(storage \o Bytes(n)))
          BY <1>1, <5>2, SuffixOfAppend DEF Pending
        <5>4. /\ consumed \in 0..Len(storage \o Bytes(n))
              /\ k \in 0..(Len(storage \o Bytes(n)) - consumed)
          BY <1>0, <1>1, <2>1, <5>2 DEF Remaining
        <5>5. SubSeq(all, k + 1, Len(all))
                  = SubSeq(storage \o Bytes(n), consumed + k + 1,
                           Len(storage \o Bytes(n)))
          BY <5>2, <5>3, <5>4, SuffixOfSuffix
        <5>6. consumed' + 1 = consumed + k + 1
          BY <1>0, <5>1, <5>2
        <5> QED BY <5>1, <5>5, <5>6 DEF Pending
      <4> QED BY <4>1, <4>2
    <3>2. k <= Len(all) /\ failed' = failed
      BY <1>1, <2>1, <2>3
    <3> QED BY <1>0, <2>1, <3>1, <3>2, PipeStep
  <2>4. CASE k < Len(all) /\ ClearBuffer /\ failed' = TRUE
    <3>1. Pending' = <<>>
      BY <2>4, ClearedBuffer
    <3> QED BY <1>0, <2>1, <2>4, <3>1, PipeStep
  <2> QED BY <1>4, <2>2, <2>3, <2>4 DEF LegacyWrite
<1> QED BY <1>2, <1>3, <1>4 DEF QueuePtyWrite

\* A firing notifier moves the pipe without adding to it.
LEMMA WriterReadyRefines ==
    ASSUME WriterInv, NEW k \in 0..MaxSent, WriterReady(k)
    PROVE  Pipe!Next
<1>0. /\ WriterOK /\ HasPty /\ UNCHANGED phase /\ sent' = sent + 0
      /\ 0 \in 0..MaxSent /\ sent \in Nat
      /\ storage \in Seq(Nat) /\ consumed \in 0..Len(storage)
  BY PtyWriterAssumption DEF WriterInv, WriterReady, WriterOK, HasPty
<1>1. /\ Pending \in Seq(Nat) /\ Len(Pending) = Remaining /\ Remaining \in Nat
  BY <1>0, PendingType
<1>2. Pending \o Bytes(0) = Pending
  <2>1. Bytes(0) \in Seq(Nat) /\ Len(Bytes(0)) = 0
    BY <1>0, BytesType
  <2>2. Bytes(0) = <<>>
    BY <2>1
  <2> QED BY <1>1, <2>2, ConcatenationLaws
<1>3. k \in 0..Len(Pending) /\ written' = written \o SubSeq(Pending, 1, k)
  BY <1>1 DEF WriterReady
<1>4. CASE Consume(k) /\ UNCHANGED failed
  <2>1. Pending' = SubSeq(Pending, k + 1, Len(Pending))
    <3>1. CASE consumed + k = Len(storage)
      <4>1. Pending' = <<>>
        BY <3>1, <1>4, ClearedBuffer DEF Consume
      <4>2. k = Len(Pending)
        BY <3>1, <1>0, <1>1, <1>3 DEF Remaining
      <4>3. /\ SubSeq(Pending, k + 1, Len(Pending)) \in Seq(Nat)
            /\ Len(SubSeq(Pending, k + 1, Len(Pending))) = 0
        BY <1>1, <1>3, <4>2, Halves
      <4>4. SubSeq(Pending, k + 1, Len(Pending)) = <<>>
        BY <4>3
      <4> QED BY <4>1, <4>4
    <3>2. CASE consumed + k # Len(storage)
      <4>1. consumed' = consumed + k /\ storage' = storage
        BY <3>2, <1>4 DEF Consume
      <4>2. k \in 0..(Len(storage) - consumed)
        BY <1>0, <1>1, <1>3 DEF Remaining
      <4>3. SubSeq(Pending, k + 1, Len(Pending))
                = SubSeq(storage, consumed + k + 1, Len(storage))
        BY <1>0, <4>2, SuffixOfSuffix DEF Pending
      <4> QED BY <4>1, <4>3 DEF Pending
    <3> QED BY <3>1, <3>2
  <2>2. k <= Len(Pending \o Bytes(0)) /\ failed' = failed
    BY <1>1, <1>2, <1>3, <1>4
  <2> QED BY <1>0, <1>2, <1>3, <2>1, <2>2, PipeStep
<1>5. CASE k < Remaining /\ ClearBuffer /\ failed' = TRUE
  <2>1. Pending' = <<>>
    BY <1>5, ClearedBuffer
  <2> QED BY <1>0, <1>1, <1>2, <1>3, <1>5, <2>1, PipeStep
<1> QED BY <1>4, <1>5 DEF WriterReady

\* The non-blocking write path implements the byte stream: every step is one
\* of the stream's or leaves the stream alone.
THEOREM RefinesStream == WriterSpec => RefinesByteStream
<1>1. WriterInit => Pipe!Init
  <2> SUFFICES ASSUME WriterInit PROVE Pipe!Init
    OBVIOUS
  <2>1. WriterOK /\ IsEmpty
    BY WriterInvInit DEF WriterInv, WriterInit, IsEmpty
  <2>2. Pending = <<>>
    BY <2>1, PendingType
  <2> QED BY <2>2 DEF WriterInit, Pipe!Init
<1>2. WriterInv /\ [WriterNext]_writer_vars => [Pipe!Next]_(Pipe!vars)
  <2> SUFFICES ASSUME WriterInv, [WriterNext]_writer_vars PROVE [Pipe!Next]_(Pipe!vars)
    OBVIOUS
  <2>1. WriterOK /\ (~HasPty => storage = <<>>)
    BY DEF WriterInv
  <2>2. CASE OpenPty
    <3>1. /\ UNCHANGED <<sent, written, failed, Pending>>
          /\ phase = "none" /\ phase' = "launching"
      BY <2>2 DEF OpenPty, Pending
    <3>2. Pipe!Open
      BY <3>1 DEF Pipe!Open
    <3> QED BY <3>2 DEF Pipe!Next
  <2>3. CASE Started
    <3>1. /\ UNCHANGED <<sent, written, failed, Pending>>
          /\ phase = "launching" /\ phase' = "open"
      BY <2>3 DEF Started, Pending
    <3> QED BY <3>1 DEF Pipe!vars
  <2>4. CASE \E n \in 1..MaxChunk, k \in 0..MaxSent : QueuePtyWrite(n, k)
    BY <2>4, QueueRefines
  <2>5. CASE \E k \in 0..MaxSent : WriterReady(k)
    BY <2>5, WriterReadyRefines
  <2>6. CASE CloseWriter
    <3>1. /\ UNCHANGED <<sent, written, failed>> /\ Pending' = <<>>
          /\ phase' = "closed"
      BY <2>6, ClearedBuffer DEF CloseWriter
    <3>2. Pipe!Close
      BY <3>1 DEF Pipe!Close
    <3> QED BY <3>2 DEF Pipe!Next
  <2>7. CASE UNCHANGED writer_vars
    <3>1. UNCHANGED <<phase, sent, written, failed, Pending>>
      BY <2>7 DEF writer_vars, Pending
    <3> QED BY <3>1 DEF Pipe!vars
  <2> QED BY <2>2, <2>3, <2>4, <2>5, <2>6, <2>7 DEF WriterNext, Step
<1> QED BY <1>1, <1>2, WriterInvariance, PTL DEF WriterSpec, Pipe!Spec, RefinesByteStream

-----------------------------------------------------------------------------
(* Order and completeness of the stream *)

\* A strictly ascending sequence of numbers between 1 and m.
Ascending(s, m) ==
    /\ \A i, j \in 1..Len(s) : i < j => s[i] < s[j]
    /\ \A i \in 1..Len(s) : s[i] \in 1..m

\* A prefix of an ascending sequence ascends.
LEMMA AscendingPrefix ==
    ASSUME NEW s \in Seq(Nat), NEW t \in Seq(Nat), NEW m \in Nat,
           Ascending(s \o t, m)
    PROVE  Ascending(s, m)
<1>1. /\ Len(s \o t) = Len(s) + Len(t) /\ Len(s) \in Nat /\ Len(t) \in Nat
      /\ \A i \in 1..Len(s) : (s \o t)[i] = s[i]
  BY Concatenation
<1>2. \A i \in 1..Len(s) : i \in 1..Len(s \o t)
  BY <1>1
<1> QED BY <1>1, <1>2 DEF Ascending

\* Numbers above m keep an ascending sequence up to m ascending.
LEMMA AscendingExtension ==
    ASSUME NEW s \in Seq(Nat), NEW t \in Seq(Nat), NEW m \in Nat,
           Ascending(s, m), \A i \in 1..Len(t) : t[i] = m + i
    PROVE  Ascending(s \o t, m + Len(t))
<1> DEFINE u == s \o t
<1>1. /\ u \in Seq(Nat) /\ Len(u) = Len(s) + Len(t)
      /\ Len(s) \in Nat /\ Len(t) \in Nat
      /\ \A i \in 1..Len(s) : u[i] = s[i]
      /\ \A i \in 1..Len(t) : u[Len(s) + i] = t[i]
  BY Concatenation
<1> HIDE DEF u
<1>2. ASSUME NEW i \in 1..Len(u)
      PROVE  \/ i \in 1..Len(s) /\ u[i] = s[i]
             \/ i > Len(s) /\ i - Len(s) \in 1..Len(t) /\ u[i] = m + (i - Len(s))
  <2>1. CASE i <= Len(s)
    <3>1. i \in 1..Len(s)
      BY <1>1, <2>1
    <3> QED BY <1>1, <3>1
  <2>2. CASE i > Len(s)
    <3>1. i - Len(s) \in 1..Len(t) /\ Len(s) + (i - Len(s)) = i
      BY <1>1, <2>2
    <3>2. PICK d \in 1..Len(t) : d = i - Len(s) /\ Len(s) + d = i
      BY <3>1
    <3>3. u[Len(s) + d] = t[d] /\ t[d] = m + d
      BY <1>1
    <3> QED BY <2>2, <3>2, <3>3
  <2> QED BY <1>1, <2>1, <2>2
<1>3. ASSUME NEW i \in 1..Len(u) PROVE u[i] \in 1..(m + Len(t))
  <2>1. CASE i \in 1..Len(s) /\ u[i] = s[i]
    <3>1. s[i] \in 1..m
      BY <2>1 DEF Ascending
    <3>2. 1..m \subseteq 1..(m + Len(t))
      BY <1>1
    <3> QED BY <2>1, <3>1, <3>2
  <2>2. CASE /\ i > Len(s) /\ i - Len(s) \in 1..Len(t)
             /\ u[i] = m + (i - Len(s))
    BY <1>1, <2>2
  <2> QED BY <1>2, <2>1, <2>2
<1>4. ASSUME NEW i \in 1..Len(u), NEW j \in 1..Len(u), i < j
      PROVE  u[i] < u[j]
  <2>1. CASE i \in 1..Len(s) /\ j \in 1..Len(s)
    BY <1>1, <1>4, <2>1 DEF Ascending
  <2>2. CASE i \in 1..Len(s) /\ j > Len(s)
    <3>1. u[i] = s[i] /\ s[i] \in 1..m
      BY <1>1, <2>2 DEF Ascending
    <3>2. u[j] = m + (j - Len(s)) /\ j - Len(s) \in 1..Len(t)
      <4>1. j \notin 1..Len(s)
        BY <1>1, <2>2
      <4> QED BY ONLY <1>2, <4>1, j \in 1..Len(u)
    <3> QED BY <1>1, <3>1, <3>2
  <2>3. CASE i > Len(s)
    <3>1. u[i] = m + (i - Len(s)) /\ u[j] = m + (j - Len(s))
      <4>1. i \notin 1..Len(s) /\ j \notin 1..Len(s)
        BY <1>1, <1>4, <2>3
      <4> QED BY ONLY <1>2, <4>1, i \in 1..Len(u), j \in 1..Len(u)
    <3> QED BY <1>1, <1>4, <3>1
  <2>4. \/ i \in 1..Len(s) /\ j \in 1..Len(s)
        \/ i \in 1..Len(s) /\ j > Len(s)
        \/ i > Len(s)
    <3>1. Len(s) \in Nat /\ i \in Nat /\ i >= 1 /\ j \in Nat /\ j >= 1
      BY <1>1
    <3> QED BY <3>1
  <2> QED BY <2>1, <2>2, <2>3, <2>4
<1> QED BY <1>3, <1>4 DEF Ascending, u

\* The stream invariant: InOrder and Gapless, the latter strengthened to hold
\* in every phase but "closed".
StreamInv ==
    /\ written \in Seq(Nat) /\ Pending \in Seq(Nat) /\ sent \in Nat
    /\ Ascending(written \o Pending, sent)
    /\ ~failed => /\ \A i \in 1..Len(written \o Pending) :
                          (written \o Pending)[i] = i
                  /\ phase # "closed" => Len(written \o Pending) = sent

\* A stream that grows by the next n numbers keeps the stream invariant.
LEMMA StreamGrows ==
    ASSUME StreamInv, NEW n \in Nat, sent' = sent + n,
           written' \in Seq(Nat), Pending' \in Seq(Nat),
           failed' = failed, phase # "closed",
           (written \o Pending)' = (written \o Pending) \o Bytes(n)
    PROVE  StreamInv'
<1> DEFINE s == written \o Pending
           t == Bytes(n)
<1>1. /\ s \in Seq(Nat) /\ t \in Seq(Nat) /\ Len(t) = n /\ sent \in Nat
      /\ \A i \in 1..Len(t) : t[i] = sent + i
      /\ Ascending(s, sent)
  <2>1. sent \in Nat /\ written \in Seq(Nat) /\ Pending \in Seq(Nat)
    BY DEF StreamInv
  <2>2. s \in Seq(Nat)
    BY <2>1, Concatenation
  <2> QED BY <2>1, <2>2 DEF StreamInv, Bytes
<1>2. Ascending(s \o t, sent + n)
  BY <1>1, AscendingExtension
<1>3. ASSUME ~failed
      PROVE  /\ Len(s \o t) = sent + n
             /\ \A i \in 1..Len(s \o t) : (s \o t)[i] = i
  <2>1. Len(s) = sent /\ \A i \in 1..Len(s) : s[i] = i
    BY <1>3 DEF StreamInv
  <2> HIDE DEF s, t
  <2>1a. /\ Len(s \o t) = Len(s) + Len(t)
         /\ \A i \in 1..Len(s) : (s \o t)[i] = s[i]
         /\ \A i \in 1..Len(t) : (s \o t)[Len(s) + i] = t[i]
    <3>1. s \in Seq(Nat) /\ t \in Seq(Nat)
      BY <1>1
    <3> QED BY ONLY <3>1, Concatenation
  <2>2. Len(s \o t) = sent + n
    <3>1. Len(s) = sent /\ Len(t) = n
      BY <1>1, <2>1
    <3> QED BY <2>1a, <3>1
  <2>3. ASSUME NEW i \in 1..Len(s \o t) PROVE (s \o t)[i] = i
    <3>1. CASE i <= sent
      BY <1>1, <2>1, <2>1a, <3>1
    <3>2. CASE i > sent
      <4>1. i - sent \in 1..Len(t) /\ sent + (i - sent) = i
        BY <1>1, <2>2, <3>2
      <4>2. PICK d \in 1..Len(t) : sent + d = i
        BY <4>1
      <4>3. (s \o t)[Len(s) + d] = t[d] /\ t[d] = sent + d
        BY <1>1, <2>1a
      <4> QED BY <2>1, <4>2, <4>3
    <3>3. sent \in Nat /\ i \in Int
      BY <1>1
    <3> QED BY <3>1, <3>2, <3>3
  <2> QED BY <2>2, <2>3
<1>4. sent' \in Nat
  BY <1>1
<1>5. (written \o Pending)' = s \o t
  OBVIOUS
<1> HIDE DEF s, t
<1> QED BY <1>2, <1>3, <1>4, <1>5 DEF StreamInv

\* A stream that loses its tail keeps the stream invariant.
LEMMA StreamTruncated ==
    ASSUME StreamInv, NEW n \in Nat, NEW rest \in Seq(Nat), sent' = sent + n,
           written' \in Seq(Nat), Pending' = <<>>,
           written' \o rest = (written \o Pending) \o Bytes(n),
           \/ failed' = TRUE
           \/ n = 0 /\ failed' = failed /\ phase' = "closed"
    PROVE  StreamInv'
<1>1. /\ written \in Seq(Nat) /\ Pending \in Seq(Nat) /\ sent \in Nat
      /\ Ascending(written \o Pending, sent)
      /\ written \o Pending \in Seq(Nat)
      /\ Bytes(n) \in Seq(Nat) /\ Len(Bytes(n)) = n
      /\ \A i \in 1..n : Bytes(n)[i] = sent + i
  <2>1. written \in Seq(Nat) /\ Pending \in Seq(Nat) /\ sent \in Nat
    BY DEF StreamInv
  <2>2. written \o Pending \in Seq(Nat)
    BY <2>1, Concatenation
  <2> QED BY <2>1, <2>2 DEF StreamInv, Bytes
<1>2. Ascending(written' \o rest, sent + n)
  BY <1>1, AscendingExtension
<1>3. Ascending(written', sent')
  <2>1. sent + n \in Nat
    BY <1>1
  <2>2. Ascending(written', sent + n)
    BY <1>2, <2>1, AscendingPrefix
  <2> QED BY <2>2
<1>4. written' \o Pending' = written' /\ Pending' \in Seq(Nat)
  BY ConcatenationLaws
<1>5. CASE failed' = TRUE
  BY <1>1, <1>3, <1>4, <1>5 DEF StreamInv
<1>6. CASE n = 0 /\ failed' = failed /\ phase' = "closed"
  <2>1. Bytes(n) = <<>>
    BY <1>1, <1>6
  <2>2. written' \o rest = written \o Pending
    BY <1>1, <2>1, ConcatenationLaws
  <2>3. ASSUME ~failed PROVE \A i \in 1..Len(written') : written'[i] = i
    <3>1. /\ Len(written' \o rest) = Len(written') + Len(rest)
          /\ Len(written') \in Nat /\ Len(rest) \in Nat
          /\ \A i \in 1..Len(written') : (written' \o rest)[i] = written'[i]
        <4>1. written' \in Seq(Nat) /\ rest \in Seq(Nat)
          OBVIOUS
        <4> QED BY ONLY <4>1, Concatenation
    <3>2. \A i \in 1..Len(written' \o rest) : (written' \o rest)[i] = i
      BY <2>2, <2>3 DEF StreamInv
    <3>3. ASSUME NEW i \in 1..Len(written') PROVE written'[i] = i
      <4>1. i \in 1..Len(written' \o rest)
        BY <3>1
      <4> QED BY <3>1, <3>2, <4>1
    <3> QED BY <3>3
  <2> QED BY <1>1, <1>3, <1>4, <1>6, <2>3 DEF StreamInv
<1> QED BY <1>5, <1>6

\* Concatenation of byte sequences is associative.
LEMMA Regrouping ==
    ASSUME NEW x \in Seq(Nat), NEW y \in Seq(Nat), NEW z \in Seq(Nat)
    PROVE  (x \o y) \o z = x \o (y \o z)
OBVIOUS

\* Every step of the byte stream keeps the stream invariant.
LEMMA StreamStep ==
    ASSUME StreamInv, [Pipe!Next]_(Pipe!vars), WriterOK'
    PROVE  StreamInv'
<1>1. /\ written \in Seq(Nat) /\ Pending \in Seq(Nat) /\ sent \in Nat
      /\ written' \in Seq(Nat)
  BY DEF StreamInv, WriterOK
<1>2. ASSUME NEW n \in 0..MaxSent, NEW k \in 0..MaxSent,
             Pipe!Transfer(n, k) \/ Pipe!Break(n, k)
      PROVE  StreamInv'
  <2> DEFINE all == Pending \o Bytes(n)
  <2>1. /\ n \in Nat /\ Bytes(n) \in Seq(Nat) /\ all \in Seq(Nat)
        /\ Pipe!Fresh(n) = Bytes(n)
    <3>1. Bytes(n) \in Seq(Nat)
      BY <1>1 DEF Bytes
    <3> QED BY <1>1, <3>1, Concatenation DEF Pipe!Fresh, Bytes
  <2>2. /\ k \in 0..Len(all) /\ sent' = sent + n
        /\ written' = written \o SubSeq(all, 1, k)
        /\ phase # "closed"
    <3>1. CASE Pipe!Transfer(n, k)
      <4>1. /\ k <= Len(all) /\ sent' = sent + n
            /\ written' = written \o SubSeq(all, 1, k)
            /\ (IF phase = "launching" THEN "open" ELSE phase) = "open"
        BY <2>1, <3>1 DEF Pipe!Transfer
      <4>2. k \in Nat
        OBVIOUS
      <4> QED BY <2>1, <4>1, <4>2
    <3>2. CASE Pipe!Break(n, k)
      <4>1. /\ k < Len(all) /\ sent' = sent + n
            /\ written' = written \o SubSeq(all, 1, k)
            /\ (IF phase = "launching" THEN "open" ELSE phase) = "open"
        BY <2>1, <3>2 DEF Pipe!Break
      <4>2. k \in Nat
        OBVIOUS
      <4> QED BY <2>1, <4>1, <4>2
    <3> QED BY <1>2, <3>1, <3>2
  <2>3. /\ SubSeq(all, 1, k) \in Seq(Nat)
        /\ SubSeq(all, k + 1, Len(all)) \in Seq(Nat)
        /\ SubSeq(all, 1, k) \o SubSeq(all, k + 1, Len(all)) = all
    BY <2>1, <2>2, Halves, CutAndJoin
  <2>4. written' \o SubSeq(all, k + 1, Len(all))
            = (written \o Pending) \o Bytes(n)
    <3> DEFINE a == SubSeq(all, 1, k)
               b == SubSeq(all, k + 1, Len(all))
    <3>1. (written \o a) \o b = (written \o Pending) \o Bytes(n)
      <4>1. a \in Seq(Nat) /\ b \in Seq(Nat) /\ a \o b = Pending \o Bytes(n)
        BY <2>3
      <4>2. Bytes(n) \in Seq(Nat)
        BY <2>1
      <4> HIDE DEF a, b
      <4>3. (written \o a) \o b = written \o (a \o b)
        <5>1. written \in Seq(Nat)
          BY <1>1
        <5> QED BY ONLY <4>1, <5>1, Regrouping
      <4>4. (written \o Pending) \o Bytes(n) = written \o (Pending \o Bytes(n))
        <5>1. written \in Seq(Nat) /\ Pending \in Seq(Nat)
          BY <1>1
        <5> QED BY ONLY <4>2, <5>1, Regrouping
      <4> QED BY ONLY <4>1, <4>3, <4>4
    <3> QED BY <2>2, <3>1
  <2>5. CASE Pipe!Transfer(n, k)
    <3>1. /\ Pending' = SubSeq(all, k + 1, Len(all)) /\ failed' = failed
          /\ (IF phase = "launching" THEN "open" ELSE phase)'
                 = (IF phase = "launching" THEN "open" ELSE phase)
      BY <2>1, <2>5 DEF Pipe!Transfer
    <3>2. (written \o Pending)' = (written \o Pending) \o Bytes(n)
      BY <2>4, <3>1
    <3> QED BY <1>1, <2>1, <2>2, <2>3, <3>1, <3>2, StreamGrows
  <2>6. CASE Pipe!Break(n, k)
    <3>1. Pending' = <<>> /\ failed' = TRUE
      BY <2>6 DEF Pipe!Break
    <3> QED BY <1>1, <2>1, <2>2, <2>3, <2>4, <3>1, StreamTruncated
  <2> QED BY <1>2, <2>5, <2>6
<1>3. CASE Pipe!Open
  <2>1. /\ phase = "none" /\ UNCHANGED <<sent, written, failed, Pending>>
    BY <1>3 DEF Pipe!Open
  <2> QED BY <1>1, <2>1 DEF StreamInv
<1>4. CASE Pipe!Close
  <2>1. /\ (IF phase = "launching" THEN "open" ELSE phase)' = "closed"
        /\ UNCHANGED <<sent, written, failed>> /\ Pending' = <<>>
    BY <1>4 DEF Pipe!Close
  <2>2. phase' = "closed"
    BY <2>1
  <2>3. /\ Bytes(0) = <<>> /\ written \o Pending \in Seq(Nat)
        /\ (written \o Pending) \o Bytes(0) = written \o Pending
    <3>1. Bytes(0) \in Seq(Nat) /\ Len(Bytes(0)) = 0
      BY <1>1 DEF Bytes
    <3>2. Bytes(0) = <<>>
      BY <3>1
    <3>3. written \o Pending \in Seq(Nat)
      BY <1>1, Concatenation
    <3> QED BY <3>2, <3>3, ConcatenationLaws
  <2>4. sent' = sent + 0 /\ 0 \in Nat
    BY <1>1, <2>1
  <2> QED BY <1>1, <2>1, <2>2, <2>3, <2>4, StreamTruncated
<1>5. CASE UNCHANGED Pipe!vars
  <2>1. /\ UNCHANGED <<sent, written, failed, Pending>>
        /\ (IF phase = "launching" THEN "open" ELSE phase)'
               = (IF phase = "launching" THEN "open" ELSE phase)
    BY <1>5 DEF Pipe!vars
  <2>2. phase' # "closed" => phase # "closed"
    BY <2>1
  <2> QED BY <1>1, <2>1, <2>2 DEF StreamInv
<1> QED BY <1>2, <1>3, <1>4, <1>5 DEF Pipe!Next

\* The stream invariant holds in every reachable state.
LEMMA StreamInvariance == WriterSpec => []StreamInv
<1>1. WriterInit => StreamInv
  <2> SUFFICES ASSUME WriterInit PROVE StreamInv
    OBVIOUS
  <2>1. /\ written = <<>> /\ sent = 0 /\ IsEmpty /\ WriterOK
    BY WriterInvInit DEF WriterInv, WriterInit, IsEmpty
  <2>2. Pending = <<>>
    BY <2>1, PendingType
  <2>3. /\ written \o Pending = <<>> /\ Len(written \o Pending) = 0
        /\ written \in Seq(Nat) /\ Pending \in Seq(Nat)
    BY <2>1, <2>2
  <2> QED BY <2>1, <2>3 DEF StreamInv, Ascending
<1>2. WriterInv' => WriterOK'
  BY DEF WriterInv
<1>3. WriterOK' /\ StreamInv /\ [Pipe!Next]_(Pipe!vars) => StreamInv'
  BY StreamStep
<1>4. Pipe!Spec => [][Pipe!Next]_(Pipe!vars)
  BY PTL DEF Pipe!Spec
<1>5. WriterInv => WriterOK
  BY DEF WriterInv
<1> QED BY <1>1, <1>3, <1>4, WriterTyped, RefinesStream, PTL DEF WriterSpec, RefinesByteStream

\* No byte is reordered, repeated or invented, whatever the kernel accepts,
\* however often the writer is backpressured or fails.
THEOREM StreamInOrder == WriterSpec => []InOrder
<1>1. StreamInv => InOrder
  <2> SUFFICES ASSUME StreamInv PROVE InOrder
    OBVIOUS
  <2>1. written \o Pending \in Seq(Nat)
    BY Concatenation DEF StreamInv
  <2>2. DOMAIN (written \o Pending) = 1..Len(written \o Pending)
    BY <2>1
  <2> QED BY <2>2 DEF StreamInv, Ascending, InOrder, Pipe!InOrder, Pipe!Stream
<1> QED BY <1>1, StreamInvariance, PTL

\* Until a hard error or the close, nothing submitted is missing.
THEOREM StreamGapless == WriterSpec => []Gapless
<1>1. StreamInv => Gapless
  <2> SUFFICES ASSUME StreamInv PROVE Gapless
    OBVIOUS
  <2>1. written \o Pending \in Seq(Nat)
    BY Concatenation DEF StreamInv
  <2>2. DOMAIN (written \o Pending) = 1..Len(written \o Pending)
    BY <2>1
  <2> QED BY <2>2 DEF StreamInv, Gapless, Pipe!Gapless, Pipe!Stream
<1> QED BY <1>1, StreamInvariance, PTL
=============================================================================
