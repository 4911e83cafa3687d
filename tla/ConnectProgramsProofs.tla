------------------------ MODULE ConnectProgramsProofs ------------------------
(***************************************************************************)
(* The programs of a connect, for any number of attempts, printed lines    *)
(* and connects that set up the same target, and any size of the events    *)
(* channel: never two kubectl processes at the local port, no announced    *)
(* tunnel given up before the deadline, and what the preflight and the     *)
(* remote set-up promise.                                                  *)
(*                                                                         *)
(* ChildInv says in which states of the preflight there is a child;        *)
(* OutputInv follows a ready line through pipe, buffer and channel, back   *)
(* to the process that has printed it.  StartInv is the inductive          *)
(* invariant of the attempts.  The invariant of the composition adds that  *)
(* they begin only when the preflight is over.                             *)
(***************************************************************************)
EXTENDS ConnectPrograms, RemoteSetupProofs, SequenceTheorems, TLAPS

-----------------------------------------------------------------------------
(* The preflight. *)

Event == [stream : Streams, line : Text \cup {"error"}]

HasReady(lines) == \E i \in DOMAIN lines : lines[i] = "forwarding"

ReadyEvent(s) ==
    \E i \in DOMAIN events : events[i].stream = s /\ events[i].line = "forwarding"

ChildInv ==
    /\ step \in {"version", "rbac"} => main = "call" /\ ~waitCh /\ result = "none"
    /\ step = "probe" => /\ answer = "yes" /\ result \in {"none", "error"}
                         /\ main = "call" <=> kubectl = "none"
    /\ waitCh => kubectl \in Exits
    /\ step = "returned" => kubectl # "up"
    /\ step = "over" => kubectl = "none" /\ result = "none"

OutputInv ==
    /\ \A s \in Streams :
          HasReady(pipe[s]) \/ HasReady(buffer[s]) \/ ReadyEvent(s) \/ s \in seen
          => HasReady(printed[s])
    /\ result = "valid" => "stdout" \in seen /\ answer = "yes"

PreflightInv == TypeOK /\ ChildInv /\ OutputInv

-----------------------------------------------------------------------------
(* Lines and events. *)

LEMMA ReadyAppend ==
    ASSUME NEW lines \in Seq(Text), NEW said \in Text
    PROVE  /\ Append(lines, said) \in Seq(Text)
           /\ HasReady(Append(lines, said)) <=> HasReady(lines) \/ said = "forwarding"
<1>1. Append(lines, said) \in Seq(Text) OBVIOUS
<1>2. ASSUME HasReady(Append(lines, said)) PROVE HasReady(lines) \/ said = "forwarding"
  BY <1>2 DEF HasReady
<1>3. ASSUME HasReady(lines) PROVE HasReady(Append(lines, said))
  <2>1. PICK i \in DOMAIN lines : lines[i] = "forwarding" BY <1>3 DEF HasReady
  <2>2. i \in DOMAIN Append(lines, said) /\ Append(lines, said)[i] = lines[i] BY <2>1
  <2>. QED BY <2>1, <2>2 DEF HasReady
<1>4. ASSUME said = "forwarding" PROVE HasReady(Append(lines, said))
  <2>1. /\ Len(lines) + 1 \in DOMAIN Append(lines, said)
        /\ Append(lines, said)[Len(lines) + 1] = said
    OBVIOUS
  <2>. QED BY <1>4, <2>1 DEF HasReady
<1>. QED BY <1>1, <1>2, <1>3, <1>4

LEMMA ReadyTail ==
    ASSUME NEW lines \in Seq(Text), lines # <<>>
    PROVE  /\ Head(lines) \in Text /\ Tail(lines) \in Seq(Text)
           /\ HasReady(Tail(lines)) => HasReady(lines)
           /\ Head(lines) = "forwarding" => HasReady(lines)
<1>1. Head(lines) \in Text /\ Tail(lines) \in Seq(Text) OBVIOUS
<1>2. ASSUME HasReady(Tail(lines)) PROVE HasReady(lines)
  <2>1. PICK i \in DOMAIN Tail(lines) : Tail(lines)[i] = "forwarding"
    BY <1>2 DEF HasReady
  <2>2. i + 1 \in DOMAIN lines /\ lines[i + 1] = "forwarding" BY <2>1
  <2>. QED BY <2>2 DEF HasReady
<1>3. ASSUME Head(lines) = "forwarding" PROVE HasReady(lines)
  <2>1. 1 \in DOMAIN lines /\ lines[1] = "forwarding" BY <1>3
  <2>. QED BY <2>1 DEF HasReady
<1>. QED BY <1>1, <1>2, <1>3

LEMMA EmptyNotReady == HasReady(<<>>) = FALSE
BY DEF HasReady

\* What is left in the channel was in it, and so was the event taken out.
LEMMA EventTail ==
    ASSUME events \in Seq(Event), events # <<>>, events' = Tail(events)
    PROVE  /\ Head(events) \in Event /\ events' \in Seq(Event)
           /\ \A s \in Streams : ReadyEvent(s)' => ReadyEvent(s)
           /\ Head(events).line = "forwarding" => ReadyEvent(Head(events).stream)
<1>1. Head(events) \in Event /\ events' \in Seq(Event) OBVIOUS
<1>2. ASSUME NEW s \in Streams, ReadyEvent(s)' PROVE ReadyEvent(s)
  <2>1. PICK i \in DOMAIN events' : events'[i].stream = s /\ events'[i].line = "forwarding"
    BY <1>2 DEF ReadyEvent
  <2>2. i + 1 \in DOMAIN events /\ events[i + 1] = events'[i] BY <2>1
  <2>. QED BY <2>1, <2>2 DEF ReadyEvent
<1>3. ASSUME Head(events).line = "forwarding" PROVE ReadyEvent(Head(events).stream)
  <2>1. 1 \in DOMAIN events /\ events[1] = Head(events) OBVIOUS
  <2>. QED BY <1>3, <2>1 DEF ReadyEvent
<1>. QED BY <1>1, <1>2, <1>3

LEMMA EventAppend ==
    ASSUME events \in Seq(Event), NEW e \in Event, events' = Append(events, e)
    PROVE  /\ events' \in Seq(Event)
           /\ \A s \in Streams : ReadyEvent(s)' =>
                 ReadyEvent(s) \/ (e.stream = s /\ e.line = "forwarding")
<1>1. events' \in Seq(Event) OBVIOUS
<1>2. ASSUME NEW s \in Streams, ReadyEvent(s)'
      PROVE  ReadyEvent(s) \/ (e.stream = s /\ e.line = "forwarding")
  <2>1. PICK i \in DOMAIN events' : events'[i].stream = s /\ events'[i].line = "forwarding"
    BY <1>2 DEF ReadyEvent
  <2>2. CASE i = Len(events) + 1
    <3>1. events'[i] = e BY <2>2
    <3>. QED BY <2>1, <3>1
  <2>3. CASE i # Len(events) + 1
    <3>1. i \in DOMAIN events /\ events'[i] = events[i] BY <2>1, <2>3
    <3>. QED BY <2>1, <3>1 DEF ReadyEvent
  <2>. QED BY <2>2, <2>3
<1>. QED BY <1>1, <1>2

-----------------------------------------------------------------------------
(* The invariant. *)

LEMMA InitPreflightInv == Init => PreflightInv
<1>. SUFFICES ASSUME Init PROVE PreflightInv OBVIOUS
<1>. USE DEF Init, NoChild
<1>0. <<>> \in Seq(Text) /\ <<>> \in Seq(Event) OBVIOUS
<1>1. TypeOK BY <1>0 DEF TypeOK, Event
<1>2. ChildInv BY DEF ChildInv
<1>3. OutputInv BY DEF OutputInv, HasReady, ReadyEvent, Streams
<1>. QED BY <1>1, <1>2, <1>3 DEF PreflightInv

\* A step that leaves the output alone keeps OutputInv, unless it succeeds.
LEMMA OutputUntouched ==
    ASSUME OutputInv,
           UNCHANGED <<pipe, printed, buffer, events, seen>>,
           result' = "valid" => "stdout" \in seen /\ answer' = "yes"
    PROVE  OutputInv'
BY DEF OutputInv, HasReady, ReadyEvent

LEMMA RunPreflightInv == PreflightInv /\ (StartRun \/ RunReturns) => PreflightInv'
<1>. SUFFICES ASSUME PreflightInv, StartRun \/ RunReturns PROVE PreflightInv' OBVIOUS
<1>. USE DEF PreflightInv, Return
<1>1. CASE StartRun
  <2>1. TypeOK' BY <1>1 DEF TypeOK, StartRun, childVars
  <2>2. ChildInv' BY <1>1 DEF TypeOK, ChildInv, StartRun, childVars, Exits
  <2>3. OutputInv' BY <1>1, OutputUntouched DEF ChildInv, StartRun, childVars
  <2>. QED BY <2>1, <2>2, <2>3
<1>2. CASE RunReturns
  <2>1. /\ step \in {"version", "rbac"} /\ kubectl \in Exits /\ kubectl' = "none"
        /\ step' \in {"rbac", "probe", "returned"}
        /\ result' \in {"error", "denied", result}
        /\ step' \in {"rbac", "probe"} => result' = result
        /\ step' = "probe" => answer = "yes"
        /\ UNCHANGED <<main, answer, expired, childVars>>
    BY <1>2 DEF RunReturns
  <2>2. TypeOK' BY <2>1 DEF TypeOK, childVars
  <2>3. ChildInv' BY <2>1 DEF TypeOK, ChildInv, childVars, Exits
  <2>4. OutputInv' BY <2>1, OutputUntouched DEF ChildInv, childVars
  <2>. QED BY <2>2, <2>3, <2>4
<1>. QED BY <1>1, <1>2

LEMMA ProbePreflightInv ==
    PreflightInv /\ (StartProbe \/ SelectExit \/ SelectDone \/ StopReturns \/ WaitDelivers)
    => PreflightInv'
<1>. SUFFICES ASSUME PreflightInv,
                     StartProbe \/ SelectExit \/ SelectDone \/ StopReturns \/ WaitDelivers
              PROVE  PreflightInv'
  OBVIOUS
<1>. USE DEF PreflightInv, Return
<1>1. CASE StartProbe
  <2>1. TypeOK' BY <1>1 DEF TypeOK, StartProbe, childVars
  <2>2. ChildInv' BY <1>1 DEF TypeOK, ChildInv, StartProbe, childVars, Exits
  <2>3. OutputInv' BY <1>1, OutputUntouched DEF ChildInv, StartProbe, childVars
  <2>. QED BY <2>1, <2>2, <2>3
<1>2. CASE SelectExit
  <2>1. TypeOK' BY <1>2 DEF TypeOK, SelectExit, ProbeOutcome, childVars
  <2>2. ChildInv' BY <1>2 DEF TypeOK, ChildInv, SelectExit, childVars, Exits
  <2>3. OutputInv'
    BY <1>2, OutputUntouched DEF ChildInv, SelectExit, ProbeOutcome, childVars
  <2>. QED BY <2>1, <2>2, <2>3
<1>3. CASE SelectDone
  <2>1. TypeOK' BY <1>3 DEF TypeOK, SelectDone, childVars, Exits
  <2>2. ChildInv' BY <1>3 DEF TypeOK, ChildInv, SelectDone, childVars, Exits
  <2>3. OutputInv' BY <1>3, OutputUntouched DEF SelectDone, childVars
  <2>. QED BY <2>1, <2>2, <2>3
<1>4. CASE StopReturns
  <2>1. TypeOK' BY <1>4 DEF TypeOK, StopReturns, ProbeOutcome, childVars
  <2>2. ChildInv' BY <1>4 DEF TypeOK, ChildInv, StopReturns, childVars, Exits
  <2>3. OutputInv'
    BY <1>4, OutputUntouched DEF ChildInv, StopReturns, ProbeOutcome, childVars
  <2>. QED BY <2>1, <2>2, <2>3
<1>5. CASE WaitDelivers
  <2>1. TypeOK' BY <1>5 DEF TypeOK, WaitDelivers
  <2>2. ChildInv' BY <1>5 DEF TypeOK, ChildInv, WaitDelivers, Exits
  <2>3. OutputInv' BY <1>5, OutputUntouched DEF OutputInv, WaitDelivers
  <2>. QED BY <2>1, <2>2, <2>3
<1>. QED BY <1>1, <1>2, <1>3, <1>4, <1>5

\* A ready line is collected from the channel.
LEMMA EventPreflightInv == PreflightInv /\ SelectEvent => PreflightInv'
<1>. SUFFICES ASSUME PreflightInv, SelectEvent PROVE PreflightInv' OBVIOUS
<1>. USE DEF PreflightInv
<1>1. /\ Head(events) \in Event /\ events' \in Seq(Event)
      /\ \A s \in Streams : ReadyEvent(s)' => ReadyEvent(s)
      /\ Head(events).line = "forwarding" => ReadyEvent(Head(events).stream)
  BY EventTail DEF TypeOK, SelectEvent, Event
<1>2. TypeOK' BY <1>1 DEF TypeOK, SelectEvent, Event, Exits
<1>3. ChildInv' BY DEF TypeOK, ChildInv, SelectEvent, Exits
<1>4. \A s \in seen' : s \in seen \/ ReadyEvent(s) BY <1>1 DEF SelectEvent
<1>5. pipe' = pipe /\ buffer' = buffer /\ printed' = printed BY DEF SelectEvent
<1>6. result' # "valid" BY DEF ChildInv, SelectEvent
<1>7. OutputInv' BY <1>1, <1>4, <1>5, <1>6 DEF OutputInv, HasReady
<1>. QED BY <1>2, <1>3, <1>7

\* A ready line moves from the pipe to the buffer and from there to the channel.
LEMMA ScanPreflightInv == ASSUME NEW s \in Streams PROVE PreflightInv /\ Scan(s) => PreflightInv'
<1>. SUFFICES ASSUME PreflightInv, Scan(s) PROVE PreflightInv' OBVIOUS
<1>. USE DEF PreflightInv
<1>0. /\ pipe \in [Streams -> Seq(Text)] /\ buffer \in [Streams -> Seq(Text)]
      /\ events \in Seq(Event)
  BY DEF TypeOK, Event
<1>1. CASE ScannerReads(s)
  <2>1. TypeOK' BY <1>1 DEF TypeOK, ScannerReads
  <2>2. ChildInv' BY <1>1 DEF ChildInv, ScannerReads
  <2>3. \A t \in Streams : /\ HasReady(pipe'[t]) => HasReady(pipe[t])
                           /\ HasReady(buffer'[t]) => HasReady(pipe[t]) \/ HasReady(buffer[t])
    BY <1>0, <1>1, EmptyNotReady DEF ScannerReads
  <2>4. /\ printed' = printed /\ events' = events /\ seen' = seen
        /\ result' = result /\ answer' = answer
    BY <1>1 DEF ScannerReads
  <2>5. OutputInv' BY <2>3, <2>4 DEF OutputInv, ReadyEvent
  <2>. QED BY <2>1, <2>2, <2>5
<1>2. CASE ScannerSends(s)
  <2>. DEFINE e == [stream |-> s, line |-> Head(buffer[s])]
  <2>1. /\ buffer[s] # <<>> /\ events' = Append(events, e)
        /\ buffer' = [buffer EXCEPT ![s] = Tail(buffer[s])]
        /\ pipe' = pipe /\ printed' = printed /\ seen' = seen
        /\ result' = result /\ answer' = answer
    BY <1>2 DEF ScannerSends
  <2>2. /\ Head(buffer[s]) \in Text /\ Tail(buffer[s]) \in Seq(Text)
        /\ HasReady(Tail(buffer[s])) => HasReady(buffer[s])
        /\ Head(buffer[s]) = "forwarding" => HasReady(buffer[s])
    BY <1>0, <2>1, ReadyTail
  <2>3. e \in Event BY <2>2 DEF Event
  <2>4. /\ events' \in Seq(Event)
        /\ \A t \in Streams : ReadyEvent(t)' =>
              ReadyEvent(t) \/ (e.stream = t /\ e.line = "forwarding")
    BY <1>0, <2>1, <2>3, EventAppend
  <2>5. TypeOK' BY <1>0, <1>2, <2>2, <2>4 DEF TypeOK, ScannerSends, Event
  <2>6. ChildInv' BY <1>2 DEF ChildInv, ScannerSends
  <2>7. \A t \in Streams : HasReady(buffer'[t]) => HasReady(buffer[t])
    BY <1>0, <2>1, <2>2
  <2>8. \A t \in Streams : ReadyEvent(t)' => ReadyEvent(t) \/ HasReady(buffer[t])
    BY <2>2, <2>4
  <2>9. OutputInv' BY <2>1, <2>7, <2>8 DEF OutputInv
  <2>. QED BY <2>5, <2>6, <2>9
<1>3. CASE ScannerEnds(s)
  <2>. DEFINE e == [stream |-> s, line |-> "error"]
  <2>1. /\ pipe' = pipe /\ buffer' = buffer /\ printed' = printed /\ seen' = seen
        /\ result' = result /\ answer' = answer
        /\ events' = events \/ events' = Append(events, e)
    BY <1>3 DEF ScannerEnds
  <2>2. e \in Event /\ e.line # "forwarding" BY DEF Event
  <2>3. /\ events' \in Seq(Event)
        /\ \A t \in Streams : ReadyEvent(t)' => ReadyEvent(t)
    <3>1. CASE events' = events BY <1>0, <3>1 DEF ReadyEvent
    <3>2. CASE events' = Append(events, e) BY <1>0, <2>2, <3>2, EventAppend
    <3>. QED BY <2>1, <3>1, <3>2
  <2>4. TypeOK' BY <1>3, <2>3 DEF TypeOK, ScannerEnds, Event
  <2>5. ChildInv' BY <1>3 DEF ChildInv, ScannerEnds
  <2>6. OutputInv' BY <2>1, <2>3 DEF OutputInv
  <2>. QED BY <2>4, <2>5, <2>6
<1>4. CASE ScannerGivesUp(s)
  <2>. DEFINE e == [stream |-> s, line |-> "error"]
  <2>1. /\ pipe' = pipe /\ printed' = printed /\ seen' = seen
        /\ result' = result /\ answer' = answer
        /\ buffer' = [buffer EXCEPT ![s] = <<>>]
        /\ events' = Append(events, e)
    BY <1>4 DEF ScannerGivesUp
  <2>2. e \in Event /\ e.line # "forwarding" BY DEF Event
  <2>3. /\ events' \in Seq(Event)
        /\ \A t \in Streams : ReadyEvent(t)' => ReadyEvent(t)
    BY <1>0, <2>1, <2>2, EventAppend
  <2>4. TypeOK' BY <1>0, <1>4, <2>1, <2>3 DEF TypeOK, ScannerGivesUp, Event
  <2>5. ChildInv' BY <1>4 DEF ChildInv, ScannerGivesUp
  <2>6. \A t \in Streams : HasReady(buffer'[t]) => HasReady(buffer[t])
    BY <1>0, <2>1, EmptyNotReady
  <2>7. OutputInv' BY <2>1, <2>3, <2>6 DEF OutputInv
  <2>. QED BY <2>4, <2>5, <2>7
<1>. QED BY <1>1, <1>2, <1>3, <1>4 DEF Scan

LEMMA KubectlPreflightInv ==
    PreflightInv /\ ((\E s \in Streams : KubectlPrints(s)) \/ KubectlExits \/ Expire)
    => PreflightInv'
<1>. SUFFICES ASSUME PreflightInv,
                     (\E s \in Streams : KubectlPrints(s)) \/ KubectlExits \/ Expire
              PROVE  PreflightInv'
  OBVIOUS
<1>. USE DEF PreflightInv
<1>1. ASSUME NEW s \in Streams, KubectlPrints(s) PROVE PreflightInv'
  <2>0. pipe \in [Streams -> Seq(Text)] /\ printed \in [Streams -> Seq(Text)]
    BY DEF TypeOK
  <2>1. PICK said \in Text :
            /\ pipe' = [pipe EXCEPT ![s] = Append(pipe[s], said)]
            /\ printed' = [printed EXCEPT ![s] = Append(printed[s], said)]
    BY <1>1 DEF KubectlPrints
  <2>2. /\ buffer' = buffer /\ events' = events /\ seen' = seen
        /\ result' = result /\ answer' = answer
    BY <1>1 DEF KubectlPrints
  <2>3. /\ Append(pipe[s], said) \in Seq(Text)
        /\ HasReady(Append(pipe[s], said)) <=> HasReady(pipe[s]) \/ said = "forwarding"
    BY <2>0, ReadyAppend
  <2>4. /\ Append(printed[s], said) \in Seq(Text)
        /\ HasReady(Append(printed[s], said)) <=> HasReady(printed[s]) \/ said = "forwarding"
    BY <2>0, ReadyAppend
  <2>5. TypeOK' BY <1>1, <2>0, <2>1, <2>3, <2>4 DEF TypeOK, KubectlPrints
  <2>6. ChildInv' BY <1>1 DEF ChildInv, KubectlPrints
  <2>7. \A t \in Streams :
           /\ HasReady(pipe'[t]) => HasReady(pipe[t]) \/ HasReady(printed'[t])
           /\ HasReady(printed[t]) => HasReady(printed'[t])
    BY <2>0, <2>1, <2>3, <2>4
  <2>8. OutputInv' BY <2>2, <2>7 DEF OutputInv, ReadyEvent
  <2>. QED BY <2>5, <2>6, <2>8
<1>2. CASE KubectlExits
  <2>1. TypeOK' BY <1>2 DEF TypeOK, KubectlExits, childVars, Exits
  <2>2. ChildInv' BY <1>2 DEF TypeOK, ChildInv, KubectlExits, childVars, Exits
  <2>3. OutputInv' BY <1>2, OutputUntouched DEF OutputInv, KubectlExits, childVars
  <2>. QED BY <2>1, <2>2, <2>3
<1>3. CASE Expire
  <2>1. TypeOK' BY <1>3 DEF TypeOK, Expire, childVars, Exits
  <2>2. ChildInv' BY <1>3 DEF TypeOK, ChildInv, Expire, childVars, Exits
  <2>3. OutputInv' BY <1>3, OutputUntouched DEF OutputInv, Expire, childVars
  <2>. QED BY <2>1, <2>2, <2>3
<1>. QED BY <1>1, <1>2, <1>3

LEMMA StutterPreflightInv == PreflightInv /\ UNCHANGED vars => PreflightInv'
<1>. SUFFICES ASSUME PreflightInv, UNCHANGED vars PROVE PreflightInv' OBVIOUS
<1>. USE DEF PreflightInv, vars, childVars
<1>1. TypeOK' BY DEF TypeOK
<1>2. ChildInv' BY DEF ChildInv
<1>3. OutputInv' BY OutputUntouched DEF OutputInv
<1>. QED BY <1>1, <1>2, <1>3

\* connect going on resets the picture.
LEMMA LeavePreflightInv == PreflightInv /\ Leave => PreflightInv'
<1>. SUFFICES ASSUME PreflightInv, Leave PROVE PreflightInv' OBVIOUS
<1>. USE DEF PreflightInv
<1>0. <<>> \in Seq(Text) /\ <<>> \in Seq(Event) OBVIOUS
<1>1. TypeOK' BY <1>0 DEF TypeOK, Leave, Event
<1>2. ChildInv' BY DEF TypeOK, ChildInv, Leave
<1>3. OutputInv' BY DEF OutputInv, Leave, HasReady, ReadyEvent, Streams
<1>. QED BY <1>1, <1>2, <1>3

LEMMA NextPreflightInv == PreflightInv /\ [Next]_vars => PreflightInv'
<1>. SUFFICES ASSUME PreflightInv, [Next]_vars PROVE PreflightInv' OBVIOUS
<1>1. CASE Next
  <2>1. CASE StartRun \/ RunReturns BY <2>1, RunPreflightInv
  <2>2. CASE StartProbe \/ SelectExit \/ SelectDone \/ StopReturns \/ WaitDelivers
    BY <2>2, ProbePreflightInv
  <2>3. CASE SelectEvent BY <2>3, EventPreflightInv
  <2>4. CASE \E s \in Streams : Scan(s) BY <2>4, ScanPreflightInv
  <2>5. CASE (\E s \in Streams : KubectlPrints(s)) \/ KubectlExits \/ Expire
    BY <2>5, KubectlPreflightInv
  <2>6. CASE Returned BY <2>6, StutterPreflightInv DEF Returned
  <2>. QED BY <1>1, <2>1, <2>2, <2>3, <2>4, <2>5, <2>6 DEF Next, Runner
<1>2. CASE UNCHANGED vars BY <1>2, StutterPreflightInv
<1>. QED BY <1>1, <1>2

\* The invariant contains what Validate promises.
LEMMA PreflightConsequences ==
    PreflightInv => TypeOK /\ NoKubectlLeft /\ ValidMeansForwarded
<1>. SUFFICES ASSUME PreflightInv PROVE TypeOK /\ NoKubectlLeft /\ ValidMeansForwarded
  OBVIOUS
<1>1. TypeOK /\ NoKubectlLeft BY DEF PreflightInv, ChildInv, NoKubectlLeft
<1>2. ValidMeansForwarded
  BY DEF PreflightInv, OutputInv, HasReady, ValidMeansForwarded, Streams
<1>. QED BY <1>1, <1>2

-----------------------------------------------------------------------------
(* The attempts. *)

\* Files of attempts that have begun.
LogInv ==
    /\ attempt <= attemptsAllowed
    /\ logFiles <= 2 * IF starter \in {"idle", "attempt"} THEN attempt - 1 ELSE attempt

ReapInv == starter \in {"select", "stop"} /\ reaped => child[attempt] = "gone"

\* A tunnel is announced by the kubectl of an attempt that has begun, and an
\* attempt is stopped by the deadline only.
AnnounceInv ==
    /\ AnnouncementNotLost
    /\ starter = "stop" => deadline
    /\ \A a \in log : a <= attempt /\ (starter \in {"idle", "attempt"} => a < attempt)

StartInv == StartTypeOK /\ LogInv /\ ReapInv /\ OnlyCurrentRuns /\ AnnounceInv

\* The tunnel is started when the preflight has returned.
PhaseInv == starter = "idle" \/ step = "over"

ProgramsInv == PreflightInv /\ StartInv /\ RemoteInv /\ PhaseInv

LEMMA InitStartInv == StartInit => StartInv
<1>. SUFFICES ASSUME StartInit PROVE StartInv OBVIOUS
<1>. USE TunnelStartAssumption DEF StartInit
<1>1. StartTypeOK
  <2>1. 1 \in Attempts BY DEF Attempts
  <2>2. child \in [Attempts -> {"none", "up", "gone"}] OBVIOUS
  <2>. QED BY <2>1, <2>2 DEF StartTypeOK
<1>2. LogInv
  <2>1. attemptsAllowed \in {1, 1 + MaxReconnects} BY DEF attemptsAllowed
  <2>. QED BY <2>1 DEF LogInv
<1>3. ReapInv /\ AnnounceInv BY DEF ReapInv, AnnounceInv, AnnouncementNotLost
<1>4. OnlyCurrentRuns BY DEF OnlyCurrentRuns, Running
<1>. QED BY <1>1, <1>2, <1>3, <1>4 DEF StartInv

LEMMA AllowedTyped ==
    StartTypeOK => attemptsAllowed \in Nat /\ attemptsAllowed \in Attempts
BY TunnelStartAssumption DEF StartTypeOK, attemptsAllowed, Attempts

\* After a failure the next attempt begins or Start gives up; nothing runs.
LEMMA NextAttemptStartInv ==
    ASSUME StartInv, NextAttempt, Running = {},
           child' = child, retry' = retry, log' = log, reaped' = reaped,
           deadline' = deadline,
           logFiles' \in Nat, logFiles' <= 2 * attempt,
           log # {} => deadline
    PROVE  StartInv'
<1>. USE DEF StartInv
<1>0. attemptsAllowed' = attemptsAllowed BY DEF attemptsAllowed
<1>1. \/ attempt < attemptsAllowed /\ starter' = "attempt" /\ attempt' = attempt + 1
      \/ starter' = "failed" /\ attempt' = attempt
  BY DEF NextAttempt
<1>2. attempt \in Attempts /\ attempt \in Nat BY DEF StartTypeOK, Attempts
<1>3. attempt' \in Attempts
  BY <1>1, <1>2, AllowedTyped, TunnelStartAssumption DEF Attempts
<1>4. StartTypeOK' BY <1>1, <1>3 DEF StartTypeOK
<1>5. LogInv' BY <1>0, <1>1, <1>2, AllowedTyped DEF LogInv
<1>6. ReapInv' BY <1>1 DEF ReapInv
<1>7. OnlyCurrentRuns' BY DEF OnlyCurrentRuns, Running
<1>8. AnnounceInv'
  <2>1. \A a \in log : a \in Nat /\ a <= attempt
    BY DEF AnnounceInv, StartTypeOK, Attempts
  <2>2. starter' # "stop" BY <1>1
  <2>3. \A a \in log : a <= attempt' /\ (starter' = "attempt" => a < attempt')
    BY <1>1, <1>2, <2>1
  <2>4. starter' # "idle" BY <1>1
  <2>. QED BY <2>2, <2>3, <2>4 DEF AnnounceInv, AnnouncementNotLost
<1>. QED BY <1>4, <1>5, <1>6, <1>7, <1>8

LEMMA StarterStartInv == StartInv /\ Starter => StartInv'
<1>. SUFFICES ASSUME StartInv, Starter PROVE StartInv' OBVIOUS
<1>. USE DEF StartInv
<1>0. attempt \in Attempts /\ attempt \in Nat /\ logFiles \in Nat
  BY DEF StartTypeOK, Attempts
<1>1. CASE StartAttempt
  <2>1. starter = "attempt" /\ Running = {} BY <1>1 DEF StartAttempt, OnlyCurrentRuns
  <2>2. logFiles <= 2 * (attempt - 1) BY <2>1 DEF LogInv
  <2>3. CASE starter' = "select"
    <3>1. /\ logFiles' = logFiles + 2 /\ child' = [child EXCEPT ![attempt] = "up"]
          /\ reaped' = FALSE /\ attempt' = attempt /\ retry' = retry /\ log' = log
          /\ deadline' = deadline
      BY <1>1, <2>3 DEF StartAttempt, NextAttempt
    <3>2. StartTypeOK'
      <4>1. logFiles' \in Nat BY <1>0, <3>1
      <4>2. child' \in [Attempts -> {"none", "up", "gone"}] BY <1>0, <3>1 DEF StartTypeOK
      <4>. QED BY <2>3, <3>1, <4>1, <4>2 DEF StartTypeOK
    <3>3. attemptsAllowed' = attemptsAllowed BY <3>1 DEF attemptsAllowed
    <3>4. LogInv' BY <1>0, <2>2, <2>3, <3>1, <3>3 DEF LogInv
    <3>5. ReapInv' /\ AnnounceInv'
      BY <2>3, <3>1 DEF ReapInv, AnnounceInv, AnnouncementNotLost
    <3>6. OnlyCurrentRuns'
      BY <1>0, <2>1, <2>3, <3>1 DEF OnlyCurrentRuns, Running, StartTypeOK
    <3>. QED BY <3>2, <3>4, <3>5, <3>6
  <2>4. CASE starter' # "select"
    <3>1. NextAttempt /\ child' = child /\ reaped' = reaped
      BY <1>1, <2>4 DEF StartAttempt
    <3>2. retry' = retry /\ log' = log /\ deadline' = deadline
      BY <1>1 DEF StartAttempt
    <3>3. PICK created \in 0..2 : logFiles' = logFiles + created
      BY <1>1, <2>4 DEF StartAttempt
    <3>4. logFiles' \in Nat /\ logFiles' <= 2 * attempt BY <1>0, <2>2, <3>3
    <3>5. log # {} => deadline BY <2>1 DEF AnnounceInv, AnnouncementNotLost
    <3>. QED BY <2>1, <3>1, <3>2, <3>4, <3>5, NextAttemptStartInv
  <2>. QED BY <2>3, <2>4
<1>2. ASSUME starter \in {"select", "stop"}, starter' = "started",
             ReadySeen(attempt), starter = "select",
             UNCHANGED <<retry, attempt, child, log, logFiles, reaped, deadline>>
      PROVE  StartInv'
  <2>1. StartTypeOK' BY <1>2 DEF StartTypeOK
  <2>2. attemptsAllowed' = attemptsAllowed BY <1>2 DEF attemptsAllowed
  <2>3. LogInv' BY <1>2, <2>2 DEF LogInv
  <2>4. ReapInv' /\ AnnounceInv' BY <1>2 DEF ReapInv, AnnounceInv, AnnouncementNotLost
  <2>5. OnlyCurrentRuns' BY <1>2 DEF OnlyCurrentRuns, Running
  <2>. QED BY <2>1, <2>3, <2>4, <2>5
<1>3. ASSUME starter \in {"select", "stop"}, reaped, NextAttempt,
             UNCHANGED <<retry, child, log, logFiles, reaped, deadline>>,
             attempt \notin log \/ starter = "stop"
      PROVE  StartInv'
  <2>1. Running = {} BY <1>3 DEF OnlyCurrentRuns, Running, ReapInv
  <2>2. logFiles <= 2 * attempt BY <1>3 DEF LogInv
  <2>3. log # {} => deadline
    <3>1. CASE starter = "stop" BY <3>1 DEF AnnounceInv
    <3>2. CASE attempt \notin log
      <4>1. \A a \in log : a \in Nat /\ a <= attempt /\ a # attempt
        BY <3>2 DEF AnnounceInv, StartTypeOK, Attempts
      <4>2. \A a \in log : a < attempt BY <1>0, <4>1
      <4>. QED BY <4>2 DEF AnnounceInv, AnnouncementNotLost
    <3>. QED BY <1>3, <3>1, <3>2
  <2>. QED BY <1>0, <1>3, <2>1, <2>2, <2>3, NextAttemptStartInv
<1>4. CASE TickFindsReady BY <1>2, <1>4 DEF TickFindsReady
<1>5. CASE ExitSeen
  <2>1. CASE ReadySeen(attempt) BY <1>2, <1>5, <2>1 DEF ExitSeen
  <2>2. CASE ~ReadySeen(attempt) BY <1>3, <1>5, <2>2 DEF ExitSeen, ReadySeen
  <2>. QED BY <2>1, <2>2
<1>6. CASE StopSeen BY <1>3, <1>6 DEF StopSeen
<1>7. CASE DeadlineSeen
  <2>1. /\ starter = "select" /\ starter' = "stop"
        /\ child' = [child EXCEPT ![attempt] = "gone"]
        /\ UNCHANGED <<retry, attempt, log, logFiles, reaped, deadline>>
        /\ deadline
    BY <1>7 DEF DeadlineSeen
  <2>2. StartTypeOK' BY <1>0, <2>1 DEF StartTypeOK
  <2>3. attemptsAllowed' = attemptsAllowed BY <2>1 DEF attemptsAllowed
  <2>4. LogInv' BY <2>1, <2>3 DEF LogInv
  <2>5. ReapInv' /\ AnnounceInv'
    BY <1>0, <2>1 DEF ReapInv, AnnounceInv, AnnouncementNotLost, StartTypeOK
  <2>6. OnlyCurrentRuns' BY <1>0, <2>1 DEF OnlyCurrentRuns, Running, StartTypeOK
  <2>. QED BY <2>2, <2>4, <2>5, <2>6
<1>8. CASE Reap
  <2>1. /\ starter \in {"select", "stop"} /\ child[attempt] = "gone" /\ reaped' = TRUE
        /\ UNCHANGED <<starter, retry, attempt, child, log, logFiles, deadline>>
    BY <1>8 DEF Reap
  <2>2. StartTypeOK' BY <2>1 DEF StartTypeOK
  <2>3. attemptsAllowed' = attemptsAllowed BY <2>1 DEF attemptsAllowed
  <2>4. LogInv' BY <2>1, <2>3 DEF LogInv
  <2>5. ReapInv' /\ AnnounceInv' BY <2>1 DEF ReapInv, AnnounceInv, AnnouncementNotLost
  <2>6. OnlyCurrentRuns' BY <2>1 DEF OnlyCurrentRuns, Running
  <2>. QED BY <2>2, <2>4, <2>5, <2>6
<1>. QED BY <1>1, <1>4, <1>5, <1>6, <1>7, <1>8 DEF Starter

LEMMA ChildStartInv ==
    ASSUME StartInv, NEW a \in Attempts, ChildAnnounces(a) \/ ChildExits(a)
    PROVE  StartInv'
<1>. USE DEF StartInv
<1>1. CASE ChildAnnounces(a)
  <2>1. /\ log' = log \cup {a} /\ child[a] = "up"
        /\ UNCHANGED <<starter, retry, attempt, child, logFiles, reaped, deadline>>
    BY <1>1 DEF ChildAnnounces
  <2>2. StartTypeOK' BY <2>1 DEF StartTypeOK
  <2>3. attemptsAllowed' = attemptsAllowed BY <2>1 DEF attemptsAllowed
  <2>4. LogInv' BY <2>1, <2>3 DEF LogInv
  <2>5. ReapInv' BY <2>1 DEF ReapInv
  <2>6. OnlyCurrentRuns' BY <2>1 DEF OnlyCurrentRuns, Running
  <2>7. AnnounceInv'
    <3>1. a = attempt /\ starter \in {"select", "started"}
      BY <2>1 DEF OnlyCurrentRuns, Running
    <3>2. attempt \in Nat BY DEF StartTypeOK, Attempts
    <3>. QED BY <2>1, <3>1, <3>2 DEF AnnounceInv, AnnouncementNotLost
  <2>. QED BY <2>2, <2>4, <2>5, <2>6, <2>7
<1>2. CASE ChildExits(a)
  <2>1. /\ child' = [child EXCEPT ![a] = "gone"]
        /\ UNCHANGED <<starter, retry, attempt, log, logFiles, reaped, deadline>>
    BY <1>2 DEF ChildExits
  <2>2. StartTypeOK' BY <2>1 DEF StartTypeOK
  <2>3. attemptsAllowed' = attemptsAllowed BY <2>1 DEF attemptsAllowed
  <2>4. LogInv' BY <2>1, <2>3 DEF LogInv
  <2>5. ReapInv' /\ AnnounceInv'
    BY <2>1 DEF ReapInv, AnnounceInv, AnnouncementNotLost, StartTypeOK
  <2>6. OnlyCurrentRuns' BY <2>1 DEF OnlyCurrentRuns, Running, StartTypeOK
  <2>. QED BY <2>2, <2>4, <2>5, <2>6
<1>. QED BY <1>1, <1>2

LEMMA DeadlineStartInv == StartInv /\ DeadlinePasses => StartInv'
<1>. SUFFICES ASSUME StartInv, DeadlinePasses PROVE StartInv' OBVIOUS
<1>. USE DEF StartInv
<1>1. /\ deadline' = TRUE
      /\ UNCHANGED <<starter, retry, attempt, child, log, logFiles, reaped>>
  BY DEF DeadlinePasses
<1>2. StartTypeOK' BY <1>1 DEF StartTypeOK
<1>3. attemptsAllowed' = attemptsAllowed BY <1>1 DEF attemptsAllowed
<1>4. LogInv' BY <1>1, <1>3 DEF LogInv
<1>5. ReapInv' /\ AnnounceInv' BY <1>1 DEF ReapInv, AnnounceInv, AnnouncementNotLost
<1>6. OnlyCurrentRuns' BY <1>1 DEF OnlyCurrentRuns, Running
<1>. QED BY <1>2, <1>4, <1>5, <1>6

LEMMA NextStartInv == StartInv /\ StartNext => StartInv'
BY StarterStartInv, ChildStartInv, DeadlineStartInv DEF StartNext

LEMMA StutterStartInv == StartInv /\ UNCHANGED startVars => StartInv'
BY DEF StartInv, startVars, StartTypeOK, LogInv, attemptsAllowed, ReapInv, OnlyCurrentRuns,
       Running, AnnounceInv, AnnouncementNotLost

\* Start is called, or there is no kubectl for it.
LEMMA BeginStartInv ==
    ASSUME StartInv, starter = "idle", starter' \in {"attempt", "failed"},
           UNCHANGED <<retry, attempt, child, log, logFiles, reaped, deadline>>
    PROVE  StartInv'
<1>. USE DEF StartInv
<1>1. StartTypeOK' BY DEF StartTypeOK
<1>2. attemptsAllowed' = attemptsAllowed BY DEF attemptsAllowed
<1>3. LogInv'
  <2>1. attempt \in Nat /\ logFiles \in Nat BY DEF StartTypeOK, Attempts
  <2>2. logFiles <= 2 * (attempt - 1) BY DEF LogInv
  <2>. QED BY <1>2, <2>1, <2>2 DEF LogInv
<1>4. ReapInv' /\ AnnounceInv' BY DEF ReapInv, AnnounceInv, AnnouncementNotLost
<1>5. OnlyCurrentRuns' BY DEF OnlyCurrentRuns, Running
<1>. QED BY <1>1, <1>3, <1>4, <1>5

LEMMA LeaveStartInv == StartInv /\ LeaveStart => StartInv'
<1>. SUFFICES ASSUME StartInv, LeaveStart PROVE StartInv' OBVIOUS
<1>. USE TunnelStartAssumption DEF StartInv
<1>1. /\ starter' = "over" /\ attempt' = 1 /\ child' = [a \in Attempts |-> "none"]
      /\ log' = {} /\ logFiles' = 0 /\ reaped' = FALSE /\ deadline' = FALSE
      /\ retry' = retry
  BY DEF LeaveStart
<1>2. StartTypeOK'
  <2>1. 1 \in Attempts BY DEF Attempts
  <2>2. child' \in [Attempts -> {"none", "up", "gone"}] BY <1>1
  <2>. QED BY <1>1, <2>1, <2>2 DEF StartTypeOK
<1>3. LogInv'
  <2>1. attemptsAllowed' = attemptsAllowed BY <1>1 DEF attemptsAllowed
  <2>2. attemptsAllowed \in 1..(1 + MaxReconnects) BY AllowedTyped DEF Attempts
  <2>. QED BY <1>1, <2>1, <2>2 DEF LogInv
<1>4. ReapInv' /\ AnnounceInv' BY <1>1 DEF ReapInv, AnnounceInv, AnnouncementNotLost
<1>5. OnlyCurrentRuns' BY <1>1 DEF OnlyCurrentRuns, Running
<1>. QED BY <1>2, <1>3, <1>4, <1>5

-----------------------------------------------------------------------------
(* The composition. *)

\* When connect has gone on, the preflight stays over.
LEMMA OverStays == Next /\ step = "over" => step' = "over"
<1>. SUFFICES ASSUME Next, step = "over" PROVE step' = "over" OBVIOUS
<1>1. ~Runner
  BY DEF Runner, StartRun, RunReturns, StartProbe, SelectEvent, SelectExit, SelectDone,
         StopReturns, WaitDelivers
<1>2. CASE \E s \in Streams : Scan(s) \/ KubectlPrints(s)
  BY <1>2 DEF Scan, ScannerReads, ScannerSends, ScannerEnds, ScannerGivesUp, KubectlPrints
<1>3. CASE KubectlExits \/ Expire BY <1>3 DEF KubectlExits, Expire
<1>4. CASE Returned BY <1>4 DEF Returned
<1>. QED BY <1>1, <1>2, <1>3, <1>4 DEF Next

\* Start does not move before it is called.
LEMMA IdleStays == StartNext /\ starter = "idle" => starter' = "idle"
<1>. SUFFICES ASSUME StartNext, starter = "idle" PROVE starter' = "idle" OBVIOUS
<1>1. ~Starter
  BY DEF Starter, StartAttempt, TickFindsReady, ExitSeen, DeadlineSeen, StopSeen, Reap
<1>2. ~DeadlinePasses BY DEF DeadlinePasses
<1>. QED BY <1>1, <1>2 DEF StartNext, ChildAnnounces, ChildExits

LEMMA InitProgramsInv == ProgramsInit => ProgramsInv
BY InitPreflightInv, InitStartInv, InitRemoteInv
DEF ProgramsInit, ProgramsInv, PhaseInv, StartInit

LEMMA NextProgramsInv == ProgramsInv /\ [ProgramsNext]_programVars => ProgramsInv'
<1>. SUFFICES ASSUME ProgramsInv, [ProgramsNext]_programVars PROVE ProgramsInv' OBVIOUS
<1>. USE DEF ProgramsInv, PhaseInv
<1>1. CASE RunPreflight
  <2>1. Next /\ UNCHANGED startVars /\ UNCHANGED remoteVars BY <1>1 DEF RunPreflight
  <2>2. starter' = starter BY <2>1 DEF startVars
  <2>. QED BY <2>1, <2>2, NextPreflightInv, StutterStartInv, StutterRemoteInv, OverStays
<1>2. CASE BeginTunnel
  <2>1. Leave /\ UNCHANGED remoteVars BY <1>2 DEF BeginTunnel
  <2>2. StartInv' BY <1>2, BeginStartInv DEF BeginTunnel
  <2>3. step' = "over" BY <2>1 DEF Leave
  <2>. QED BY <2>1, <2>2, <2>3, LeavePreflightInv, StutterRemoteInv
<1>3. CASE RunTunnel
  <2>1. StartNext /\ UNCHANGED vars /\ UNCHANGED remoteVars BY <1>3 DEF RunTunnel
  <2>2. step' = step BY <2>1 DEF vars
  <2>. QED BY <2>1, <2>2, NextStartInv, StutterPreflightInv, StutterRemoteInv, IdleStays
<1>4. CASE BeginSetup
  <2>1. LeaveStart /\ FindTarget /\ UNCHANGED vars BY <1>4 DEF BeginSetup
  <2>2. starter = "started" /\ step' = step BY <2>1 DEF LeaveStart, vars
  <2>. QED BY <2>1, <2>2, LeaveStartInv, FindRemoteInv, StutterPreflightInv
<1>5. CASE RunSetup
  <2>1. UNCHANGED vars /\ UNCHANGED startVars BY <1>5 DEF RunSetup
  <2>2. PICK s \in Scripts : StartScript(s) \/ ScriptStep(s) BY <1>5 DEF RunSetup
  <2>3. step' = step /\ starter' = starter BY <2>1 DEF vars, startVars
  <2>. QED BY <2>1, <2>2, <2>3, ScriptRemoteInv, StutterPreflightInv, StutterStartInv
<1>6. CASE UNCHANGED programVars
  <2>1. UNCHANGED vars /\ UNCHANGED startVars /\ UNCHANGED remoteVars
    BY <1>6 DEF programVars
  <2>2. step' = step /\ starter' = starter BY <2>1 DEF vars, startVars
  <2>. QED BY <2>1, <2>2, StutterPreflightInv, StutterStartInv, StutterRemoteInv
<1>7. CASE Failed BY <1>6, <1>7 DEF Failed
<1>. QED BY <1>1, <1>2, <1>3, <1>4, <1>5, <1>6, <1>7 DEF ProgramsNext

LEMMA ProgramsInvariant == ProgramsSpec => []ProgramsInv
<1>1. ProgramsInit => ProgramsInv BY InitProgramsInv
<1>2. ProgramsInv /\ [ProgramsNext]_programVars => ProgramsInv' BY NextProgramsInv
<1>. QED BY <1>1, <1>2, PTL DEF ProgramsSpec

-----------------------------------------------------------------------------
\* The variables of preflight, tunnel start and remote set-up keep their types
\* in every interleaving of connect's goroutines and of the set-up scripts.
THEOREM ProgramsTypeCorrect == ProgramsSpec => []ProgramsTypeOK
<1>1. ProgramsInv => ProgramsTypeOK
  BY PreflightConsequences, RemoteConsequences DEF ProgramsInv, StartInv, ProgramsTypeOK
<1>. QED BY <1>1, ProgramsInvariant, PTL

\* Whichever way Validate returns, however many lines its probe prints and
\* whatever the size of the channel, its kubectl is gone.
THEOREM PreflightLeavesNoKubectl == ProgramsSpec => []NoKubectlLeft
<1>1. ProgramsInv => NoKubectlLeft BY PreflightConsequences DEF ProgramsInv
<1>. QED BY <1>1, ProgramsInvariant, PTL

\* A preflight that succeeds has been granted access and has seen the ready line
\* that the probe's kubectl printed on stdout.
THEOREM ValidIsForwarded == ProgramsSpec => []ValidMeansForwarded
<1>1. ProgramsInv => ValidMeansForwarded BY PreflightConsequences DEF ProgramsInv
<1>. QED BY <1>1, ProgramsInvariant, PTL

\* Probe and attempts, however many reconnects are allowed, never have two
\* kubectl processes at the local port, and none is left after an error.
THEOREM OneKubectlAtATime == ProgramsSpec => []OneKubectl
<1>1. ProgramsInv => OneKubectl
  BY DEF ProgramsInv, StartInv, PhaseInv, PreflightInv, ChildInv, OneKubectl
<1>. QED BY <1>1, ProgramsInvariant, PTL

\* However many attempts are allowed and whenever their kubectls announce a
\* tunnel and exit, only the deadline makes Start give up an attempt whose kubectl
\* has announced one.
THEOREM NoAnnouncementIsLost == ProgramsSpec => []AnnouncementNotLost
<1>1. ProgramsInv => AnnouncementNotLost BY DEF ProgramsInv, StartInv, AnnounceInv
<1>. QED BY <1>1, ProgramsInvariant, PTL

\* Start leaves at most two log files for each attempt it is allowed.
THEOREM LogFilesAreBounded == ProgramsSpec => []LogFilesBounded
<1>1. ProgramsInv => LogFilesBounded
  <2>. SUFFICES ASSUME ProgramsInv PROVE LogFilesBounded OBVIOUS
  <2>1. attempt \in Nat /\ logFiles \in Nat
    BY DEF ProgramsInv, StartInv, StartTypeOK, Attempts
  <2>. QED
    BY <2>1, AllowedTyped DEF ProgramsInv, StartInv, LogInv, LogFilesBounded
<1>. QED BY <1>1, ProgramsInvariant, PTL

\* A set-up that succeeds and had the target to itself is complete, whatever
\* any number of earlier set-ups have left there.
THEOREM SetupIsComplete == ProgramsSpec => []SetupComplete
<1>1. ProgramsInv => SetupComplete BY RemoteConsequences DEF ProgramsInv
<1>. QED BY <1>1, ProgramsInvariant, PTL

\* Where there is python3, the remote user's entries outlive any number of
\* set-ups that do not overlap and do not end inside the write.
THEOREM UserSettingsAreKept == ProgramsSpec => []UserSettingsKept
<1>1. ProgramsInv => UserSettingsKept BY RemoteConsequences DEF ProgramsInv
<1>. QED BY <1>1, ProgramsInvariant, PTL
=============================================================================
