------------------------ MODULE TunnelSupervisorProofs ------------------------
(***************************************************************************)
(* Theorems about the supervisor's loop, for any number of streams, lines  *)
(* and attempts and any backoff limits.                                    *)
(***************************************************************************)
EXTENDS TunnelSupervisor, FiniteSetTheorems, TLAPS

LEMMA InitTyped == Init => TypeOK
<1>. SUFFICES ASSUME Init PROVE TypeOK
    OBVIOUS
<1>1. [s \in Streams |-> <<>>] \in [Streams -> Seq(Lines)]
    OBVIOUS
<1>2. attempt \in 1..AttemptBound /\ backoff \in Nat
    BY LoopAssumption DEF Init
<1>. QED BY <1>1, <1>2 DEF Init, TypeOK

LEMMA StepTyped == TypeOK /\ [Next]_vars => TypeOK'
<1>. SUFFICES ASSUME TypeOK, [Next]_vars PROVE TypeOK'
    OBVIOUS
<1>. USE DEF TypeOK, loopVars, scanVars
<1>1. CASE StartFails BY <1>1 DEF StartFails, AfterAttempt
<1>2. CASE StartKubectl
  <2>1. [s \in Streams |-> <<>>] \in [Streams -> Seq(Lines)]
    OBVIOUS
  <2>. QED BY <1>2, <2>1 DEF StartKubectl
<1>3. CASE WaitReturns BY <1>3 DEF WaitReturns
<1>4. CASE Drain BY <1>4 DEF Drain, AfterAttempt
<1>5. CASE WakeUp
  <2>1. NextBackoff(backoff) \in Nat
    BY LoopAssumption DEF NextBackoff
  <2>2. attempt' \in 1..AttemptBound
    BY <1>5, LoopAssumption DEF WakeUp
  <2>. QED BY <1>5, <2>1, <2>2 DEF WakeUp
<1>6. CASE StopSleeping BY <1>6 DEF StopSleeping
<1>7. ASSUME NEW s \in Streams, Scan(s) PROVE TypeOK'
  <2>1. CASE ScannerReads(s) BY <2>1 DEF ScannerReads
  <2>2. CASE ScannerLine(s)
    <3>1. Tail(buffer[s]) \in Seq(Lines)
      BY <2>2 DEF ScannerLine
    <3>2. readyOnce' \in BOOLEAN /\ readyFile' \in BOOLEAN
      BY <2>2 DEF ScannerLine
    <3>. QED BY <2>2, <3>1, <3>2 DEF ScannerLine
  <2>3. CASE ScannerEnds(s) BY <2>3 DEF ScannerEnds
  <2>4. CASE ScannerGivesUp(s) BY <2>4 DEF ScannerGivesUp
  <2>. QED BY <1>7, <2>1, <2>2, <2>3, <2>4 DEF Scan
<1>8. ASSUME NEW s \in Streams, NEW line \in Lines, KubectlPrints(s, line) PROVE TypeOK'
  <2>1. Append(pipe[s], line) \in Seq(Lines)
    OBVIOUS
  <2>2. announced' \subseteq Streams
    BY <1>8 DEF KubectlPrints
  <2>. QED BY <1>8, <2>1, <2>2 DEF KubectlPrints
<1>9. CASE KubectlExits BY <1>9 DEF KubectlExits
<1>10. CASE Cancel BY <1>10 DEF Cancel
<1>11. CASE UNCHANGED vars BY <1>11 DEF vars
<1>. QED BY <1>1, <1>2, <1>3, <1>4, <1>5, <1>6, <1>7, <1>8, <1>9, <1>10, <1>11
         DEF Next, Main, Finished

-----------------------------------------------------------------------------
\* Wait has returned in "drain"; a scanner is done only with an empty buffer.
OverlapInv ==
    /\ phase \in {"start", "sleep", "exited"} =>
          kubectl # "up" /\ \A s \in Streams : scanner[s] = "done"
    /\ phase = "drain" => kubectl = "gone"
    /\ \A s \in Streams : scanner[s] = "done" => buffer[s] = <<>>

\* kubectl has announced a tunnel in this attempt.
Announced == announced # {}

\* An announcement a scanner still has to see is one of this attempt.
AnnouncedInv ==
    /\ readyOnce => Announced
    /\ \A s \in Streams :
          /\ \A i \in 1..Len(pipe[s]) : pipe[s][i] = "forwarding" => Announced
          /\ \A i \in 1..Len(buffer[s]) : buffer[s][i] = "forwarding" => Announced

LEMMA StepOverlap == TypeOK /\ OverlapInv /\ [Next]_vars => OverlapInv'
<1>. SUFFICES ASSUME TypeOK, OverlapInv, [Next]_vars PROVE OverlapInv'
    OBVIOUS
<1>. USE DEF OverlapInv, loopVars, scanVars
<1>t. /\ scanner \in [Streams -> {"reading", "done"}]
      /\ buffer \in [Streams -> Seq(Lines)]
    BY DEF TypeOK
<1>1. CASE Main
    BY <1>1 DEF Main, StartFails, StartKubectl, WaitReturns, Drain, WakeUp, StopSleeping,
       AfterAttempt
<1>2. ASSUME NEW s \in Streams, Scan(s) PROVE OverlapInv'
    BY <1>2, <1>t DEF Scan, ScannerReads, ScannerLine, ScannerGivesUp, ScannerEnds
<1>3. ASSUME NEW s \in Streams, NEW line \in Lines, KubectlPrints(s, line)
      PROVE  OverlapInv'
    BY <1>3 DEF KubectlPrints
<1>4. CASE KubectlExits BY <1>4 DEF KubectlExits
<1>5. CASE Cancel BY <1>5 DEF Cancel
<1>6. CASE UNCHANGED vars BY <1>6 DEF vars
<1>. QED BY <1>1, <1>2, <1>3, <1>4, <1>5, <1>6 DEF Next, Finished

LEMMA StepAnnounced == TypeOK /\ AnnouncedInv /\ [Next]_vars => AnnouncedInv'
<1>. SUFFICES ASSUME TypeOK, AnnouncedInv, [Next]_vars PROVE AnnouncedInv'
    OBVIOUS
<1>. USE DEF AnnouncedInv, loopVars, scanVars
<1>t. pipe \in [Streams -> Seq(Lines)] /\ buffer \in [Streams -> Seq(Lines)]
    BY DEF TypeOK
<1>1. CASE Main
    BY <1>1 DEF Main, StartFails, StartKubectl, WaitReturns, Drain, WakeUp, StopSleeping,
       Announced
<1>2. ASSUME NEW s \in Streams, ScannerReads(s) PROVE AnnouncedInv'
  <2>1. Announced' = Announced
    BY <1>2 DEF ScannerReads, Announced
  <2>. QED BY <1>2, <1>t, <2>1 DEF ScannerReads
<1>3. ASSUME NEW s \in Streams, ScannerLine(s) PROVE AnnouncedInv'
  <2>1. /\ buffer[s] # <<>> /\ buffer' = [buffer EXCEPT ![s] = Tail(buffer[s])]
        /\ pipe' = pipe /\ Announced' = Announced
    BY <1>3 DEF ScannerLine, Announced
  <2>2. Head(buffer[s]) = "forwarding" => Announced
    BY <1>t, <2>1
  <2>3. readyOnce' => readyOnce \/ Head(buffer[s]) = "forwarding"
    BY <1>3 DEF ScannerLine, IsReadyOutput
  <2>4. \A i \in 1..Len(Tail(buffer[s])) :
            Tail(buffer[s])[i] = "forwarding" => Announced
    BY <1>t, <2>1
  <2>. QED BY <1>t, <2>1, <2>2, <2>3, <2>4
<1>4. ASSUME NEW s \in Streams, ScannerGivesUp(s) \/ ScannerEnds(s) PROVE AnnouncedInv'
  <2>1. Announced' = Announced
    BY <1>4 DEF ScannerGivesUp, ScannerEnds, Announced
  <2>2. /\ UNCHANGED <<pipe, readyOnce>>
        /\ buffer' = buffer \/ buffer' = [buffer EXCEPT ![s] = <<>>]
    BY <1>4 DEF ScannerGivesUp, ScannerEnds
  <2>3. CASE buffer' = buffer
    BY <2>1, <2>2, <2>3
  <2>4. CASE buffer' = [buffer EXCEPT ![s] = <<>>]
    <3>1. buffer'[s] = <<>> /\ \A r \in Streams \ {s} : buffer'[r] = buffer[r]
      BY <1>t, <2>4
    <3>2. Len(buffer'[s]) = 0
      BY <3>1
    <3>. QED BY <2>1, <2>2, <3>1, <3>2
  <2>. QED BY <2>2, <2>3, <2>4
<1>5. ASSUME NEW s \in Streams, NEW line \in Lines, KubectlPrints(s, line)
      PROVE  AnnouncedInv'
  <2>1. /\ pipe' = [pipe EXCEPT ![s] = Append(pipe[s], line)]
        /\ Announced => Announced'
        /\ line = "forwarding" => Announced'
        /\ UNCHANGED <<buffer, readyOnce>>
    BY <1>5 DEF KubectlPrints, Announced
  <2>2. \A i \in 1..Len(Append(pipe[s], line)) :
            Append(pipe[s], line)[i] = "forwarding" => Announced'
    BY <1>t, <2>1
  <2>. QED BY <1>t, <2>1, <2>2
<1>6. CASE KubectlExits BY <1>6 DEF KubectlExits, Announced
<1>7. CASE Cancel BY <1>7 DEF Cancel, Announced
<1>8. CASE UNCHANGED vars BY <1>8 DEF vars, Announced
<1>. QED BY <1>1, <1>2, <1>3, <1>4, <1>5, <1>6, <1>7, <1>8 DEF Next, Finished, Scan

LEMMA AttemptInv == Spec => [](TypeOK /\ OverlapInv /\ AnnouncedInv)
<1>1. Init => TypeOK /\ OverlapInv /\ AnnouncedInv
    BY InitTyped DEF Init, OverlapInv, AnnouncedInv
<1>2. TypeOK /\ OverlapInv /\ AnnouncedInv /\ [Next]_vars
         => (TypeOK /\ OverlapInv /\ AnnouncedInv)'
    BY StepTyped, StepOverlap, StepAnnounced
<1>. QED BY <1>1, <1>2, PTL DEF Spec

\* Every state of the loop is well typed: the attempt counter and the pause stay
\* natural numbers, and no scanner ever handles anything but a line of kubectl.
THEOREM TypeCorrect == Spec => []TypeOK
BY AttemptInv, PTL

\* However the main goroutine, the scanners and kubectl interleave, nothing of
\* an attempt survives it: the receives from scanDone see both scanners end.
THEOREM AttemptsIsolated == Spec => []AttemptsDoNotOverlap
<1>1. OverlapInv => AttemptsDoNotOverlap
    BY DEF OverlapInv, AttemptsDoNotOverlap
<1>. QED BY <1>1, AttemptInv, PTL

\* supervisor.ready is written only in an attempt whose own kubectl announced the
\* tunnel: a line left over from an earlier attempt never uses up the Once.
THEOREM ReadinessIsTrue == Spec => []ReadyIsTrue
<1>1. AnnouncedInv => ReadyIsTrue
    BY DEF AnnouncedInv, ReadyIsTrue, Announced
<1>. QED BY <1>1, AttemptInv, PTL

-----------------------------------------------------------------------------
(* The loop implements the contract Session relies on. *)

\* Only a command whose context can be cancelled ever is.
CancelInv == cancelled => Cancellable

\* The moves of the contract, on the state the refinement maps to.
LEMMA ContractMove ==
    ASSUME reconnect' = reconnect,
           \/ Mode' = Mode /\ readyFile' = readyFile
           \/ Mode = "dial" /\ Mode' = "listen" /\ readyFile' = readyFile
           \/ Mode = "listen" /\ Mode' = Mode /\ (readyFile' = readyFile \/ readyFile' = TRUE)
           \/ /\ Mode \in {"dial", "listen"} /\ Mode' = IF reconnect THEN "dial" ELSE "dead"
              /\ readyFile' = readyFile
           \/ Cancellable /\ Mode' = "dead" /\ readyFile' = readyFile
    PROVE  [Contract!ContractNext]_(Contract!contractVars)
BY DEF Contract!ContractNext, Contract!contractVars, Contract!Up, Contract!Report,
   Contract!Down, Contract!Stop

LEMMA StepContract ==
    ASSUME TypeOK, OverlapInv, AnnouncedInv, CancelInv, [Next]_vars
    PROVE  [Contract!ContractNext]_(Contract!contractVars)
<1>t. /\ reconnect \in BOOLEAN /\ readyFile \in BOOLEAN
      /\ scanner \in [Streams -> {"reading", "done"}]
      /\ buffer \in [Streams -> Seq(Lines)]
      /\ phase \in {"start", "running", "drain", "sleep", "exited"}
    BY DEF TypeOK
<1>1. CASE StartFails
  <2>1. /\ reconnect' = reconnect /\ readyFile' = readyFile
        /\ Mode = "dial"
        /\ \/ Mode' = Mode
           \/ (Cancellable \/ ~reconnect) /\ Mode' = "dead"
    BY <1>1, <1>t DEF StartFails, AfterAttempt, Mode, CancelInv
  <2>. QED BY <2>1, ContractMove
<1>2. CASE StartKubectl
  <2>1. reconnect' = reconnect /\ readyFile' = readyFile /\ Mode = "dial" /\ Mode' = "dial"
    BY <1>2 DEF StartKubectl, Mode
  <2>. QED BY <2>1, ContractMove
<1>3. CASE WaitReturns
  <2>1. reconnect' = reconnect /\ readyFile' = readyFile /\ Mode' = Mode
    BY <1>3 DEF WaitReturns, Mode
  <2>. QED BY <2>1, ContractMove
<1>4. CASE Drain
  <2>1. /\ reconnect' = reconnect /\ readyFile' = readyFile
        /\ Mode \in {"dial", "listen"}
        /\ \/ reconnect /\ Mode' = "dial"
           \/ (Cancellable \/ ~reconnect) /\ Mode' = "dead"
    BY <1>4, <1>t DEF Drain, AfterAttempt, Mode, CancelInv
  <2>. QED BY <2>1, ContractMove
<1>5. CASE WakeUp
  <2>1. reconnect' = reconnect /\ readyFile' = readyFile /\ Mode = "dial" /\ Mode' = "dial"
    BY <1>5 DEF WakeUp, Mode
  <2>. QED BY <2>1, ContractMove
<1>6. CASE StopSleeping
  <2>1. reconnect' = reconnect /\ readyFile' = readyFile /\ Cancellable /\ Mode' = "dead"
    BY <1>6 DEF StopSleeping, Mode, CancelInv
  <2>. QED BY <2>1, ContractMove
<1>7. ASSUME NEW s \in Streams, ScannerReads(s) \/ ScannerGivesUp(s) \/ ScannerEnds(s)
      PROVE  [Contract!ContractNext]_(Contract!contractVars)
  <2>1. reconnect' = reconnect /\ readyFile' = readyFile /\ Mode' = Mode
    BY <1>7 DEF ScannerReads, ScannerGivesUp, ScannerEnds, Mode, loopVars
  <2>. QED BY <2>1, ContractMove
\* A scanner with a buffered line belongs to the running attempt.
<1>8. ASSUME NEW s \in Streams, ScannerLine(s)
      PROVE  [Contract!ContractNext]_(Contract!contractVars)
  <2>1. reconnect' = reconnect /\ Mode' = Mode /\ buffer[s] # <<>>
    BY <1>8 DEF ScannerLine, Mode, loopVars
  <2>2. CASE readyFile' = readyFile
    BY <2>1, <2>2, ContractMove
  <2>3. CASE Head(buffer[s]) = "forwarding" /\ readyFile' = TRUE
    <3>1. Announced
      BY <1>t, <2>1, <2>3 DEF AnnouncedInv
    <3>2. phase \in {"running", "drain"}
      BY <1>t, <2>1 DEF OverlapInv
    <3>. QED BY <2>1, <2>3, <3>1, <3>2, ContractMove DEF Mode, Announced
  <2>. QED BY <1>8, <2>2, <2>3 DEF ScannerLine, IsReadyOutput
<1>9. ASSUME NEW s \in Streams, NEW line \in Lines, KubectlPrints(s, line)
      PROVE  [Contract!ContractNext]_(Contract!contractVars)
  <2>1. /\ reconnect' = reconnect /\ readyFile' = readyFile /\ phase' = phase
        /\ Announced => Announced'
    BY <1>9 DEF KubectlPrints, loopVars, Announced
  <2>2. phase \in {"running", "drain"}
    BY <1>9, <1>t DEF KubectlPrints, OverlapInv
  <2>3. Mode' = Mode \/ (Mode = "dial" /\ Mode' = "listen")
    BY <2>1, <2>2 DEF Mode, Announced
  <2>. QED BY <2>1, <2>3, ContractMove
<1>10. CASE KubectlExits \/ Cancel
  <2>1. reconnect' = reconnect /\ readyFile' = readyFile /\ Mode' = Mode
    BY <1>10 DEF KubectlExits, Cancel, Mode, loopVars
  <2>. QED BY <2>1, ContractMove
<1>11. CASE UNCHANGED vars
  <2>1. reconnect' = reconnect /\ readyFile' = readyFile /\ Mode' = Mode
    BY <1>11 DEF vars, Mode
  <2>. QED BY <2>1, ContractMove
<1>. QED BY <1>1, <1>2, <1>3, <1>4, <1>5, <1>6, <1>7, <1>8, <1>9, <1>10, <1>11
         DEF Next, Main, Scan, Finished

\* The loop with its goroutines is, step by step, the supervisor that Session
\* assumes: it reports only while it listens, an attempt that returns leads back to
\* dialling if it reconnects, and it ends only when it does not or is stopped.
THEOREM LoopImplementsContract == Spec => ImplementsContract
<1>1. Init => Contract!ContractInit
    BY DEF Init, Contract!ContractInit, Mode
<1>2. Init => CancelInv
    BY DEF Init, CancelInv
<1>3. CancelInv /\ [Next]_vars => CancelInv'
    BY DEF CancelInv, Next, Main, StartFails, StartKubectl, WaitReturns, Drain, WakeUp,
       StopSleeping, Scan, ScannerReads, ScannerLine, ScannerGivesUp, ScannerEnds, KubectlPrints,
       KubectlExits, Cancel, Finished, vars
<1>4. TypeOK /\ OverlapInv /\ AnnouncedInv /\ CancelInv /\ [Next]_vars
         => [Contract!ContractNext]_(Contract!contractVars)
    BY StepContract
<1>. QED BY <1>1, <1>2, <1>3, <1>4, AttemptInv, PTL
         DEF Spec, ImplementsContract, Contract!ContractSpec

-----------------------------------------------------------------------------
\* The pause stays between the initial one and the limit.
BackoffBounded == InitialBackoff <= backoff /\ backoff <= MaxBackoff

\* The pauses between attempts never leave their bounds and never get shorter,
\* whatever the limits and however many attempts are made.
THEOREM BackoffMonotone == Spec => [](BackoffBounded) /\ [][backoff <= backoff']_vars
<1>1. Init => TypeOK /\ BackoffBounded
    BY InitTyped, LoopAssumption DEF Init, BackoffBounded
<1>2. TypeOK /\ BackoffBounded /\ [Next]_vars => BackoffBounded' /\ backoff <= backoff'
  <2>. SUFFICES ASSUME TypeOK, BackoffBounded, [Next]_vars
                PROVE  BackoffBounded' /\ backoff <= backoff'
    OBVIOUS
  <2>t. backoff \in Nat /\ InitialBackoff \in Nat /\ MaxBackoff \in Nat
    BY LoopAssumption DEF TypeOK
  <2>1. CASE WakeUp
    BY <2>1, <2>t DEF WakeUp, NextBackoff, BackoffBounded
  <2>2. ASSUME backoff' = backoff PROVE BackoffBounded' /\ backoff <= backoff'
    BY <2>2, <2>t DEF BackoffBounded
  <2>3. WakeUp \/ backoff' = backoff
    BY DEF Next, Main, StartFails, StartKubectl, WaitReturns, Drain, StopSleeping, Scan,
       ScannerReads, ScannerLine, ScannerGivesUp, ScannerEnds, KubectlPrints, KubectlExits, Cancel,
       Finished, loopVars, vars
  <2>. QED BY <2>1, <2>2, <2>3
<1>. QED BY <1>1, <1>2, StepTyped, PTL DEF Spec

-----------------------------------------------------------------------------
(* The provers know no law of exponentiation.  The library counts the      *)
(* subsets of a finite set, and half of those of 1..(n+1) have n+1.        *)

LEMMA PowerOfTwo ==
    ASSUME NEW n \in Nat
    PROVE  2 ^ n \in Nat /\ 2 ^ (n + 1) = 2 * 2 ^ n
<1>. DEFINE S  == SUBSET (1..n)
            T  == {A \cup {n + 1} : A \in S}
            f  == [A \in S |-> A \cup {n + 1}]
<1>1. IsFiniteSet(1..n) /\ Cardinality(1..n) = n BY FS_Interval
<1>2. IsFiniteSet(1..(n + 1)) /\ Cardinality(1..(n + 1)) = n + 1 BY FS_Interval
<1>3. IsFiniteSet(S) /\ Cardinality(S) = 2 ^ n BY <1>1, FS_SUBSET
<1>4. Cardinality(SUBSET (1..(n + 1))) = 2 ^ (n + 1) BY <1>2, FS_SUBSET
<1>5. \A A \in S : n + 1 \notin A OBVIOUS
<1>6. SUBSET (1..(n + 1)) = S \cup T
  <2>1. ASSUME NEW B \in SUBSET (1..(n + 1)) PROVE B \in S \cup T
    <3>1. CASE n + 1 \in B
      <4>1. B \ {n + 1} \in S /\ B = (B \ {n + 1}) \cup {n + 1} BY <3>1
      <4>. QED BY <4>1
    <3>2. CASE n + 1 \notin B
      <4>1. B \in S BY <3>2
      <4>. QED BY <4>1
    <3>. QED BY <3>1, <3>2
  <2>2. ASSUME NEW B \in S \cup T PROVE B \in SUBSET (1..(n + 1)) OBVIOUS
  <2>. QED BY <2>1, <2>2
<1>7. S \cap T = {} BY <1>5
<1>8. ExistsBijection(S, T)
  <2>1. f \in [S -> T] OBVIOUS
  <2>2. ASSUME NEW A \in S, NEW B \in S, f[A] = f[B] PROVE A = B
    <3>1. A \cup {n + 1} = B \cup {n + 1} BY <2>2
    <3>2. \A x : x \in A <=> x \in B BY <1>5, <3>1
    <3>. QED BY <3>2
  <2>3. \A B \in T : \E A \in S : f[A] = B OBVIOUS
  <2>. HIDE DEF f, S, T
  <2>4. f \in Bijection(S, T)
    BY <2>1, <2>2, <2>3 DEF Bijection, Injection, Surjection, IsInjective
  <2>. QED BY <2>4 DEF ExistsBijection
<1>. HIDE DEF S, T
<1>9. IsFiniteSet(T) /\ Cardinality(T) = 2 ^ n BY <1>3, <1>8, FS_Bijection
<1>10. Cardinality({}) = 0 BY FS_EmptySet
<1>11. Cardinality(S) \in Nat BY <1>3, FS_CardinalityType
<1>12. Cardinality(S \cup T) = Cardinality(S) + Cardinality(T) - 0
  BY <1>3, <1>7, <1>9, <1>10, FS_Union
<1>13. 2 ^ (n + 1) = Cardinality(S \cup T) BY <1>4, <1>6
<1>14. 2 ^ n \in Nat BY <1>3, <1>11
<1>15. 2 ^ (n + 1) = 2 ^ n + 2 ^ n - 0 BY <1>3, <1>9, <1>12, <1>13
<1>. QED BY <1>14, <1>15

\* Pause n is the initial one doubled n-1 times and cut off at the limit, for
\* all limits and any number of attempts.
THEOREM BackoffIsExponential == Spec => []BackoffLaw
<1>. DEFINE doubled(n) == InitialBackoff * 2 ^ (n - 1)
            cut(d) == IF d < MaxBackoff THEN d ELSE MaxBackoff
<1>0. InitialBackoff \in Nat /\ MaxBackoff \in Nat /\ InitialBackoff <= MaxBackoff
  BY LoopAssumption
<1>1. Init => BackoffLaw
  <2>1. 2 ^ (1 - 1) = 1 OBVIOUS
  <2>2. InitialBackoff * 2 ^ (1 - 1) = InitialBackoff BY <1>0, <2>1
  <2>. QED BY <1>0, <2>2 DEF Init, BackoffLaw
<1>2. TypeOK /\ BackoffLaw /\ [Next]_vars => BackoffLaw'
  <2>. SUFFICES ASSUME TypeOK, BackoffLaw, [Next]_vars, attempt' < AttemptBound
                PROVE  backoff' = cut(doubled(attempt'))
    BY DEF BackoffLaw
  <2>1. attempt \in Nat \ {0} /\ AttemptBound \in Nat /\ backoff \in Nat
    BY LoopAssumption DEF TypeOK
  <2>2. CASE WakeUp
    <3>1. attempt < AttemptBound /\ attempt' = attempt + 1 BY <2>1, <2>2 DEF WakeUp
    <3>2. backoff = cut(doubled(attempt)) BY <3>1 DEF BackoffLaw
    <3>3. backoff' = NextBackoff(backoff) BY <2>2 DEF WakeUp
    <3>4. attempt - 1 \in Nat /\ (attempt - 1) + 1 = attempt' - 1 BY <2>1, <3>1
    <3>5. 2 ^ (attempt - 1) \in Nat /\ 2 ^ (attempt' - 1) = 2 * 2 ^ (attempt - 1)
      BY <3>4, PowerOfTwo
    <3>6. doubled(attempt) \in Nat /\ doubled(attempt') = 2 * doubled(attempt)
      BY <1>0, <3>5
    <3>. HIDE DEF doubled
    <3>. QED BY <1>0, <3>2, <3>3, <3>6 DEF NextBackoff
  <2>3. CASE ~WakeUp
    <3>1. backoff' = backoff /\ attempt' = attempt
      BY <2>3 DEF Next, Main, StartFails, StartKubectl, WaitReturns, Drain, StopSleeping,
         Scan, ScannerReads, ScannerLine, ScannerGivesUp, ScannerEnds, KubectlPrints, KubectlExits, Cancel,
         Finished, loopVars, vars
    <3>. QED BY <3>1 DEF BackoffLaw
  <2>. QED BY <2>2, <2>3
<1>. QED BY <1>1, <1>2, InitTyped, StepTyped, PTL DEF Spec
=============================================================================
