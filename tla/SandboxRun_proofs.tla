-------------------------- MODULE SandboxRun_proofs --------------------------
(***************************************************************************)
(* Theorems about one job of the runner, for any job, cap and bounds and   *)
(* whatever its child does: what runs was checked, a verdict is backed by  *)
(* the child's exit and output, and the log holds no whole secret.         *)
(***************************************************************************)
EXTENDS SandboxRun, SequenceTheorems, TLAPS

\* What has been checked of the job when its handler has come so far.
FixturesHold == request.mode = "replay" =>
                  \A i \in DOMAIN request.fixtures : request.fixtures[i] = "right"
Checked ==
    /\ pc = "fixtures" => /\ index \in 0 .. Len(request.fixtures)
                          /\ \A i \in 1 .. index : request.fixtures[i] = "right"
    /\ pc = "sandbox" => FixturesHold
    /\ pc = "copy" => /\ FixturesHold /\ request.ask <= MaxLocal /\ request.words # 0
                      /\ index \in 0 .. Len(request.bundle)
                      /\ \A i \in 1 .. index : request.bundle[i] \in {"file", "directory"}
    /\ pc = "running" \/ children # {} => Acceptable

\* Before its child starts a delivery has no output and no verdict.
Unbegun ==
    pc \in {"queued", "fixtures", "sandbox", "copy"} =>
        status = "none" /\ code = "none" /\ attempt \notin children

\* What was read of a stream is what was written before what is in the pipe,
\* and the capture is the beginning of it.
Flow(w, p, c, t) ==
    /\ Len(p) <= Len(w)
    /\ \A i \in 1 .. Len(p) : p[i] = w[Len(w) - Len(p) + i]
    /\ Len(c) = IF Len(w) - Len(p) < Cap THEN Len(w) - Len(p) ELSE Cap
    /\ \A i \in 1 .. Len(c) : c[i] = w[i]
    /\ t <=> (Len(w) - Len(p) > Cap)
Flows == \A s \in Stream : Flow(written[s], pipe[s], captured[s], truncated[s])

\* While the child runs nothing is said of it yet.
Undecided == pc = "running" => status = "none" /\ (attempt \in children => code = "none")

IInv ==
    /\ TypeOK /\ Checked /\ Unbegun /\ Flows /\ Undecided
    /\ VerdictIsBacked /\ LogIsScrubbed

----------------------------------------------------------------------------
(* Before the child.                                                       *)

\* Nothing written, nothing read.
LEMMA NothingFlows == Flow(<<>>, <<>>, <<>>, FALSE)
BY SandboxAssumption DEF Flow

LEMMA Begins == Init => IInv
<1> SUFFICES ASSUME Init PROVE IInv
  OBVIOUS
<1> USE SandboxAssumption
<1>1. TypeOK
  <2>1. /\ Empty \in [Stream -> Seq(Unit)]
        /\ Empty \in [Stream -> Seq(Seq(Unit \cup {"cut", "scrubbed"}))]
        /\ [s \in Stream |-> FALSE] \in [Stream -> BOOLEAN]
    BY DEF Empty
  <2>2. 1 \in 1 .. MaxStalls + 1
    OBVIOUS
  <2> QED BY <2>1, <2>2 DEF Init, TypeOK
<1>2. Checked /\ Unbegun /\ Undecided /\ VerdictIsBacked
  BY DEF Init, Checked, Unbegun, Undecided, VerdictIsBacked
<1>3. Flows
  <2>1. Flow(<<>>, <<>>, <<>>, FALSE)
    BY NothingFlows
  <2>2. /\ written = Empty /\ pipe = Empty /\ captured = Empty
        /\ truncated = [s \in Stream |-> FALSE]
    BY DEF Init
  <2> SUFFICES ASSUME NEW s \in Stream
               PROVE  Flow(written[s], pipe[s], captured[s], truncated[s])
    BY DEF Flows
  <2>3. written[s] = <<>> /\ pipe[s] = <<>> /\ captured[s] = <<>> /\ truncated[s] = FALSE
    BY <2>2 DEF Empty
  <2> QED BY <2>1, <2>3
<1>4. LogIsScrubbed
  BY DEF Init, LogIsScrubbed, Empty
<1> QED BY <1>1, <1>2, <1>3, <1>4 DEF IInv

\* Steps before the child leave what is known of output and log as it is.
LEMMA PreparesKeep ==
    ASSUME IInv, Start \/ VerifyFixture \/ EnterSandbox \/ CopyEntry
    PROVE  IInv'
<1> USE SandboxAssumption
<1>1. /\ UNCHANGED <<job, child, timedOut, output, status, log>>
      /\ pc \in {"queued", "fixtures", "sandbox", "copy"}
      /\ pc' \in {"fixtures", "sandbox", "copy", "failed"}
      /\ index' \in Nat /\ dirs' \subseteq 1 .. attempt
  <2>1. /\ index \in Nat /\ 0 \in Nat /\ index + 1 \in Nat
        /\ dirs \subseteq 1 .. attempt /\ dirs \cup {attempt} \subseteq 1 .. attempt
        /\ dirs \ {attempt} \subseteq 1 .. attempt
    BY DEF IInv, TypeOK
  <2>2. CASE Start
    BY <2>1, <2>2 DEF Start, Fail
  <2>3. CASE VerifyFixture
    BY <2>1, <2>3 DEF VerifyFixture, Fail
  <2>4. CASE EnterSandbox
    BY <2>1, <2>4 DEF EnterSandbox, Fail
  <2>5. CASE CopyEntry
    BY <2>1, <2>5 DEF CopyEntry, Fail, WithoutDir
  <2> QED BY <2>2, <2>3, <2>4, <2>5
<1>2. TypeOK'
  BY <1>1 DEF IInv, TypeOK, job, child, output
<1>3. Flows' /\ LogIsScrubbed'
  BY <1>1 DEF IInv, Flows, LogIsScrubbed, output
<1>4. Unbegun' /\ Undecided' /\ VerdictIsBacked'
  BY <1>1 DEF IInv, Unbegun, Undecided, VerdictIsBacked, job, child, output
<1>5. Checked'
  <2>1. /\ children' = children /\ request' = request
        /\ request.ask \in Nat /\ request.words \in Nat
        /\ request.fixtures \in Seq(FixtureCheck) /\ request.bundle \in Seq(Entry)
    BY <1>1 DEF job, child, IInv, TypeOK
  <2>2. Acceptable' = Acceptable
    BY <2>1 DEF Acceptable
  <2>3. CASE Start
    BY <2>1, <2>2, <2>3 DEF Start, Fail, IInv, Checked, FixturesHold
  <2>4. CASE VerifyFixture
    BY <2>1, <2>2, <2>4 DEF VerifyFixture, Fail, FixtureHolds, IInv, Checked, FixturesHold
  <2>5. CASE EnterSandbox
    BY <2>1, <2>2, <2>5 DEF EnterSandbox, Fail, IInv, Checked, FixturesHold
  <2>6. CASE CopyEntry
    BY <2>1, <2>2, <2>6 DEF CopyEntry, Fail, Copyable, IInv, Checked, FixturesHold
  <2> QED BY <2>3, <2>4, <2>5, <2>6
<1> QED BY <1>2, <1>3, <1>4, <1>5 DEF IInv

LEMMA SpawnKeeps == ASSUME IInv, Spawn PROVE IInv'
<1> USE SandboxAssumption
<1>1. /\ UNCHANGED <<job, index, told, code, held, timedOut, output, log>>
      /\ pc = "copy" /\ index = Len(request.bundle)
      /\ pc' \in {"running", "stdout"} /\ status' \in {"none", "crash"}
      /\ pc' = "running" => status' = "none"
      /\ children' \subseteq children \cup {attempt}
      /\ deaf' \subseteq deaf \cup {attempt} /\ dirs' \subseteq dirs
  BY DEF Spawn, WithoutDir, IInv, Unbegun
<1>2. TypeOK'
  BY <1>1 DEF IInv, TypeOK, job, output
<1>3. Flows' /\ LogIsScrubbed'
  BY <1>1 DEF IInv, Flows, LogIsScrubbed, output
<1>4. Unbegun' /\ Undecided' /\ VerdictIsBacked'
  BY <1>1 DEF IInv, Unbegun, Undecided, VerdictIsBacked
<1>5. Acceptable
  <2>1. /\ request.ask \in Nat /\ request.words \in Nat
        /\ request.fixtures \in Seq(FixtureCheck) /\ request.bundle \in Seq(Entry)
    BY DEF IInv, TypeOK
  <2> QED BY <1>1, <2>1 DEF IInv, Checked, FixturesHold, Acceptable
<1>6. Checked'
  BY <1>1, <1>5 DEF Checked, Acceptable, job
<1> QED BY <1>2, <1>3, <1>4, <1>6 DEF IInv

----------------------------------------------------------------------------
(* The child.                                                              *)

\* What is kept of a text: its beginning.
LEMMA UpToKeeps ==
    ASSUME NEW T, NEW text \in Seq(T), NEW n \in Nat
    PROVE  /\ UpTo(text, n) \in Seq(T)
           /\ Len(UpTo(text, n)) = IF Len(text) < n THEN Len(text) ELSE n
           /\ \A i \in 1 .. Len(UpTo(text, n)) : UpTo(text, n)[i] = text[i]
<1>1. CASE Len(text) < n
  BY <1>1 DEF UpTo
<1>2. CASE ~(Len(text) < n)
  BY <1>2 DEF UpTo
<1> QED BY <1>1, <1>2

\* A capture does not outgrow the cap.
LEMMA FlowFits ==
    ASSUME Cap \in Nat, NEW w \in Seq(Unit), NEW p \in Seq(Unit), NEW c \in Seq(Unit),
           NEW t, Flow(w, p, c, t)
    PROVE  Len(c) \in Nat /\ Len(c) <= Cap
BY DEF Flow

\* A unit more is written, and in the pipe.
LEMMA FlowWritten ==
    ASSUME Cap \in Nat, NEW w \in Seq(Unit), NEW p \in Seq(Unit), NEW c \in Seq(Unit), NEW t,
           Flow(w, p, c, t), NEW u \in Unit
    PROVE  Flow(Append(w, u), Append(p, u), c, t)
<1> DEFINE w1 == Append(w, u)
           p1 == Append(p, u)
           lw == Len(w)
           lp == Len(p)
           lc == Len(c)
<1>1. /\ lw \in Nat /\ lp \in Nat /\ lc \in Nat
      /\ Len(w1) = lw + 1 /\ Len(p1) = lp + 1
      /\ \A i \in 1 .. lw : w1[i] = w[i]
      /\ \A i \in 1 .. lp : p1[i] = p[i]
      /\ w1[lw + 1] = u /\ p1[lp + 1] = u
  OBVIOUS
<1>2. /\ lp <= lw /\ \A i \in 1 .. lp : p[i] = w[lw - lp + i]
      /\ lc = IF lw - lp < Cap THEN lw - lp ELSE Cap
      /\ \A i \in 1 .. lc : c[i] = w[i]
      /\ t <=> (lw - lp > Cap)
  BY DEF Flow
<1> HIDE DEF w1, p1, lw, lp, lc
<1>3. lc <= lw
  BY <1>1, <1>2
<1>4. \A i \in 1 .. lp + 1 : p1[i] = w1[lw + 1 - (lp + 1) + i]
  <2> SUFFICES ASSUME NEW i \in 1 .. lp + 1
               PROVE  p1[i] = w1[lw + 1 - (lp + 1) + i]
    OBVIOUS
  <2>1. CASE i \in 1 .. lp
    <3>1. lw - lp + i \in 1 .. lw /\ lw + 1 - (lp + 1) + i = lw - lp + i
      BY <1>1, <1>2, <2>1
    <3> QED BY <1>1, <1>2, <2>1, <3>1
  <2>2. CASE i = lp + 1
    <3>1. lw + 1 - (lp + 1) + i = lw + 1
      BY <1>1, <2>2
    <3> QED BY <1>1, <2>2, <3>1
  <2> QED BY <1>1, <2>1, <2>2
<1>5. \A i \in 1 .. lc : c[i] = w1[i]
  BY <1>1, <1>2, <1>3
<1>6. lw + 1 - (lp + 1) = lw - lp /\ lp + 1 <= lw + 1
  BY <1>1, <1>2
<1>7. /\ Len(p1) <= Len(w1)
      /\ \A i \in 1 .. Len(p1) : p1[i] = w1[Len(w1) - Len(p1) + i]
      /\ lc = IF Len(w1) - Len(p1) < Cap THEN Len(w1) - Len(p1) ELSE Cap
      /\ t <=> (Len(w1) - Len(p1) > Cap)
  BY <1>1, <1>2, <1>4, <1>6
<1> QED BY <1>5, <1>7 DEF Flow, w1, p1, lc

\* A chunk leaves the pipe for the capture.
LEMMA FlowRead ==
    ASSUME Cap \in Nat, NEW w \in Seq(Unit), NEW p \in Seq(Unit), NEW c \in Seq(Unit),
           NEW t \in BOOLEAN, Flow(w, p, c, t), NEW n \in 1 .. Len(p)
    PROVE  /\ Kept(c, SubSeq(p, 1, n)) \in Seq(Unit)
           /\ SubSeq(p, n + 1, Len(p)) \in Seq(Unit)
           /\ Flow(w, SubSeq(p, n + 1, Len(p)), Kept(c, SubSeq(p, 1, n)),
                   t \/ Len(c) + n > Cap)
<1> DEFINE k == SubSeq(p, 1, n)
           rest == SubSeq(p, n + 1, Len(p))
           all == c \o k
           kept == Kept(c, k)
           lw == Len(w)
           lp == Len(p)
           lc == Len(c)
           lk == Len(kept)
<1>1. /\ k \in Seq(Unit) /\ Len(k) = n /\ \A i \in 1 .. n : k[i] = p[i]
      /\ rest \in Seq(Unit) /\ Len(rest) = lp - n
      /\ \A i \in 1 .. lp - n : rest[i] = p[n + i]
  OBVIOUS
<1>2. /\ all \in Seq(Unit) /\ Len(all) = lc + n
      /\ \A i \in 1 .. lc : all[i] = c[i]
      /\ \A i \in 1 .. n : all[lc + i] = k[i]
  <2> HIDE DEF k
  <2>1. c \in Seq(Unit) /\ k \in Seq(Unit) /\ n \in Nat
    BY <1>1
  <2>2. /\ all \in Seq(Unit) /\ Len(all) = Len(c) + Len(k)
        /\ \A i \in 1 .. Len(c) : all[i] = c[i]
        /\ \A i \in 1 .. Len(k) : all[Len(c) + i] = k[i]
    BY <2>1
  <2> QED BY <1>1, <2>2
<1>3. /\ kept \in Seq(Unit)
      /\ lk = IF lc + n < Cap THEN lc + n ELSE Cap
      /\ \A i \in 1 .. lk : kept[i] = all[i]
  <2> HIDE DEF k, all
  <2>1. kept = UpTo(all, Cap)
    BY DEF Kept, all
  <2>2. lc + n \in Nat
    OBVIOUS
  <2> QED BY <1>2, <2>1, <2>2, UpToKeeps
<1>4. lw \in Nat /\ lp \in Nat /\ lc \in Nat /\ n \in 1 .. lp /\ lk \in Nat
  BY <1>3
<1>5. /\ lp <= lw /\ \A i \in 1 .. lp : p[i] = w[lw - lp + i]
      /\ lc = IF lw - lp < Cap THEN lw - lp ELSE Cap
      /\ \A i \in 1 .. lc : c[i] = w[i]
      /\ t <=> (lw - lp > Cap)
  BY DEF Flow
<1> HIDE DEF k, rest, all, kept, lw, lp, lc, lk
<1>6. \A i \in 1 .. lk : kept[i] = w[i]
  <2> SUFFICES ASSUME NEW i \in 1 .. lk PROVE kept[i] = w[i]
    OBVIOUS
  <2>1. CASE i <= lc
    <3>1. i \in 1 .. lc
      BY <1>4, <2>1
    <3> QED BY <1>2, <1>3, <1>5, <3>1
  <2>2. CASE i > lc
    <3>1. i - lc \in 1 .. n /\ i = lc + (i - lc) /\ lc = lw - lp
      BY <1>3, <1>4, <1>5, <2>2
    <3>2. PICK j \in 1 .. n : i = lc + j
      BY <3>1
    <3>3. j \in 1 .. lp
      BY <1>4, <3>2
    <3>4. kept[i] = all[lc + j] /\ all[lc + j] = k[j] /\ k[j] = p[j]
      BY <1>1, <1>2, <1>3, <3>2
    <3>5. p[j] = w[lw - lp + j]
      BY <1>5, <3>3
    <3> QED BY <3>1, <3>2, <3>4, <3>5
  <2> QED BY <1>4, <2>1, <2>2
<1>7. \A i \in 1 .. lp - n : rest[i] = w[lw - (lp - n) + i]
  <2> SUFFICES ASSUME NEW i \in 1 .. lp - n PROVE rest[i] = w[lw - (lp - n) + i]
    OBVIOUS
  <2>1. n + i \in 1 .. lp /\ lw - lp + (n + i) = lw - (lp - n) + i
    BY <1>4
  <2> QED BY <1>1, <1>5, <2>1
<1>8. /\ lp - n <= lw
      /\ lk = IF lw - (lp - n) < Cap THEN lw - (lp - n) ELSE Cap
      /\ (t \/ lc + n > Cap) <=> (lw - (lp - n) > Cap)
  <2>1. CASE t
    <3>1. lw - lp > Cap /\ lc = Cap
      BY <1>5, <2>1
    <3>2. lw - (lp - n) > Cap /\ lp - n <= lw /\ lk = Cap
      BY <1>3, <1>4, <1>5, <3>1
    <3> QED BY <1>4, <2>1, <3>2
  <2>2. CASE ~t
    BY <1>3, <1>4, <1>5, <2>2
  <2> QED BY <2>1, <2>2
<1>9. Flow(w, rest, kept, t \/ lc + n > Cap)
  BY <1>1, <1>6, <1>7, <1>8 DEF Flow, lw, lk
<1> QED BY <1>1, <1>3, <1>9 DEF k, rest, kept, lp, lc

\* Steps of the child that touch neither output nor log.
LEMMA WriteKeeps == ASSUME IInv, NEW s \in Stream, NEW u \in Unit, Write(s, u) PROVE IInv'
<1> USE SandboxAssumption
<1>1. /\ pc = "running" /\ pc' = pc
      /\ written' = [written EXCEPT ![s] = Append(@, u)]
      /\ pipe' = [pipe EXCEPT ![s] = Append(@, u)]
      /\ UNCHANGED <<request, attempt, index, dirs, children, deaf, told, code, held>>
      /\ UNCHANGED <<timedOut, captured, truncated, status, log>>
  BY DEF Write, job, child
<1>2. /\ status = "none" /\ written \in [Stream -> Seq(Unit)] /\ pipe \in [Stream -> Seq(Unit)]
      /\ captured \in [Stream -> Seq(Unit)] /\ Cap \in Nat
  BY <1>1 DEF IInv, Undecided, TypeOK
<1>3. TypeOK'
  <2>1. /\ Append(written[s], u) \in Seq(Unit) /\ Append(pipe[s], u) \in Seq(Unit)
    BY <1>2
  <2>2. written' \in [Stream -> Seq(Unit)] /\ pipe' \in [Stream -> Seq(Unit)]
    BY <1>1, <1>2, <2>1
  <2> QED BY <1>1, <2>2 DEF IInv, TypeOK
<1>4. Flows'
  <2> SUFFICES ASSUME NEW q \in Stream
               PROVE  Flow(written'[q], pipe'[q], captured'[q], truncated'[q])
    BY DEF Flows
  <2>1. Flow(written[q], pipe[q], captured[q], truncated[q])
    BY DEF IInv, Flows
  <2>2. CASE q = s
    <3>1. Flow(Append(written[q], u), Append(pipe[q], u), captured[q], truncated[q])
      BY <1>2, <2>1, FlowWritten
    <3> QED BY <1>1, <1>2, <2>2, <3>1
  <2>3. CASE q # s
    <3>1. /\ written'[q] = written[q] /\ pipe'[q] = pipe[q]
          /\ captured'[q] = captured[q] /\ truncated'[q] = truncated[q]
      BY <1>1, <1>2, <2>3
    <3> QED BY <2>1, <3>1
  <2> QED BY <2>2, <2>3
<1>5. Checked' /\ Unbegun' /\ Undecided'
  BY <1>1 DEF IInv, Checked, Unbegun, Undecided, Acceptable
<1>6. VerdictIsBacked' /\ LogIsScrubbed'
  BY <1>1, <1>2 DEF IInv, VerdictIsBacked, LogIsScrubbed
<1> QED BY <1>3, <1>4, <1>5, <1>6 DEF IInv

LEMMA DataKeeps == ASSUME IInv, NEW s \in Stream, NEW n, Data(s, n) PROVE IInv'
<1> USE SandboxAssumption
<1>1. /\ pc = "running" /\ pc' = pc /\ n \in 1 .. Len(pipe[s])
      /\ captured' = [captured EXCEPT ![s] = Kept(@, SubSeq(pipe[s], 1, n))]
      /\ truncated' = [truncated EXCEPT ![s] = @ \/ Len(captured[s]) + n > Cap]
      /\ pipe' = [pipe EXCEPT ![s] = SubSeq(@, n + 1, Len(@))]
      /\ UNCHANGED <<request, attempt, index, dirs, children, deaf, told, code, held>>
      /\ UNCHANGED <<timedOut, written, status, log>>
  BY DEF Data, job, child
<1>2. /\ status = "none" /\ written \in [Stream -> Seq(Unit)] /\ pipe \in [Stream -> Seq(Unit)]
      /\ captured \in [Stream -> Seq(Unit)] /\ truncated \in [Stream -> BOOLEAN]
      /\ Cap \in Nat
  BY <1>1 DEF IInv, Undecided, TypeOK
<1>3. /\ written[s] \in Seq(Unit) /\ pipe[s] \in Seq(Unit) /\ captured[s] \in Seq(Unit)
      /\ truncated[s] \in BOOLEAN
      /\ Flow(written[s], pipe[s], captured[s], truncated[s])
  BY <1>2 DEF IInv, Flows
<1>4. /\ Kept(captured[s], SubSeq(pipe[s], 1, n)) \in Seq(Unit)
      /\ SubSeq(pipe[s], n + 1, Len(pipe[s])) \in Seq(Unit)
      /\ Flow(written[s], SubSeq(pipe[s], n + 1, Len(pipe[s])),
              Kept(captured[s], SubSeq(pipe[s], 1, n)),
              truncated[s] \/ Len(captured[s]) + n > Cap)
  BY <1>1, <1>2, <1>3, FlowRead
<1>5. /\ captured'[s] = Kept(captured[s], SubSeq(pipe[s], 1, n))
      /\ truncated'[s] = (truncated[s] \/ Len(captured[s]) + n > Cap)
      /\ pipe'[s] = SubSeq(pipe[s], n + 1, Len(pipe[s]))
      /\ written'[s] = written[s]
  BY <1>1, <1>2
<1>6. TypeOK'
  <2>1. captured' \in [Stream -> Seq(Unit)] /\ pipe' \in [Stream -> Seq(Unit)]
    BY <1>1, <1>2, <1>4
  <2>2. truncated' \in [Stream -> BOOLEAN]
    BY <1>1, <1>2
  <2> QED BY <1>1, <2>1, <2>2 DEF IInv, TypeOK
<1>7. Flows'
  <2> SUFFICES ASSUME NEW q \in Stream
               PROVE  Flow(written'[q], pipe'[q], captured'[q], truncated'[q])
    BY DEF Flows
  <2>1. CASE q = s
    BY <1>4, <1>5, <2>1
  <2>2. CASE q # s
    <3>1. /\ written'[q] = written[q] /\ pipe'[q] = pipe[q]
          /\ captured'[q] = captured[q] /\ truncated'[q] = truncated[q]
      BY <1>1, <1>2, <2>2
    <3> QED BY <3>1 DEF IInv, Flows
  <2> QED BY <2>1, <2>2
<1>8. Checked' /\ Unbegun' /\ Undecided'
  BY <1>1 DEF IInv, Checked, Unbegun, Undecided, Acceptable
<1>9. VerdictIsBacked' /\ LogIsScrubbed'
  BY <1>1, <1>2 DEF IInv, VerdictIsBacked, LogIsScrubbed
<1> QED BY <1>6, <1>7, <1>8, <1>9 DEF IInv

\* The child or what it left behind goes; a delivery that is over keeps its
\* verdict, since a verdict of zero was given with the child gone.
LEMMA LeavingKeeps ==
    ASSUME IInv, Exit \/ LetGo \/ \E a \in 1 .. MaxStalls + 1 : LateExit(a)
    PROVE  IInv'
<1> USE SandboxAssumption
<1>1. /\ UNCHANGED <<request, attempt, pc, index, dirs, deaf, told>>
      /\ UNCHANGED <<timedOut, output, status, log>>
      /\ children' \subseteq children
      /\ code' \in {"none", "zero", "nonzero", "signal"}
      /\ held' \in BOOLEAN
      /\ code' = code \/ (pc = "running" /\ attempt \notin children')
  <2>1. code \in {"none", "zero", "nonzero", "signal"} /\ held \in BOOLEAN
    BY DEF IInv, TypeOK
  <2>2. CASE Exit
    BY <2>1, <2>2 DEF Exit, job
  <2>3. CASE LetGo
    BY <2>1, <2>3 DEF LetGo, job
  <2>4. CASE \E a \in 1 .. MaxStalls + 1 : LateExit(a)
    BY <2>1, <2>4 DEF LateExit, job
  <2> QED BY <2>2, <2>3, <2>4
<1>2. TypeOK'
  BY <1>1 DEF IInv, TypeOK, output
<1>3. Checked' /\ Unbegun' /\ Undecided'
  BY <1>1 DEF IInv, Checked, FixturesHold, Unbegun, Undecided, Acceptable
<1>4. Flows' /\ LogIsScrubbed'
  BY <1>1 DEF IInv, Flows, LogIsScrubbed, output
<1>5. VerdictIsBacked'
  BY <1>1 DEF IInv, Undecided, VerdictIsBacked, output
<1> QED BY <1>2, <1>3, <1>4, <1>5 DEF IInv

\* With the pipe empty the capture is all that was written, up to the cap.
LEMMA CaptureIsWhole ==
    ASSUME Cap \in Nat, NEW w \in Seq(Unit), NEW c \in Seq(Unit),
           NEW t \in BOOLEAN, Flow(w, <<>>, c, t)
    PROVE  c = UpTo(w, Cap) /\ t = (Len(w) > Cap)
<1>1. /\ Len(w) \in Nat /\ Len(<<>>) = 0
      /\ Len(c) = IF Len(w) - 0 < Cap THEN Len(w) - 0 ELSE Cap
      /\ \A i \in 1 .. Len(c) : c[i] = w[i]
      /\ t <=> (Len(w) - 0 > Cap)
  BY DEF Flow
<1>2. /\ UpTo(w, Cap) \in Seq(Unit)
      /\ Len(UpTo(w, Cap)) = IF Len(w) < Cap THEN Len(w) ELSE Cap
      /\ \A i \in 1 .. Len(UpTo(w, Cap)) : UpTo(w, Cap)[i] = w[i]
  BY UpToKeeps
<1>3. Len(c) = Len(UpTo(w, Cap))
  BY <1>1, <1>2
<1>4. \A i \in 1 .. Len(c) : c[i] = UpTo(w, Cap)[i]
  BY <1>1, <1>2, <1>3
<1>5. c = UpTo(w, Cap)
  BY <1>2, <1>3, <1>4, SeqEqual
<1> QED BY <1>1, <1>5

LEMMA CloseKeeps == ASSUME IInv, Close PROVE IInv'
<1> USE SandboxAssumption
<1>1. /\ pc = "running" /\ pc' = "stdout" /\ attempt \notin children
      /\ \A s \in Stream : pipe[s] = <<>>
      /\ status' = Verdict /\ dirs' \subseteq dirs
      /\ UNCHANGED <<request, attempt, index, children, deaf, told, code, held>>
      /\ UNCHANGED <<timedOut, written, pipe, captured, truncated, log>>
  BY DEF Close, Finished, CloseSeen, ExitSeen, WithoutDir, job, child, output
<1>2. status' \in {"none", "ok", "exit_nonzero", "timeout", "crash"}
  <2>1. code \in {"none", "zero", "nonzero", "signal"} /\ timedOut \in BOOLEAN
    BY DEF IInv, TypeOK
  <2> QED BY <1>1, <2>1 DEF Verdict
<1>3. TypeOK'
  BY <1>1, <1>2 DEF IInv, TypeOK
<1>4. Checked' /\ Unbegun' /\ Undecided'
  BY <1>1 DEF IInv, Checked, Unbegun, Undecided, Acceptable
<1>5. Flows' /\ LogIsScrubbed'
  BY <1>1 DEF IInv, Flows, LogIsScrubbed
<1>6. status' = "ok" => code = "zero"
  BY <1>1 DEF Verdict
<1>7. ASSUME NEW s \in Stream
      PROVE  captured[s] = UpTo(written[s], Cap) /\ truncated[s] = (Len(written[s]) > Cap)
  <2>1. Flow(written[s], <<>>, captured[s], truncated[s])
    BY <1>1 DEF IInv, Flows
  <2>2. written[s] \in Seq(Unit) /\ captured[s] \in Seq(Unit) /\ Cap \in Nat
        /\ truncated[s] \in BOOLEAN
    BY DEF IInv, TypeOK
  <2> QED BY <2>1, <2>2, CaptureIsWhole
<1>8. VerdictIsBacked'
  BY <1>1, <1>6, <1>7 DEF VerdictIsBacked
<1> QED BY <1>3, <1>4, <1>5, <1>8 DEF IInv

LEMMA KillTimerKeeps == ASSUME IInv, KillTimer PROVE IInv'
<1> USE SandboxAssumption
<1>1. /\ pc = "running" /\ status = "none"
      /\ timedOut' = TRUE /\ pc' \in {"running", "stdout"}
      /\ told' \subseteq 1 .. attempt /\ dirs' \subseteq dirs
      /\ status' \in {"none", "timeout"} /\ (pc' = "running" => status' = "none")
      /\ UNCHANGED <<request, attempt, index, children, deaf, code, held, output, log>>
  BY SMTT(60), ZenonT(60) DEF KillTimer, WithoutDir, job, IInv, TypeOK, Undecided
<1>2. TypeOK'
  BY <1>1 DEF IInv, TypeOK, output
<1>3. Checked' /\ Unbegun' /\ Undecided'
  BY <1>1 DEF IInv, Checked, Unbegun, Undecided, Acceptable
<1>4. Flows' /\ LogIsScrubbed'
  BY <1>1 DEF IInv, Flows, LogIsScrubbed, output
<1>5. VerdictIsBacked'
  BY <1>1 DEF VerdictIsBacked
<1> QED BY <1>2, <1>3, <1>4, <1>5 DEF IInv

----------------------------------------------------------------------------
(* After the child.                                                        *)

\* Scrubbing keeps the length of a text and leaves no secret in it: a head
\* before a tail is marked where it stands.
LEMMA ScrubbedIsClean ==
    ASSUME NEW text \in Seq(Unit \cup {"cut"})
    PROVE  /\ Scrubbed(text) \in Seq(Unit \cup {"cut", "scrubbed"})
           /\ Len(Scrubbed(text)) = Len(text)
           /\ \A i \in DOMAIN Scrubbed(text) : ~SecretAt(Scrubbed(text), i)
<1> DEFINE clean == Scrubbed(text)
<1>1. /\ DOMAIN clean = 1 .. Len(text) /\ Len(text) \in Nat
      /\ \A i \in 1 .. Len(text) :
            clean[i] = IF SecretAt(text, i) \/ SecretAt(text, i - 1) THEN "scrubbed" ELSE text[i]
  BY DEF Scrubbed
<1>2. clean \in Seq(Unit \cup {"cut", "scrubbed"})
  <2>1. \A i \in 1 .. Len(text) :
          (IF SecretAt(text, i) \/ SecretAt(text, i - 1) THEN "scrubbed" ELSE text[i])
             \in Unit \cup {"cut", "scrubbed"}
    OBVIOUS
  <2>2. clean \in [1 .. Len(text) -> Unit \cup {"cut", "scrubbed"}]
    BY <2>1 DEF Scrubbed
  <2> QED BY <1>1, <2>2
<1>3. Len(clean) = Len(text)
  BY <1>1, <1>2
<1> HIDE DEF clean
<1>4. ASSUME NEW i \in 1 .. Len(text), SecretAt(clean, i)
      PROVE  FALSE
  <2>1. i + 1 \in 1 .. Len(text) /\ clean[i] = "head" /\ clean[i + 1] = "tail"
    BY <1>1, <1>3, <1>4 DEF SecretAt
  <2>2. ~SecretAt(text, i) /\ text[i] = "head"
    BY <1>1, <2>1
  <2>3. text[i + 1] = "tail"
    BY <1>1, <2>1
  <2> QED BY <1>1, <2>1, <2>2, <2>3 DEF SecretAt
<1> QED BY <1>1, <1>2, <1>3, <1>4 DEF clean

LEMMA ArtifactFits ==
    ASSUME IInv, NEW s \in Stream
    PROVE  /\ Artifact(s) \in Seq(Unit \cup {"cut", "scrubbed"})
           /\ Len(Artifact(s)) <= Cap + 1
           /\ \A i \in DOMAIN Artifact(s) : ~SecretAt(Artifact(s), i)
<1> DEFINE text == IF truncated[s] THEN captured[s] \o <<"cut">> ELSE captured[s]
<1>1. /\ written[s] \in Seq(Unit) /\ pipe[s] \in Seq(Unit) /\ captured[s] \in Seq(Unit)
      /\ Cap \in Nat
      /\ Flow(written[s], pipe[s], captured[s], truncated[s])
  BY SandboxAssumption DEF IInv, TypeOK, Flows
<1>2. Len(captured[s]) \in Nat /\ Len(captured[s]) <= Cap
  BY <1>1, FlowFits
<1>3. text \in Seq(Unit \cup {"cut"}) /\ Len(text) <= Cap + 1
  <2>1. /\ captured[s] \in Seq(Unit \cup {"cut"})
        /\ <<"cut">> \in Seq(Unit \cup {"cut"}) /\ Len(<<"cut">>) = 1
    BY <1>1
  <2>2. /\ captured[s] \o <<"cut">> \in Seq(Unit \cup {"cut"})
        /\ Len(captured[s] \o <<"cut">>) = Len(captured[s]) + 1
    BY <2>1
  <2>3. CASE truncated[s]
    BY <1>1, <1>2, <2>2, <2>3
  <2>4. CASE ~truncated[s]
    BY <1>1, <1>2, <2>1, <2>4
  <2> QED BY <2>3, <2>4
<1> HIDE DEF text
<1> QED BY <1>3, ScrubbedIsClean DEF Artifact, text

LEMMA PersistKeeps ==
    ASSUME IInv, NEW s \in Stream, NEW next \in {"stderr", "done"},
           Persist(s, s, next)
    PROVE  IInv'
<1> USE SandboxAssumption
<1>1. /\ pc = s /\ pc' \in {next, "failed"}
      /\ log' = log \/ log' = [log EXCEPT ![s] = Append(@, Artifact(s))]
      /\ UNCHANGED <<request, attempt, index, dirs, children, deaf, told, code, held>>
      /\ UNCHANGED <<timedOut, written, pipe, captured, truncated, status>>
  BY DEF Persist, job, child, output
<1>2. log \in [Stream -> Seq(Seq(Unit \cup {"cut", "scrubbed"}))] /\ LogIsScrubbed
  BY DEF IInv, TypeOK
<1>3. log' \in [Stream -> Seq(Seq(Unit \cup {"cut", "scrubbed"}))] /\ LogIsScrubbed'
  <2>1. CASE log' = log
    BY <1>2, <2>1 DEF LogIsScrubbed
  <2>2. CASE log' = [log EXCEPT ![s] = Append(@, Artifact(s))]
    <3>1. log[s] \in Seq(Seq(Unit \cup {"cut", "scrubbed"}))
      BY <1>2
    <3>2. /\ Artifact(s) \in Seq(Unit \cup {"cut", "scrubbed"})
          /\ Len(Artifact(s)) <= Cap + 1
          /\ \A i \in DOMAIN Artifact(s) : ~SecretAt(Artifact(s), i)
      BY ArtifactFits
    <3> DEFINE more == Append(log[s], Artifact(s))
               texts == Seq(Unit \cup {"cut", "scrubbed"})
    <3> HIDE DEF texts
    <3>3. /\ more \in Seq(texts) /\ DOMAIN more = 1 .. Len(log[s]) + 1
          /\ DOMAIN log[s] = 1 .. Len(log[s]) /\ Len(log[s]) \in Nat
          /\ \A k \in 1 .. Len(log[s]) : more[k] = log[s][k]
          /\ more[Len(log[s]) + 1] = Artifact(s)
      BY <3>1, <3>2 DEF texts
    <3> HIDE DEF more
    <3>4. log' \in [Stream -> Seq(texts)] /\ log'[s] = more
          /\ \A q \in Stream : q # s => log'[q] = log[q]
      BY <1>2, <2>2, <3>3 DEF more, texts
    <3>5. ASSUME NEW q \in Stream, NEW k \in DOMAIN log'[q]
          PROVE  /\ Len(log'[q][k]) <= Cap + 1
                 /\ \A i \in DOMAIN log'[q][k] : ~SecretAt(log'[q][k], i)
      <4>1. CASE q = s /\ k = Len(log[s]) + 1
        BY <3>2, <3>3, <3>4, <4>1
      <4>2. CASE q # s \/ k # Len(log[s]) + 1
        <5>1. k \in DOMAIN log[q] /\ log'[q][k] = log[q][k]
          BY <3>3, <3>4, <3>5, <4>2
        <5> QED BY <1>2, <5>1 DEF LogIsScrubbed
      <4> QED BY <4>1, <4>2
    <3> QED BY <3>4, <3>5 DEF LogIsScrubbed, texts
  <2> QED BY <1>1, <2>1, <2>2
<1>4. TypeOK'
  BY <1>1, <1>3 DEF IInv, TypeOK
<1>5. pc \in {"stdout", "stderr"}
  BY <1>1 DEF Stream
<1>6. Checked' /\ Unbegun' /\ Undecided'
  BY <1>1, <1>5 DEF IInv, Checked, Unbegun, Undecided, Acceptable
<1>7. Flows' /\ VerdictIsBacked'
  BY <1>1 DEF IInv, Flows, VerdictIsBacked
<1> QED BY <1>3, <1>4, <1>6, <1>7 DEF IInv

\* The job is delivered again with nothing known but the log.
LEMMA CrashKeeps == ASSUME IInv, Crash PROVE IInv'
<1> USE SandboxAssumption
<1>1. /\ pc' = "queued" /\ attempt' = attempt + 1 /\ attempt <= MaxStalls
      /\ code' = "none" /\ held' = FALSE /\ timedOut' = FALSE
      /\ written' = Empty /\ pipe' = Empty /\ captured' = Empty
      /\ truncated' = [s \in Stream |-> FALSE] /\ status' = "none"
      /\ UNCHANGED <<request, index, dirs, children, deaf, told, log>>
  BY DEF Crash
<1>2. /\ attempt \in 1 .. MaxStalls /\ attempt' \in 1 .. MaxStalls + 1
      /\ 1 .. attempt \subseteq 1 .. attempt' /\ children \subseteq 1 .. attempt
      /\ attempt' \notin 1 .. attempt
  BY <1>1 DEF IInv, TypeOK
<1>3. TypeOK'
  <2>1. Empty \in [Stream -> Seq(Unit)] /\ [s \in Stream |-> FALSE] \in [Stream -> BOOLEAN]
    BY DEF Empty
  <2>2. /\ dirs' \subseteq 1 .. attempt' /\ children' \subseteq 1 .. attempt'
        /\ deaf' \subseteq 1 .. attempt' /\ told' \subseteq 1 .. attempt'
    <3>1. dirs \subseteq 1 .. attempt /\ deaf \subseteq 1 .. attempt /\ told \subseteq 1 .. attempt
      BY DEF IInv, TypeOK
    <3> QED BY <1>1, <1>2, <3>1
  <2> QED BY <1>1, <1>2, <2>1, <2>2 DEF IInv, TypeOK
<1>4. Checked' /\ Unbegun' /\ Undecided' /\ VerdictIsBacked'
  BY <1>1, <1>2 DEF IInv, Checked, Unbegun, Undecided, VerdictIsBacked, Acceptable
<1>5. Flows'
  <2>1. Flow(<<>>, <<>>, <<>>, FALSE)
    BY NothingFlows
  <2> SUFFICES ASSUME NEW s \in Stream
               PROVE  Flow(written'[s], pipe'[s], captured'[s], truncated'[s])
    BY DEF Flows
  <2>2. written'[s] = <<>> /\ pipe'[s] = <<>> /\ captured'[s] = <<>> /\ truncated'[s] = FALSE
    BY <1>1 DEF Empty
  <2> QED BY <2>1, <2>2
<1>6. LogIsScrubbed'
  BY <1>1 DEF IInv, LogIsScrubbed
<1> QED BY <1>3, <1>4, <1>5, <1>6 DEF IInv

----------------------------------------------------------------------------
(* The theorems.                                                           *)

\* The inductive invariant: how far the checks have come, where the output of
\* the child is, and what is said of it.
LEMMA Invariance == Spec => []IInv
<1>1. IInv /\ [Next]_vars => IInv'
  <2> SUFFICES ASSUME IInv, [Next]_vars PROVE IInv'
    OBVIOUS
  <2>1. CASE Start \/ VerifyFixture \/ EnterSandbox \/ CopyEntry
    BY <2>1, PreparesKeep
  <2>2. CASE Spawn
    BY <2>2, SpawnKeeps
  <2>3. CASE \E s \in Stream, u \in Unit : Write(s, u)
    BY <2>3, WriteKeeps
  <2>4. CASE \E s \in Stream : \E n \in 1 .. MaxWritten[s] : Data(s, n)
    BY <2>4, DataKeeps
  <2>5. CASE Exit \/ LetGo \/ \E a \in 1 .. MaxStalls + 1 : LateExit(a)
    BY <2>5, LeavingKeeps
  <2>6. CASE Close
    BY <2>6, CloseKeeps
  <2>7. CASE KillTimer
    BY <2>7, KillTimerKeeps
  <2>8. CASE Persist("stdout", "stdout", "stderr")
    BY <2>8, PersistKeeps DEF Stream
  <2>9. CASE Persist("stderr", "stderr", "done")
    BY <2>9, PersistKeeps DEF Stream
  <2>10. CASE Crash
    BY <2>10, CrashKeeps
  <2>11. CASE UNCHANGED vars
    <3>1. UNCHANGED <<request, attempt, pc, index, dirs, children, deaf, told, code, held,
                      timedOut, written, pipe, captured, truncated, status, log>>
      BY <2>11 DEF vars, job, child, output
    <3> QED BY <3>1 DEF IInv, TypeOK, Checked, FixturesHold, Acceptable, Unbegun, Flows,
                        Undecided, VerdictIsBacked, LogIsScrubbed
  <2> QED BY <2>1, <2>2, <2>3, <2>4, <2>5, <2>6, <2>7, <2>8, <2>9, <2>10, <2>11
             DEF Next, Runner, Environment
<1> QED BY <1>1, Begins, PTL DEF Spec

\* Whatever the bundle and however often the runner dies, no command runs that
\* the handlers refuse (verifyFixtures, assertResourceAllowance,
\* copyBundleSafely), and classifyExit speaks of a child that has exited and
\* whose output has all been read.
THEOREM RunsAreAlwaysSound == Spec => []RunsAreSound
<1>1. IInv => RunsAreSound
  BY DEF IInv, Checked, RunsAreSound, OnlyAcceptableRuns
<1> QED BY <1>1, Invariance, PTL

\* scrubLogs sees the whole capture, so however the output came in, no secret
\* reaches the job's log file, and no text there outgrows the cap and its mark.
THEOREM LogIsAlwaysScrubbed == Spec => []LogIsScrubbed
<1>1. IInv => LogIsScrubbed
  BY DEF IInv
<1> QED BY <1>1, Invariance, PTL
====
