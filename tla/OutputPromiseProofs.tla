------------------------- MODULE OutputPromiseProofs -------------------------
(* What OutputPromise amounts to, for any jobs, readers and lengths.       *)
EXTENDS OutputPromise, TLAPS

Lives == {"none", "running", "exited", "ended"}

Streams == {"none", "live", "final", "complete", "failed"}

\* Nothing is sent before a stream is opened, nor more than was written, and a
\* final stream belongs to an ended job.
PromiseInv ==
    /\ written \in [Jobs -> Nat] /\ life \in [Jobs -> Lives]
    /\ stream \in [Readers -> Streams] /\ of \in [Readers -> Jobs] /\ sent \in [Readers -> Nat]
    /\ \A r \in Readers : /\ stream[r] = "none" => sent[r] = 0
                          /\ stream[r] = "final" => life[of[r]] = "ended"
                          /\ sent[r] <= written[of[r]]

\* What a step may do to a stream.
Forward ==
    \A r \in Readers :
        /\ sent'[r] >= sent[r]
        /\ sent'[r] # sent[r] => stream[r] \in {"live", "final"}
        /\ stream[r] # "none" => of'[r] = of[r]
        /\ stream[r] \in {"complete", "failed"} => stream'[r] = stream[r]

\* What a step may do to an ended job, and to a stream of one.
Whole ==
    /\ \A r \in Readers : stream[r] = "final" /\ stream'[r] = "complete" =>
         life[of[r]] = "ended" /\ sent'[r] = written[of[r]]
    /\ \A j \in Jobs : life[j] = "ended" => life'[j] = "ended" /\ written'[j] = written[j]

\* Before the first job.
LEMMA PromiseInvInit == Init => PromiseInv
  BY DEF Init, PromiseInv, Lives, Streams

\* Each step keeps the invariant and does only what it may.
LEMMA PromiseStep ==
  ASSUME PromiseInv, [Next]_vars
  PROVE  PromiseInv' /\ Forward /\ Whole
<1> USE DEF PromiseInv, Forward, Whole
<1>1. ASSUME NEW j \in Jobs, Write(j) PROVE PromiseInv' /\ Forward /\ Whole
  <2>1. /\ \A i \in Jobs : written'[i] = IF i = j THEN written[j] + 1 ELSE written[i]
        /\ written' \in [Jobs -> Nat] /\ life[j] # "ended" /\ UNCHANGED <<life, stream, of, sent>>
    BY <1>1 DEF Write
  <2> QED BY <2>1
<1>2. ASSUME NEW j \in Jobs, Advance(j) PROVE PromiseInv' /\ Forward /\ Whole
  <2>1. /\ \A i \in Jobs : i # j => life'[i] = life[i]
        /\ life[j] = "ended" => life'[j] = "ended"
        /\ life' \in [Jobs -> Lives] /\ UNCHANGED <<written, stream, of, sent>>
    BY <1>2 DEF Advance, Lives
  <2> QED BY <2>1
<1>3. ASSUME NEW r \in Readers, NEW j \in Jobs, Open(r, j) PROVE PromiseInv' /\ Forward /\ Whole
  <2>1. /\ stream[r] = "none" /\ stream' \in [Readers -> Streams] /\ of' \in [Readers -> Jobs]
        /\ of'[r] = j /\ stream'[r] = IF life[j] = "ended" THEN "final" ELSE "live"
        /\ \A q \in Readers \ {r} : stream'[q] = stream[q] /\ of'[q] = of[q]
        /\ UNCHANGED <<written, life, sent>>
    BY <1>3 DEF Open, Streams
  <2>2. sent[r] = 0 /\ written[j] \in Nat
    BY <2>1
  <2>3. PromiseInv'
    BY <2>1, <2>2
  <2>4. Forward /\ Whole
    BY <2>1
  <2> QED BY <2>3, <2>4
<1>4. ASSUME NEW r \in Readers, Refuse(r) PROVE PromiseInv' /\ Forward /\ Whole
  <2>1. /\ stream[r] = "none" /\ stream' \in [Readers -> Streams] /\ stream'[r] = "failed"
        /\ \A q \in Readers \ {r} : stream'[q] = stream[q]
        /\ UNCHANGED <<written, life, of, sent>>
    BY <1>4 DEF Refuse, Streams
  <2> QED BY <2>1
<1>5. ASSUME NEW r \in Readers, Send(r) PROVE PromiseInv' /\ Forward /\ Whole
  <2>1. PICK n \in sent[r]..written[of[r]] : sent' = [sent EXCEPT ![r] = n]
    BY <1>5 DEF Send
  <2>2. PICK s \in {stream[r], "complete", "failed"} :
             (s = "complete" => Complete(r)) /\ stream' = [stream EXCEPT ![r] = s]
    BY <1>5 DEF Send
  <2>3. stream[r] \in {"live", "final"} /\ UNCHANGED <<written, life, of>>
    BY <1>5 DEF Send
  <2>4. /\ n \in Nat /\ n >= sent[r] /\ n <= written[of[r]]
        /\ sent'[r] = n /\ \A q \in Readers \ {r} : sent'[q] = sent[q] /\ stream'[q] = stream[q]
        /\ stream'[r] = s /\ sent' \in [Readers -> Nat] /\ stream' \in [Readers -> Streams]
    BY <2>1, <2>2, <2>3 DEF Streams
  <2>5. stream[r] = "final" /\ s = "complete" => n = written[of[r]]
    BY <2>2, <2>4 DEF Complete
  <2>6. PromiseInv'
    BY <2>2, <2>3, <2>4
  <2>7. Forward /\ Whole
    BY <2>3, <2>4, <2>5
  <2> QED BY <2>6, <2>7
<1>6. CASE UNCHANGED vars
  BY <1>6 DEF vars
<1> QED BY <1>1, <1>2, <1>3, <1>4, <1>5, <1>6 DEF Next

\* The invariant of the promise.
LEMMA PromiseInvariance == Spec => []PromiseInv
  BY PromiseInvInit, PromiseStep, PTL DEF Spec

\* Streams that keep the promise are prefixes of the output of their jobs.
THEOREM PrefixesOnly == Spec => []OnlyWritten
<1>1. PromiseInv => OnlyWritten
  BY DEF PromiseInv, OnlyWritten
<1> QED BY <1>1, PromiseInvariance, PTL

\* They go through that output once, from its beginning to where they end.
THEOREM NoByteTwice == Spec => OnceInOrder
<1>1. PromiseInv /\ [Next]_vars => [Forward]_vars
  BY PromiseStep
<1> QED BY <1>1, PromiseInvariance, PTL DEF Spec, OnceInOrder, Forward

\* Streams of jobs that had ended do not end well before they have all of it.
THEOREM WholeWhenEnded == Spec => EndedIsWhole
<1>1. PromiseInv /\ [Next]_vars => [Whole]_vars
  BY PromiseStep
<1> QED BY <1>1, PromiseInvariance, PTL DEF Spec, EndedIsWhole, Whole
==============================================================================
