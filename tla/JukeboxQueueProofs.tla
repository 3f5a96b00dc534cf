------------------------- MODULE JukeboxQueueProofs -------------------------
(***************************************************************************)
(* Proofs about JukeboxQueue: its types, that no track is offered twice,   *)
(* and that starts never leave a mode without its sessions.  The invariant *)
(* and the lemmas are used by JukeboxBoundsProofs and                      *)
(* JukeboxFeedbackProofs too.                                              *)
(***************************************************************************)
EXTENDS JukeboxQueue, FiniteSetTheorems, SequenceTheorems,
        WellFoundedInduction, TLAPS

-----------------------------------------------------------------------------
(* Sequences without repetition.                                           *)

\* A set of indices of a sequence has a greatest one.
LEMMA GreatestIndex ==
    ASSUME NEW n \in Nat, NEW I \in SUBSET (1..n), I # {}
    PROVE  \E i \in I : \A j \in I : j <= i
<1> DEFINE T == {n - i : i \in I}
<1>1. T \subseteq Nat /\ T # {}
  <2>1. ASSUME NEW i \in I PROVE n - i \in Nat
    OBVIOUS
  <2>2. PICK i \in I : TRUE
    OBVIOUS
  <2>3. n - i \in T
    OBVIOUS
  <2> QED
    BY <2>1, <2>3
<1>2. \E x \in T : \A y \in T : ~(<<y, x>> \in OpToRel(<, Nat))
  BY <1>1, NatLessThanWellFounded, WFMin
<1>3. PICK x \in T : \A y \in T : ~(y < x)
  BY <1>1, <1>2 DEF OpToRel
<1>4. PICK i \in I : x = n - i
  OBVIOUS
<1>5. ASSUME NEW j \in I PROVE j <= i
  <2>1. ~(n - j < n - i)
    BY <1>3, <1>4
  <2> QED
    BY <2>1
<1> QED
  BY <1>5

\* u is the part of q, of length m, behind its first d elements.
IsPart(u, q, d, m) == Len(u) = m /\ \A i \in 1..m : u[i] = q[i + d]

\* w is q, of length n, without its element k.
IsRest(w, q, n, k) ==
    Len(w) = n - 1 /\ \A i \in 1..(n - 1) : w[i] = IF i < k THEN q[i] ELSE q[i + 1]

LEMMA Parts ==
    ASSUME NEW S, NEW q \in Seq(S), NEW n \in Nat, Len(q) = n, NEW k \in 1..n
    PROVE  /\ SubSeq(q, 1, k - 1) \in Seq(S) /\ IsPart(SubSeq(q, 1, k - 1), q, 0, k - 1)
           /\ SubSeq(q, k + 1, n) \in Seq(S) /\ IsPart(SubSeq(q, k + 1, n), q, k, n - k)
<1>1. \A i \in 1..n : q[i] \in S
  OBVIOUS
<1>2. PICK u : u = SubSeq(q, 1, k - 1)
  OBVIOUS
<1>3. u \in Seq(S) /\ Len(u) = k - 1 /\ \A i \in 1..(k - 1) : u[i] = q[i]
  BY <1>1, <1>2, SubSeqProperties
<1>4. PICK v : v = SubSeq(q, k + 1, n)
  OBVIOUS
<1>5. v \in Seq(S) /\ Len(v) = n - k /\ \A i \in 1..(n - k) : v[i] = q[i + k]
  BY <1>1, <1>4, SubSeqProperties
<1>6. IsPart(u, q, 0, k - 1) /\ IsPart(v, q, k, n - k)
  BY <1>3, <1>5 DEF IsPart
<1> QED
  BY <1>2, <1>3, <1>4, <1>5, <1>6

LEMMA Sewn ==
    ASSUME NEW S, NEW q, NEW n \in Nat, NEW k \in 1..n, NEW u \in Seq(S), NEW v \in Seq(S),
           IsPart(u, q, 0, k - 1), IsPart(v, q, k, n - k)
    PROVE  u \o v \in Seq(S) /\ IsRest(u \o v, q, n, k)
<1>1. /\ u \o v \in Seq(S) /\ Len(u \o v) = Len(u) + Len(v)
      /\ \A i \in 1 .. Len(u) + Len(v) :
            (u \o v)[i] = IF i <= Len(u) THEN u[i] ELSE v[i - Len(u)]
  BY ConcatProperties, Zenon
<1>2. PICK a \in Nat, b \in Nat : a = k - 1 /\ b = n - k
  OBVIOUS
<1>3. PICK w : w = u \o v
  OBVIOUS
<1>4. /\ w \in Seq(S) /\ Len(w) = a + b
      /\ \A i \in 1..(a + b) : w[i] = IF i <= a THEN u[i] ELSE v[i - a]
  BY <1>1, <1>2, <1>3 DEF IsPart
<1>5. ASSUME NEW i \in 1..(n - 1), i < k PROVE w[i] = q[i]
  <2>1. i \in 1..(k - 1) /\ i \in 1..(a + b) /\ i <= a /\ i + 0 = i
    BY <1>2, <1>5
  <2> QED
    BY <1>4, <2>1 DEF IsPart
<1>6. ASSUME NEW i \in 1..(n - 1), ~(i < k) PROVE w[i] = q[i + 1]
  <2>1. i \in 1..(a + b) /\ ~(i <= a) /\ i - a \in 1..(n - k) /\ i - a + k = i + 1
    BY <1>2, <1>6
  <2> QED
    BY <1>4, <2>1 DEF IsPart
<1> QED
  BY <1>2, <1>3, <1>4, <1>5, <1>6 DEF IsRest

LEMMA RemovedAt ==
    ASSUME NEW S, NEW q \in Seq(S), NEW n \in Nat, Len(q) = n, NEW k \in 1..n,
           NEW w, w = SubSeq(q, 1, k - 1) \o SubSeq(q, k + 1, n)
    PROVE  w \in Seq(S) /\ IsRest(w, q, n, k)
<1>1. PICK u : u = SubSeq(q, 1, k - 1)
  OBVIOUS
<1>2. PICK v : v = SubSeq(q, k + 1, n)
  OBVIOUS
<1>3. u \in Seq(S)
  BY <1>1, Parts
<1>4. v \in Seq(S)
  BY <1>2, Parts
<1>5. IsPart(u, q, 0, k - 1)
  BY <1>1, Parts
<1>6. IsPart(v, q, k, n - k)
  BY <1>2, Parts
<1>7. w = u \o v
  BY <1>1, <1>2
<1>8. u \o v \in Seq(S) /\ IsRest(u \o v, q, n, k)
  BY <1>3, <1>4, <1>5, <1>6, Sewn
<1> QED
  BY <1>7, <1>8

LEMMA OneRemoved ==
    ASSUME NEW S, NEW q \in Seq(S), IsInjective(q), NEW t
    PROVE  /\ RemoveFirst(q, t) \in Seq(S)
           /\ IsInjective(RemoveFirst(q, t))
           /\ Range(RemoveFirst(q, t)) = Range(q) \ {t}
           /\ Len(RemoveFirst(q, t)) <= Len(q)
<1>1. CASE ~\E i \in 1..Len(q) : q[i] = t
  BY <1>1 DEF RemoveFirst, Range
<1>2. CASE \E i \in 1..Len(q) : q[i] = t
  <2>1. PICK k \in 1..Len(q) : q[k] = t
    BY <1>2
  <2>2. {i \in 1..Len(q) : q[i] = t} = {k}
    BY <2>1 DEF IsInjective
  <2>3. Min({k}) = k
    BY <2>1 DEF Min
  <2>4. SelectInSeq(q, LAMBDA v : v = t) = k
    BY <2>2, <2>3 DEF SelectInSeq
  <2>5. PICK w : w = SubSeq(q, 1, k - 1) \o SubSeq(q, k + 1, Len(q))
    OBVIOUS
  <2>6. RemoveFirst(q, t) = w
    BY <1>2, <2>4, <2>5 DEF RemoveFirst, RemoveAt
  <2>7. PICK n \in Nat : n = Len(q)
    BY <2>1
  <2>8. w \in Seq(S) /\ IsRest(w, q, n, k)
    BY <2>1, <2>5, <2>7, RemovedAt
  <2>9. k \in 1..n /\ DOMAIN q = 1..n /\ DOMAIN w = 1..(n - 1)
    BY <2>1, <2>7, <2>8 DEF IsRest
  <2>10. \A i \in 1..(n - 1) : w[i] = IF i < k THEN q[i] ELSE q[i + 1]
    BY <2>8 DEF IsRest
  <2>11. IsInjective(w)
    <3>1. ASSUME NEW i \in 1..(n - 1), NEW j \in 1..(n - 1), w[i] = w[j] PROVE i = j
      <4>1. PICK a \in 1..n : a = (IF i < k THEN i ELSE i + 1) /\ w[i] = q[a]
        BY <2>9, <2>10
      <4>2. PICK b \in 1..n : b = (IF j < k THEN j ELSE j + 1) /\ w[j] = q[b]
        BY <2>9, <2>10
      <4>3. a = b
        BY <2>9, <3>1, <4>1, <4>2 DEF IsInjective
      <4> QED
        BY <2>9, <4>1, <4>2, <4>3
    <3> QED
      BY <2>9, <3>1 DEF IsInjective
  <2>12. ASSUME NEW i \in 1..(n - 1) PROVE w[i] \in Range(q) \ {t}
    <3>1. CASE i < k
      BY <2>1, <2>9, <2>10, <3>1 DEF Range, IsInjective
    <3>2. CASE ~(i < k)
      BY <2>1, <2>9, <2>10, <3>2, SMTT(30) DEF Range, IsInjective
    <3> QED
      BY <3>1, <3>2
  <2>13. ASSUME NEW i \in 1..n, i # k PROVE \E j \in 1..(n - 1) : w[j] = q[i]
    <3>1. CASE i < k
      BY <2>1, <2>9, <2>10, <3>1
    <3>2. CASE i > k
      <4>1. i - 1 \in 1..(n - 1) /\ ~(i - 1 < k) /\ (i - 1) + 1 = i
        BY <2>1, <2>9, <3>2
      <4> QED
        BY <2>10, <4>1
    <3> QED
      BY <2>1, <2>9, <2>13, <3>1, <3>2
  <2>14. Len(w) <= Len(q)
    BY <2>7, <2>8 DEF IsRest
  <2>15. Range(w) = Range(q) \ {t}
    <3>1. Range(w) = {w[i] : i \in 1..(n - 1)} /\ Range(q) = {q[i] : i \in 1..n}
      BY <2>9 DEF Range
    <3>2. \A x \in Range(w) : x \in Range(q) \ {t}
      BY <2>12, <3>1
    <3>3. \A x \in Range(q) \ {t} : x \in Range(w)
      BY <2>1, <2>13, <3>1
    <3> QED
      BY <3>2, <3>3
  <2> QED
    BY <2>6, <2>8, <2>11, <2>14, <2>15
<1> QED
  BY <1>1, <1>2

-----------------------------------------------------------------------------
(* The invariant.                                                          *)

RequestRecord ==
    [pc : Steps, session : Sessions \cup {NoSession}, mode : Modes \cup {NoMode},
     options : Options, track : Tracks \cup {NoTrack}, feedback : BOOLEAN,
     left : SUBSET Tracks, count : 0..Window, picks : Seq(Tracks)]

\* What a request has in memory at its step.
Shaped(n) ==
    /\ n \in RequestRecord
    /\ n.pc \notin {"idle", "create"} => n.session \in Sessions
    /\ n.pc \in {"create", "endStale"} => n.mode \in Modes
    /\ n.pc = "markTrack" => n.track \in Tracks
    /\ n.pc = "insert" => n.picks # <<>>

\* The session a start has found may have been ended by another start, but then
\* a newer one of the mode is active.
Succeeded(n) ==
    n.pc = "endStale" =>
        \E s \in ActiveOf(n.mode) : \E i, j \in DOMAIN opened :
            opened[i] = s /\ opened[j] = n.session /\ j <= i

TablesTyped ==
    /\ visibility \in [Tracks -> {"public", "private", "deleted"}]
    /\ status \in [Sessions -> {"none", "active", "ended"}]
    /\ mode \in [Sessions -> Modes \cup {NoMode}]
    /\ options \in [Sessions -> Options]
    /\ opened \in Seq(Sessions)
    /\ queue \in [Sessions -> Seq(Tracks)]
    /\ played \in [Sessions -> SUBSET Tracks]
    /\ recent \in [Sessions -> SUBSET Tracks]

\* The rows of a deleted track are gone.
GoneIsGone == \A s \in Sessions : \A t \in Range(queue[s]) : visibility[t] # "deleted"

OpenedOnce ==
    /\ IsInjective(opened)
    /\ \A s \in Sessions : status[s] # "none" <=> s \in Range(opened)

TablesHold == TablesTyped /\ NeverPlayedTwice /\ GoneIsGone /\ OpenedOnce

JukeboxInv ==
    /\ TablesHold
    /\ request \in [Requests -> RequestRecord]
    /\ \A r \in Requests : Shaped(request[r]) /\ Succeeded(request[r])

LEMMA NoOptionsTyped == NoOptions \in Options
BY DEF NoOptions, Options

LEMMA IdleShaped == ASSUME ConstantsAssumption PROVE Shaped(IdleRequest)
<1>1. IdleRequest \in RequestRecord
  BY NoOptionsTyped DEF ConstantsAssumption, IdleRequest, RequestRecord, Steps
<1> QED
  BY <1>1 DEF Shaped, IdleRequest

LEMMA AnsweringShaped ==
    ASSUME ConstantsAssumption, NEW r, request[r].session \in Sessions
    PROVE  Shaped(Answering(r)) /\ Answering(r).pc = "reply"
<1>1. PICK m : m = Answering(r)
  OBVIOUS
<1>2. m = [pc |-> "reply", session |-> request[r].session, mode |-> NoMode,
           options |-> NoOptions, track |-> NoTrack, feedback |-> FALSE,
           left |-> {}, count |-> 0, picks |-> <<>>]
  BY <1>1 DEF Answering, IdleRequest
<1>3. m \in RequestRecord
  BY <1>2, NoOptionsTyped DEF ConstantsAssumption, RequestRecord, Steps
<1> QED
  BY <1>1, <1>2, <1>3 DEF Shaped

\* A step of request r that opens and ends no session.
LEMMA RequestKeeps ==
    ASSUME JukeboxInv, NEW r \in Requests, NEW m, request' = [request EXCEPT ![r] = m],
           Shaped(m), Succeeded(m), TablesHold', UNCHANGED <<status, mode, opened>>
    PROVE  JukeboxInv'
<1>1. \A q \in Requests : request'[q] = IF q = r THEN m ELSE request[q]
  BY DEF JukeboxInv
<1>2. request' \in [Requests -> RequestRecord]
  BY DEF JukeboxInv, Shaped
<1>3. ASSUME NEW q \in Requests PROVE Shaped(request[q])'
  BY <1>1 DEF JukeboxInv, Shaped
<1>4. ASSUME NEW n, Succeeded(n) PROVE Succeeded(n)'
  BY <1>4 DEF Succeeded, ActiveOf
<1>5. ASSUME NEW q \in Requests PROVE Succeeded(request[q])'
  <2>1. PICK n : n = request'[q] /\ Succeeded(n)
    BY <1>1 DEF JukeboxInv
  <2>2. Succeeded(n)'
    BY <1>4, <2>1
  <2> QED
    BY <2>1, <2>2 DEF Succeeded
<1> QED
  BY <1>2, <1>3, <1>5 DEF JukeboxInv

LEMMA TablesKept ==
    ASSUME TablesHold, UNCHANGED <<visibility, status, mode, opened, rows>>,
           options' \in [Sessions -> Options]
    PROVE  TablesHold'
BY DEF TablesHold, TablesTyped, NeverPlayedTwice, GoneIsGone, OpenedOnce, rows

LEMMA InvariantFacts ==
    ASSUME JukeboxInv, NEW r \in Requests
    PROVE  /\ TablesHold /\ TablesTyped /\ request \in [Requests -> RequestRecord]
           /\ Shaped(request[r]) /\ Succeeded(request[r]) /\ request[r] \in RequestRecord
BY DEF JukeboxInv, TablesHold, Shaped

\* A step of request r that leaves the tables alone, but perhaps the options.
LEMMA PrivateStep ==
    ASSUME JukeboxInv, NEW r \in Requests, NEW m, request' = [request EXCEPT ![r] = m],
           Shaped(m), Succeeded(m), options' \in [Sessions -> Options],
           UNCHANGED <<visibility, status, mode, opened, rows>>
    PROVE  JukeboxInv'
<1>1. TablesHold'
  BY TablesKept DEF JukeboxInv
<1> QED
  BY <1>1, RequestKeeps

-----------------------------------------------------------------------------
(* The steps of a request.                                                 *)

\* Moving on to another statement.
LEMMA GotoKeeps ==
    ASSUME JukeboxInv, NEW r \in Requests, NEW pc \in {"markTrack", "clear", "count"},
           request[r].pc \notin {"idle", "create"},
           pc = "markTrack" => request[r].track \in Tracks,
           Goto(r, pc), TablesHold', UNCHANGED <<status, mode, opened>>
    PROVE  JukeboxInv'
<1>0. PICK n : n = request[r] /\ Shaped(n) /\ n \in RequestRecord
  BY InvariantFacts
<1>1. PICK m : m = [n EXCEPT !.pc = pc]
  OBVIOUS
<1>2. m \in RequestRecord /\ m.pc = pc /\ m.session = n.session /\ m.track = n.track
  BY <1>0, <1>1 DEF RequestRecord, Steps
<1>3. Shaped(m) /\ Succeeded(m)
  BY <1>0, <1>2 DEF Shaped, Succeeded
<1>4. request' = [request EXCEPT ![r] = m]
  BY <1>0, <1>1 DEF Goto
<1> QED
  BY <1>3, <1>4, RequestKeeps

\* The newest session of a non-empty set of opened ones.
LEMMA NewestFound ==
    ASSUME JukeboxInv, NEW S, S \subseteq Sessions, S # {}, \A s \in S : status[s] # "none"
    PROVE  /\ NewestOf(S) \in S
           /\ \E i \in DOMAIN opened : opened[i] = NewestOf(S)
<1>1. opened \in Seq(Sessions) /\ \A s \in S : s \in Range(opened)
  BY DEF JukeboxInv, TablesHold, TablesTyped, OpenedOnce
<1>2. PICK n \in Nat : n = Len(opened) /\ DOMAIN opened = 1..n
  BY <1>1
<1>3. PICK I : I = {i \in 1..n : opened[i] \in S}
  OBVIOUS
<1>4. I # {}
  BY <1>1, <1>2, <1>3 DEF Range
<1>5. \E i \in I : \A j \in I : j <= i
  BY <1>3, <1>4, GreatestIndex
<1>6. \E i \in DOMAIN opened : /\ opened[i] \in S
                               /\ \A j \in DOMAIN opened : opened[j] \in S => j <= i
  BY <1>2, <1>3, <1>5
<1> QED
  BY <1>6 DEF NewestOf

LEMMA FindReusableKeeps ==
    ASSUME ConstantsAssumption, JukeboxInv, NEW r \in Requests, NEW k \in Modes,
           FindReusable(r, k)
    PROVE  JukeboxInv'
<1>0. IdleRequest \in RequestRecord
  BY IdleShaped DEF Shaped
<1>1. /\ UNCHANGED <<visibility, status, mode, opened, rows>>
      /\ options' \in [Sessions -> Options] /\ options \in [Sessions -> Options]
  BY InvariantFacts DEF FindReusable, TablesTyped
<1>2. CASE ActiveOf(k) = {}
  <2>1. PICK m : m = [IdleRequest EXCEPT !.pc = "create", !.mode = k]
    OBVIOUS
  <2>2. request' = [request EXCEPT ![r] = m]
    BY <1>2, <2>1 DEF FindReusable
  <2>3. m \in RequestRecord /\ m.pc = "create" /\ m.mode = k
    BY <1>0, <2>1 DEF RequestRecord, Steps
  <2>4. Shaped(m) /\ Succeeded(m)
    BY <2>3 DEF Shaped, Succeeded
  <2> QED
    BY <1>1, <2>2, <2>4, PrivateStep
<1>3. CASE ActiveOf(k) # {}
  <2>1. PICK s : s = NewestOf(ActiveOf(k))
    OBVIOUS
  <2>2. s \in ActiveOf(k) /\ \E i \in DOMAIN opened : opened[i] = s
    BY <1>3, <2>1, NewestFound DEF ActiveOf
  <2>3. s \in Sessions /\ options[s] \in Options
    BY <1>1, <2>2 DEF ActiveOf
  <2>4. PICK m : m = [IdleRequest EXCEPT !.pc = "endStale", !.mode = k,
                                         !.session = s, !.options = options[s]]
    OBVIOUS
  <2>5. request' = [request EXCEPT ![r] = m]
    BY <1>3, <2>1, <2>4 DEF FindReusable
  <2>6. m \in RequestRecord /\ m.pc = "endStale" /\ m.mode = k /\ m.session = s
    BY <1>0, <2>3, <2>4 DEF RequestRecord, Steps
  <2>7. \A i \in DOMAIN opened : i <= i
    BY InvariantFacts DEF TablesTyped
  <2>8. Shaped(m) /\ Succeeded(m)
    BY <2>2, <2>3, <2>6, <2>7 DEF Shaped, Succeeded
  <2> QED
    BY <1>1, <2>5, <2>8, PrivateStep
<1> QED
  BY <1>2, <1>3

LEMMA LoadForNextKeeps ==
    ASSUME ConstantsAssumption, JukeboxInv, NEW r \in Requests, NEW s \in Sessions,
           NEW n \in 0..Window, LoadForNext(r, s, n)
    PROVE  JukeboxInv'
<1>0. IdleRequest \in RequestRecord
  BY IdleShaped DEF Shaped
<1>1. /\ UNCHANGED <<visibility, status, mode, opened, rows>>
      /\ options' \in [Sessions -> Options] /\ options[s] \in Options
  BY InvariantFacts DEF LoadForNext, TablesTyped
<1>2. PICK pc : pc = IF n = 0 THEN "count" ELSE "mark"
  OBVIOUS
<1>3. PICK m : m = [IdleRequest EXCEPT !.pc = pc, !.session = s, !.options = options[s],
                                       !.count = n]
  OBVIOUS
<1>4. request' = [request EXCEPT ![r] = m]
  BY <1>2, <1>3 DEF LoadForNext
<1>5. m \in RequestRecord /\ m.pc = pc /\ m.session = s
  BY <1>0, <1>1, <1>2, <1>3 DEF RequestRecord, Steps
<1>6. Shaped(m) /\ Succeeded(m)
  BY <1>2, <1>5 DEF Shaped, Succeeded
<1> QED
  BY <1>1, <1>4, <1>6, PrivateStep

LEMMA AppliedTyped ==
    ASSUME ConstantsAssumption, NEW o \in Options, NEW t \in Tracks \cup {NoTrack},
           NEW action \in Feedbacks
    PROVE  Applied(o, t, action) \in Options
<1>1. action \in {"skip", "less_like_this", "stay_in_genre", "more_like_this"}
  BY DEF ConstantsAssumption
<1>2. CASE t = NoTrack
  BY <1>2 DEF Applied
<1>3. CASE t \in Tracks /\ t # NoTrack
  <2>1. Genre[t] \in Genres
    BY <1>3 DEF Genres
  <2> QED
    BY <1>1, <1>3, <2>1 DEF Applied, Options
<1> QED
  BY <1>2, <1>3

LEMMA LoadForFeedbackKeeps ==
    ASSUME ConstantsAssumption, JukeboxInv, NEW r \in Requests, NEW s \in Sessions,
           NEW t \in Tracks \cup {NoTrack}, NEW action \in Feedbacks,
           LoadForFeedback(r, s, t, action)
    PROVE  JukeboxInv'
<1>0. IdleRequest \in RequestRecord
  BY IdleShaped DEF Shaped
<1>1. /\ UNCHANGED <<visibility, status, mode, opened, rows>>
      /\ options' \in [Sessions -> Options] /\ options[s] \in Options
  BY InvariantFacts DEF LoadForFeedback, TablesTyped
<1>2. PICK o \in Options : o = Applied(options[s], t, action)
  BY <1>1, AppliedTyped
<1>3. PICK L \in SUBSET Tracks : L = Range(queue[s])
  <2>1. Range(queue[s]) \in SUBSET Tracks
    BY InvariantFacts DEF TablesTyped, Range
  <2> QED
    BY <2>1
<1>4. PICK m : m = [IdleRequest EXCEPT !.pc = "save", !.session = s, !.track = t,
                                      !.options = o, !.feedback = TRUE, !.left = L]
  OBVIOUS
<1>5. request' = [request EXCEPT ![r] = m]
  BY <1>2, <1>3, <1>4 DEF LoadForFeedback
<1>6. m \in RequestRecord /\ m.pc = "save" /\ m.session = s /\ m.track = t
  BY <1>0, <1>4 DEF RequestRecord, Steps
<1>7. Shaped(m) /\ Succeeded(m)
  BY <1>6 DEF Shaped, Succeeded
<1> QED
  BY <1>1, <1>5, <1>7, PrivateStep

LEMMA SaveOptionsKeeps ==
    ASSUME JukeboxInv, NEW r \in Requests, SaveOptions(r)
    PROVE  JukeboxInv'
<1>0. PICK n : n = request[r] /\ Shaped(n) /\ n \in RequestRecord
  BY InvariantFacts
<1>1. n.pc = "save" /\ n.session \in Sessions /\ n.track \in Tracks \cup {NoTrack}
  BY <1>0 DEF SaveOptions, Shaped, RequestRecord
<1>2. options' = [options EXCEPT ![n.session] = n.options]
  BY <1>0 DEF SaveOptions
<1>3. options \in [Sessions -> Options] /\ n.options \in Options
  BY <1>0, InvariantFacts DEF TablesTyped, RequestRecord
<1>4. options' \in [Sessions -> Options]
  BY <1>2, <1>3
<1>5. PICK pc, m : /\ pc = IF n.track = NoTrack THEN "clear" ELSE "markTrack"
                   /\ m = [n EXCEPT !.pc = pc]
  OBVIOUS
<1>6. /\ request' = [request EXCEPT ![r] = m]
      /\ UNCHANGED <<visibility, status, mode, opened, rows>>
  BY <1>0, <1>5 DEF SaveOptions, Goto
<1>7. m \in RequestRecord /\ m.pc = pc /\ m.session = n.session /\ m.track = n.track
  BY <1>0, <1>5 DEF RequestRecord, Steps
<1>8. Shaped(m) /\ Succeeded(m)
  BY <1>1, <1>5, <1>7 DEF Shaped, Succeeded
<1> QED
  BY <1>4, <1>6, <1>8, PrivateStep

LEMMA CountUnplayedKeeps ==
    ASSUME ConstantsAssumption, JukeboxInv, NEW r \in Requests, CountUnplayed(r)
    PROVE  JukeboxInv'
<1>0. PICK n : n = request[r] /\ Shaped(n) /\ n \in RequestRecord
  BY InvariantFacts
<1>1. n.pc = "count" /\ n.session \in Sessions
  BY <1>0 DEF CountUnplayed, Shaped
<1>2. PICK k \in Nat : k = Len(queue[n.session])
  BY <1>1, InvariantFacts DEF TablesTyped
<1>3. /\ UNCHANGED <<visibility, status, mode, opened, rows>>
      /\ options' \in [Sessions -> Options]
  BY InvariantFacts DEF CountUnplayed, TablesTyped
<1>4. CASE k >= Window
  <2>1. request' = [request EXCEPT ![r] = Answering(r)]
    BY <1>0, <1>2, <1>4 DEF CountUnplayed
  <2>2. Shaped(Answering(r)) /\ Succeeded(Answering(r))
    BY <1>0, <1>1, AnsweringShaped DEF Succeeded
  <2> QED
    BY <1>3, <2>1, <2>2, PrivateStep
<1>5. CASE ~(k >= Window)
  <2>1. Window - k \in 0..Window
    BY <1>5 DEF ConstantsAssumption
  <2>2. PICK m : m = [n EXCEPT !.pc = "pick", !.count = Window - k]
    OBVIOUS
  <2>3. request' = [request EXCEPT ![r] = m]
    BY <1>0, <1>2, <1>5, <2>2 DEF CountUnplayed, JukeboxInv
  <2>4. m \in RequestRecord /\ m.pc = "pick" /\ m.session = n.session
    BY <1>0, <2>1, <2>2 DEF RequestRecord, Steps
  <2>5. Shaped(m) /\ Succeeded(m)
    BY <1>1, <2>4 DEF Shaped, Succeeded
  <2> QED
    BY <1>3, <2>3, <2>5, PrivateStep
<1> QED
  BY <1>4, <1>5

LEMMA PicksTyped ==
    ASSUME ConstantsAssumption, NEW ranked \in SUBSET Tracks, NEW needed \in Nat,
           NEW p \in Picks(ranked, needed)
    PROVE  p \in Seq(Tracks) /\ p \in Seq(ranked) /\ IsInjective(p)
<1>1. Cardinality(ranked) \in Nat
  BY FS_Subset, FS_CardinalityType DEF ConstantsAssumption
<1>2. PICK n \in Nat : n = IF needed <= Cardinality(ranked) THEN needed ELSE Cardinality(ranked)
  BY <1>1
<1>3. p \in [1..n -> ranked] /\ IsInjective(p)
  BY <1>2 DEF Picks
<1> QED
  BY <1>3

LEMMA ChoosePicksKeeps ==
    ASSUME ConstantsAssumption, JukeboxInv, NEW r \in Requests, ChoosePicks(r)
    PROVE  JukeboxInv'
<1>0. PICK n : n = request[r] /\ Shaped(n) /\ n \in RequestRecord
  BY InvariantFacts
<1>1. n.pc = "pick" /\ n.session \in Sessions /\ n.count \in Nat
  BY <1>0 DEF ChoosePicks, Shaped, RequestRecord, ConstantsAssumption
<1>2. /\ UNCHANGED <<visibility, status, mode, opened, rows>>
      /\ options' \in [Sessions -> Options]
  BY InvariantFacts DEF ChoosePicks, TablesTyped
<1>3. PICK K \in Liked(mode[n.session], n.options), limited \in SUBSET Tracks :
        \E p \in Picks(Ranked(Admitted(n.session, n.options) \cap K, limited), n.count) :
            request' = [request EXCEPT ![r] =
                IF p = <<>> THEN Answering(r)
                ELSE [@ EXCEPT !.pc = "insert", !.picks = p, !.count = 0]]
  BY <1>0 DEF ChoosePicks
<1>4. PICK R : R = Ranked(Admitted(n.session, n.options) \cap K, limited)
  OBVIOUS
<1>5. R \in SUBSET Tracks
  BY <1>4 DEF Ranked, Admitted, Candidates
<1>6. PICK p \in Picks(R, n.count) :
        request' = [request EXCEPT ![r] =
            IF p = <<>> THEN Answering(r)
            ELSE [@ EXCEPT !.pc = "insert", !.picks = p, !.count = 0]]
  BY <1>3, <1>4
<1>7. p \in Seq(Tracks)
  BY <1>1, <1>5, PicksTyped
<1>8. CASE p = <<>>
  <2>1. request' = [request EXCEPT ![r] = Answering(r)]
    BY <1>6, <1>8
  <2>2. Shaped(Answering(r)) /\ Succeeded(Answering(r))
    BY <1>0, <1>1, AnsweringShaped DEF Succeeded
  <2> QED
    BY <1>2, <2>1, <2>2, PrivateStep
<1>9. CASE p # <<>>
  <2>1. PICK m : m = [n EXCEPT !.pc = "insert", !.picks = p, !.count = 0]
    OBVIOUS
  <2>2. request' = [request EXCEPT ![r] = m]
    BY <1>0, <1>6, <1>9, <2>1 DEF JukeboxInv
  <2>3. 0 \in 0..Window /\ "insert" \in Steps
    BY DEF ConstantsAssumption, Steps
  <2>4. m \in RequestRecord
    BY <1>0, <1>7, <2>1, <2>3 DEF RequestRecord
  <2>5. m.pc = "insert" /\ m.session = n.session /\ m.picks = p
    BY <1>0, <2>1 DEF RequestRecord
  <2>6. Shaped(m) /\ Succeeded(m)
    BY <1>1, <1>9, <2>4, <2>5 DEF Shaped, Succeeded
  <2> QED
    BY <1>2, <2>2, <2>6, PrivateStep
<1> QED
  BY <1>8, <1>9

LEMMA EndKeeps ==
    ASSUME ConstantsAssumption, JukeboxInv, NEW r \in Requests, Reply(r) \/ Abort(r)
    PROVE  JukeboxInv'
<1>1. /\ request' = [request EXCEPT ![r] = IdleRequest]
      /\ UNCHANGED <<visibility, status, mode, opened, rows>>
      /\ options' \in [Sessions -> Options]
  BY InvariantFacts DEF Reply, Abort, TablesTyped
<1>2. Shaped(IdleRequest) /\ Succeeded(IdleRequest)
  BY IdleShaped DEF Succeeded, IdleRequest
<1> QED
  BY <1>1, <1>2, PrivateStep

\* The sessions a start retires are older than the one it keeps: the newest
\* active session of the mode that is at least as old stays.
LEMMA NewerStays ==
    ASSUME JukeboxInv, NEW k \in Modes, NEW kept \in Sessions, NEW t,
           NEW a \in DOMAIN opened, opened[a] = t,
           \E s \in ActiveOf(k) : \E i, j \in DOMAIN opened :
               opened[i] = s /\ opened[j] = kept /\ j <= i,
           \E s \in ActiveOf(k) : \E i \in DOMAIN opened : opened[i] = s /\ a <= i
    PROVE  \E s \in ActiveOf(k) \ Stale(k, kept) : \E i \in DOMAIN opened :
               opened[i] = s /\ a <= i
<1>1. IsInjective(opened) /\ opened \in Seq(Sessions)
  BY DEF JukeboxInv, TablesHold, TablesTyped, OpenedOnce
<1>2. PICK n \in Nat : DOMAIN opened = 1..n
  BY <1>1
<1>3. PICK s \in ActiveOf(k), i \in 1..n : opened[i] = s /\ a <= i
  BY <1>2
<1>4. PICK u \in ActiveOf(k), c \in 1..n, b \in 1..n :
        opened[c] = u /\ opened[b] = kept /\ b <= c
  BY <1>2
<1>5. \A x, y \in 1..n : opened[x] = opened[y] => x = y
  BY <1>1, <1>2 DEF IsInjective
<1>6. ASSUME NEW v \in Stale(k, kept), NEW x \in 1..n, opened[x] = v PROVE x < b
  BY <1>2, <1>4, <1>5, <1>6 DEF Stale
<1>7. u \notin Stale(k, kept)
  BY <1>4, <1>6
<1>8. CASE b <= i
  <2>1. s \notin Stale(k, kept)
    BY <1>3, <1>6, <1>8
  <2> QED
    BY <1>2, <1>3, <2>1
<1>9. CASE ~(b <= i)
  <2>1. a \in 1..n /\ a <= c
    BY <1>2, <1>3, <1>4, <1>9
  <2> QED
    BY <1>2, <1>4, <1>7, <2>1
<1> QED
  BY <1>8, <1>9

\* A start that retires stale sessions.
LEMMA EndStaleFacts ==
    ASSUME JukeboxInv, NEW r \in Requests, EndStale(r)
    PROVE  /\ request[r].mode \in Modes /\ request[r].session \in Sessions
           /\ \E s \in ActiveOf(request[r].mode) : \E i, j \in DOMAIN opened :
                  opened[i] = s /\ opened[j] = request[r].session /\ j <= i
           /\ \A k \in Modes \cup {NoMode} : ActiveOf(k)' = 
                  IF k = request[r].mode THEN ActiveOf(k) \ Stale(k, request[r].session)
                                         ELSE ActiveOf(k)
<1>1. PICK n : n = request[r] /\ Shaped(n) /\ Succeeded(n)
  BY InvariantFacts
<1>2. n.pc = "endStale" /\ n.mode \in Modes /\ n.session \in Sessions
  BY <1>1 DEF EndStale, Shaped
<1>3. PICK stale : stale = Stale(n.mode, n.session)
  OBVIOUS
<1>4. /\ status' = [s \in Sessions |-> IF s \in stale THEN "ended" ELSE status[s]]
      /\ mode' = mode
  BY <1>1, <1>3 DEF EndStale
<1>5. \A s \in stale : mode[s] = n.mode
  BY <1>3 DEF Stale, ActiveOf
<1>6. ASSUME NEW k \in Modes \cup {NoMode}
      PROVE  ActiveOf(k)' = IF k = n.mode THEN ActiveOf(k) \ stale ELSE ActiveOf(k)
  BY <1>4, <1>5 DEF ActiveOf
<1> QED
  BY <1>1, <1>2, <1>3, <1>6 DEF Succeeded
LEMMA EndStaleKeeps ==
    ASSUME ConstantsAssumption, JukeboxInv, NEW r \in Requests, EndStale(r)
    PROVE  JukeboxInv'
<1>0. PICK n : n = request[r] /\ Shaped(n) /\ n \in RequestRecord
  BY InvariantFacts
<1>1. n.mode \in Modes /\ n.session \in Sessions
  BY <1>0, EndStaleFacts
<1>2. PICK stale : stale = Stale(n.mode, n.session)
  OBVIOUS
<1>3. \A s \in stale : status[s] = "active"
  BY <1>2 DEF Stale, ActiveOf
<1>4. /\ status' = [s \in Sessions |-> IF s \in stale THEN "ended" ELSE status[s]]
      /\ request' = [request EXCEPT ![r].pc = "count"]
      /\ UNCHANGED <<visibility, mode, options, opened, rows>>
  BY <1>0, <1>2 DEF EndStale, Goto
<1>5. TablesHold /\ TablesTyped /\ request \in [Requests -> RequestRecord]
  BY InvariantFacts
<1>6. TablesHold'
  <2>1. TablesTyped'
    BY <1>4, <1>5 DEF TablesTyped, rows
  <2>2. NeverPlayedTwice' /\ GoneIsGone'
    BY <1>4, <1>5 DEF TablesHold, NeverPlayedTwice, GoneIsGone, rows
  <2>3. \A s \in Sessions : status'[s] # "none" <=> status[s] # "none"
    BY <1>3, <1>4, <1>5 DEF TablesTyped
  <2>4. OpenedOnce'
    BY <1>4, <1>5, <2>3 DEF TablesHold, OpenedOnce
  <2> QED
    BY <2>1, <2>2, <2>4 DEF TablesHold
<1>7. PICK m : m = [n EXCEPT !.pc = "count"]
  OBVIOUS
<1>8. Shaped(m) /\ m.pc = "count"
  <2>1. m \in RequestRecord /\ m.pc = "count" /\ m.session = n.session
    BY <1>0, <1>7 DEF RequestRecord, Steps
  <2> QED
    BY <1>1, <2>1 DEF Shaped
<1>9. request' = [request EXCEPT ![r] = m]
  BY <1>0, <1>4, <1>5, <1>7
<1>10. \A q \in Requests : request'[q] = IF q = r THEN m ELSE request[q]
  BY <1>5, <1>9
<1>11. request' \in [Requests -> RequestRecord]
  BY <1>5, <1>8, <1>9 DEF Shaped
<1>12. ASSUME NEW q \in Requests PROVE Shaped(request[q])'
  BY <1>8, <1>10 DEF JukeboxInv, Shaped
<1>13. ASSUME NEW q \in Requests PROVE Succeeded(request[q])'
  <2>1. CASE q = r
    BY <1>8, <1>10, <2>1 DEF Succeeded
  <2>2. CASE q # r
    <3>1. PICK p : p = request[q] /\ p = request'[q] /\ Shaped(p) /\ Succeeded(p)
      BY <1>10, <2>2, InvariantFacts
    <3>2. CASE p.pc # "endStale"
      BY <3>1, <3>2 DEF Succeeded
    <3>3. CASE p.pc = "endStale"
      <4>1. p.mode \in Modes
        BY <3>1, <3>3 DEF Shaped
      <4>2. \E s \in ActiveOf(p.mode) : \E i, j \in DOMAIN opened :
                opened[i] = s /\ opened[j] = p.session /\ j <= i
        BY <3>1, <3>3 DEF Succeeded
      <4>3. \E s \in ActiveOf(p.mode)' : \E i, j \in DOMAIN opened :
                opened[i] = s /\ opened[j] = p.session /\ j <= i
        <5>1. CASE p.mode = n.mode
          <6>1. PICK k \in Modes : k = p.mode /\ k = n.mode
            BY <4>1, <5>1
          <6>2. PICK a \in DOMAIN opened : 
                  /\ opened[a] = p.session
                  /\ \E s \in ActiveOf(k) : \E i \in DOMAIN opened : opened[i] = s /\ a <= i
            BY <4>2, <6>1
          <6>3. \E s \in ActiveOf(k) : \E i, j \in DOMAIN opened :
                    opened[i] = s /\ opened[j] = n.session /\ j <= i
            BY <1>0, <6>1, EndStaleFacts
          <6>4. PICK s \in ActiveOf(k) \ Stale(k, n.session), i \in DOMAIN opened :
                    opened[i] = s /\ a <= i
            BY <1>1, <6>2, <6>3, NewerStays
          <6>5. s \in ActiveOf(k)'
            BY <1>0, <6>1, <6>4, EndStaleFacts
          <6> QED
            BY <6>1, <6>2, <6>4, <6>5
        <5>2. CASE p.mode # n.mode
          BY <1>0, <4>1, <4>2, <5>2, EndStaleFacts
        <5> QED
          BY <5>1, <5>2
      <4> QED
        BY <1>4, <3>1, <4>3 DEF Succeeded
    <3> QED
      BY <3>2, <3>3
  <2> QED
    BY <2>1, <2>2
<1> QED
  BY <1>6, <1>11, <1>12, <1>13 DEF JukeboxInv

LEMMA CreateSessionKeeps ==
    ASSUME ConstantsAssumption, JukeboxInv, NEW r \in Requests, NEW s \in Sessions,
           CreateSession(r, s)
    PROVE  JukeboxInv'
<1>0. PICK n : n = request[r] /\ Shaped(n) /\ n \in RequestRecord
  BY InvariantFacts
<1>1. n.pc = "create" /\ n.mode \in Modes
  BY <1>0 DEF CreateSession, Shaped
<1>2. /\ status' = [status EXCEPT ![s] = "active"]
      /\ status[s] = "none"
      /\ mode' = [mode EXCEPT ![s] = n.mode]
      /\ opened' = Append(opened, s)
      /\ request' = [request EXCEPT ![r].pc = "count", ![r].session = s]
      /\ UNCHANGED <<visibility, options, rows>>
  BY <1>0 DEF CreateSession
<1>3. TablesHold /\ TablesTyped /\ request \in [Requests -> RequestRecord]
  BY InvariantFacts
<1>4. PICK len \in Nat : len = Len(opened) /\ DOMAIN opened = 1..len
  BY <1>3 DEF TablesTyped
<1>5. /\ opened' \in Seq(Sessions) /\ DOMAIN opened' = 1..(len + 1)
      /\ opened'[len + 1] = s /\ \A i \in 1..len : opened'[i] = opened[i]
  BY <1>2, <1>3, <1>4, AppendProperties DEF TablesTyped
<1>6. s \notin Range(opened) /\ IsInjective(opened)
      /\ \A t \in Sessions : status[t] # "none" <=> t \in Range(opened)
  BY <1>2, <1>3 DEF TablesHold, OpenedOnce
<1>7. TablesHold'
  <2>1. TablesTyped'
    BY <1>1, <1>2, <1>3, <1>5 DEF TablesTyped, rows
  <2>2. NeverPlayedTwice' /\ GoneIsGone'
    BY <1>2, <1>3 DEF TablesHold, NeverPlayedTwice, GoneIsGone, rows
  <2>3. IsInjective(opened')
    BY <1>4, <1>5, <1>6 DEF IsInjective, Range
  <2>4. Range(opened') = Range(opened) \cup {s}
    <3>1. /\ Range(opened) = {opened[i] : i \in 1..len}
          /\ Range(opened') = {opened'[i] : i \in 1..(len + 1)}
      BY <1>4, <1>5 DEF Range
    <3>2. \A i \in 1..(len + 1) : i \in 1..len \/ i = len + 1
      OBVIOUS
    <3>3. \A i \in 1..len : i \in 1..(len + 1)
      OBVIOUS
    <3>4. len + 1 \in 1..(len + 1)
      OBVIOUS
    <3> QED
      BY <1>5, <3>1, <3>2, <3>3, <3>4
  <2>5. \A t \in Sessions : status'[t] # "none" <=> t \in Range(opened')
    BY <1>2, <1>3, <1>6, <2>4 DEF TablesTyped
  <2>6. OpenedOnce'
    BY <2>3, <2>5 DEF OpenedOnce
  <2> QED
    BY <2>1, <2>2, <2>6 DEF TablesHold
<1>8. PICK m : m = [n EXCEPT !.pc = "count", !.session = s]
  OBVIOUS
<1>9. m \in RequestRecord /\ m.pc = "count" /\ m.session = s
  BY <1>0, <1>8 DEF RequestRecord, Steps
<1>10. request' = [request EXCEPT ![r] = m]
  BY <1>0, <1>2, <1>3, <1>8
<1>11. \A q \in Requests : request'[q] = IF q = r THEN m ELSE request[q]
  BY <1>3, <1>10
<1>12. request' \in [Requests -> RequestRecord]
  BY <1>3, <1>9, <1>10
<1>13. ASSUME NEW q \in Requests PROVE Shaped(request[q])'
  BY <1>9, <1>11 DEF JukeboxInv, Shaped
<1>14. ASSUME NEW q \in Requests PROVE Succeeded(request[q])'
  <2>1. CASE q = r
    BY <1>9, <1>11, <2>1 DEF Succeeded
  <2>2. CASE q # r
    <3>1. PICK p : p = request[q] /\ p = request'[q] /\ Succeeded(p)
      BY <1>11, <2>2, InvariantFacts
    <3>2. CASE p.pc # "endStale"
      BY <3>1, <3>2 DEF Succeeded
    <3>3. CASE p.pc = "endStale"
      <4>1. PICK t \in ActiveOf(p.mode), i \in 1..len, j \in 1..len :
              opened[i] = t /\ opened[j] = p.session /\ j <= i
        BY <1>4, <3>1, <3>3 DEF Succeeded
      <4>2. t # s
        BY <1>2, <4>1 DEF ActiveOf
      <4>3. t \in ActiveOf(p.mode)'
        BY <1>2, <1>3, <4>1, <4>2 DEF ActiveOf, TablesTyped
      <4>4. i \in DOMAIN opened' /\ j \in DOMAIN opened'
        BY <1>5
      <4>5. opened'[i] = t /\ opened'[j] = p.session
        BY <1>5, <4>1
      <4> QED
        BY <3>1, <4>1, <4>3, <4>4, <4>5 DEF Succeeded
    <3> QED
      BY <3>2, <3>3
  <2> QED
    BY <2>1, <2>2
<1> QED
  BY <1>7, <1>12, <1>13, <1>14 DEF JukeboxInv
-----------------------------------------------------------------------------
(* The steps that write the rows.                                          *)

\* The queue of one session is replaced.
LEMMA QueueReplaced ==
    ASSUME JukeboxInv, NEW s \in Sessions, NEW w \in Seq(Tracks), NEW P \in SUBSET Tracks,
           queue' = [queue EXCEPT ![s] = w], played' = [played EXCEPT ![s] = P],
           IsInjective(w), Range(w) \cap P = {},
           \A t \in Range(w) : visibility[t] # "deleted",
           recent' \in [Sessions -> SUBSET Tracks],
           UNCHANGED <<visibility, status, mode, options, opened>>
    PROVE  TablesHold'
<1>1. TablesHold /\ TablesTyped
  BY DEF JukeboxInv, TablesHold
<1>2. TablesTyped'
  BY <1>1 DEF TablesTyped
<1>3. \A x \in Sessions : /\ queue'[x] = IF x = s THEN w ELSE queue[x]
                          /\ played'[x] = IF x = s THEN P ELSE played[x]
  BY <1>1 DEF TablesTyped
<1>4. NeverPlayedTwice'
  BY <1>1, <1>3 DEF TablesHold, NeverPlayedTwice
<1>5. GoneIsGone'
  BY <1>1, <1>3 DEF TablesHold, GoneIsGone
<1>6. OpenedOnce'
  BY <1>1 DEF TablesHold, OpenedOnce
<1> QED
  BY <1>2, <1>4, <1>5, <1>6 DEF TablesHold

LEMMA QueueFacts ==
    ASSUME JukeboxInv, NEW s \in Sessions
    PROVE  /\ queue[s] \in Seq(Tracks) /\ IsInjective(queue[s])
           /\ played[s] \in SUBSET Tracks /\ recent[s] \in SUBSET Tracks
           /\ Range(queue[s]) \in SUBSET Tracks
           /\ Range(queue[s]) \cap played[s] = {}
           /\ \A t \in Range(queue[s]) : visibility[t] # "deleted"
           /\ queue \in [Sessions -> Seq(Tracks)] /\ played \in [Sessions -> SUBSET Tracks]
           /\ recent \in [Sessions -> SUBSET Tracks]
<1>1. /\ queue \in [Sessions -> Seq(Tracks)] /\ played \in [Sessions -> SUBSET Tracks]
      /\ recent \in [Sessions -> SUBSET Tracks]
      /\ NeverPlayedTwice /\ GoneIsGone
  BY DEF JukeboxInv, TablesHold, TablesTyped
<1>2. queue[s] \in Seq(Tracks)
  BY <1>1
<1>3. Range(queue[s]) \in SUBSET Tracks
  BY <1>2 DEF Range
<1> QED
  BY <1>1, <1>2, <1>3 DEF NeverPlayedTwice, GoneIsGone

\* What is left of a sequence without its first n elements.
LEMMA FirstDropped ==
    ASSUME NEW S, NEW q \in Seq(S), IsInjective(q), NEW n \in 0..Len(q)
    PROVE  /\ SubSeq(q, n + 1, Len(q)) \in Seq(S)
           /\ IsInjective(SubSeq(q, n + 1, Len(q)))
           /\ Range(SubSeq(q, n + 1, Len(q))) = Range(q) \ {q[i] : i \in 1..n}
           /\ Len(SubSeq(q, n + 1, Len(q))) <= Len(q)
<1>1. PICK len \in Nat : len = Len(q) /\ DOMAIN q = 1..len
  OBVIOUS
<1>2. \A i \in 1..len : q[i] \in S
  BY <1>1
<1>3. PICK w : w = SubSeq(q, n + 1, len)
  OBVIOUS
<1>4. /\ w \in Seq(S) /\ Len(w) <= len /\ DOMAIN w = 1..(len - n)
      /\ \A i \in 1..(len - n) : w[i] = q[i + n]
  BY <1>1, <1>2, <1>3, SubSeqProperties
<1>5. \A x, y \in 1..len : q[x] = q[y] => x = y
  BY <1>1 DEF IsInjective
<1>6. IsInjective(w)
  <2>1. ASSUME NEW i \in 1..(len - n), NEW j \in 1..(len - n), w[i] = w[j] PROVE i = j
    BY <1>1, <1>4, <1>5, <2>1
  <2> QED
    BY <1>4, <2>1 DEF IsInjective
<1>7. Range(w) = Range(q) \ {q[i] : i \in 1..n}
  <2>1. Range(w) = {w[i] : i \in 1..(len - n)} /\ Range(q) = {q[i] : i \in 1..len}
    BY <1>1, <1>4 DEF Range
  <2>2. ASSUME NEW i \in 1..(len - n) PROVE w[i] \in Range(q) \ {q[x] : x \in 1..n}
    BY <1>1, <1>4, <1>5, <2>1
  <2>3. ASSUME NEW i \in 1..len, q[i] \notin {q[x] : x \in 1..n}
        PROVE  \E j \in 1..(len - n) : w[j] = q[i]
    <3>1. i \notin 1..n
      BY <2>3
    <3>2. i - n \in 1..(len - n) /\ (i - n) + n = i
      BY <1>1, <3>1
    <3> QED
      BY <1>4, <3>2
  <2> QED
    BY <2>1, <2>2, <2>3
<1> QED
  BY <1>1, <1>3, <1>4, <1>6, <1>7

\* Some unplayed rows of session s become played ones.
RowsPlayed(s) ==
    \E w \in Seq(Tracks), F \in SUBSET Range(queue[s]) :
        /\ queue' = [queue EXCEPT ![s] = w]
        /\ played' = [played EXCEPT ![s] = played[s] \cup F]
        /\ IsInjective(w) /\ Range(w) = Range(queue[s]) \ F
        /\ Len(w) <= Len(queue[s])

LEMMA RowsPlayedKeep ==
    ASSUME JukeboxInv, NEW s \in Sessions, RowsPlayed(s),
           UNCHANGED <<visibility, status, mode, options, opened, recent>>
    PROVE  TablesHold'
<1>1. PICK w \in Seq(Tracks), F \in SUBSET Range(queue[s]) :
        /\ queue' = [queue EXCEPT ![s] = w]
        /\ played' = [played EXCEPT ![s] = played[s] \cup F]
        /\ IsInjective(w) /\ Range(w) = Range(queue[s]) \ F
  BY DEF RowsPlayed
<1>2. /\ Range(w) \cap (played[s] \cup F) = {} /\ played[s] \cup F \in SUBSET Tracks
      /\ \A t \in Range(w) : visibility[t] # "deleted"
      /\ recent' \in [Sessions -> SUBSET Tracks]
  BY <1>1, QueueFacts
<1> QED
  BY <1>1, <1>2, QueueReplaced

LEMMA MarkFirstPlays ==
    ASSUME ConstantsAssumption, JukeboxInv, NEW r \in Requests, MarkFirst(r)
    PROVE  request[r].session \in Sessions /\ RowsPlayed(request[r].session)
<1>0. PICK n : n = request[r] /\ Shaped(n) /\ n \in RequestRecord
  BY InvariantFacts
<1>1. n.pc = "mark" /\ n.session \in Sessions /\ n.count \in Nat
  BY <1>0 DEF MarkFirst, Shaped, RequestRecord, ConstantsAssumption
<1>2. PICK s \in Sessions : s = n.session
  BY <1>1
<1>3. PICK q \in Seq(Tracks) : q = queue[s]
  BY QueueFacts
<1>4. PICK k \in 0..Len(q) : k = IF n.count <= Len(q) THEN n.count ELSE Len(q)
  BY <1>1
<1>5. PICK w : w = SubSeq(q, k + 1, Len(q))
  OBVIOUS
<1>6. PICK F : F = {q[i] : i \in 1..k}
  OBVIOUS
<1>7. /\ queue' = [queue EXCEPT ![s] = w]
      /\ played' = [played EXCEPT ![s] = played[s] \cup F]
  <2> DEFINE rest == queue[request[r].session]
             count == IF request[r].count <= Len(rest) THEN request[r].count ELSE Len(rest)
  <2>1. /\ queue' = [queue EXCEPT ![request[r].session] = SubSeq(rest, count + 1, Len(rest))]
        /\ played' = [played EXCEPT ![request[r].session] = @ \cup {rest[i] : i \in 1..count}]
    BY DEF MarkFirst
  <2>2. request[r].session = s /\ rest = q /\ count = k
    BY <1>0, <1>2, <1>3, <1>4
  <2> HIDE DEF rest, count
  <2>3. w = SubSeq(rest, count + 1, Len(rest)) /\ F = {rest[i] : i \in 1..count}
    BY <1>5, <1>6, <2>2, Zenon
  <2> QED
    BY <2>1, <2>2, <2>3
<1>8. w \in Seq(Tracks) /\ IsInjective(w) /\ Range(w) = Range(q) \ F /\ Len(w) <= Len(q)
  <2>1. IsInjective(q)
    BY <1>3, QueueFacts
  <2>2. /\ SubSeq(q, k + 1, Len(q)) \in Seq(Tracks)
        /\ IsInjective(SubSeq(q, k + 1, Len(q)))
        /\ Range(SubSeq(q, k + 1, Len(q))) = Range(q) \ {q[i] : i \in 1..k}
        /\ Len(SubSeq(q, k + 1, Len(q))) <= Len(q)
    BY <2>1, FirstDropped, Zenon
  <2> QED
    BY <1>5, <1>6, <2>2, Zenon
<1>9. F \in SUBSET Range(q)
  BY <1>6 DEF Range
<1>10. RowsPlayed(s)
  BY <1>3, <1>7, <1>8, <1>9 DEF RowsPlayed
<1> QED
  BY <1>0, <1>2, <1>10

LEMMA MarkFirstKeeps ==
    ASSUME ConstantsAssumption, JukeboxInv, NEW r \in Requests, MarkFirst(r)
    PROVE  JukeboxInv'
<1>1. /\ request[r].pc = "mark" /\ Goto(r, "count")
      /\ UNCHANGED <<visibility, status, mode, options, opened, recent>>
  BY DEF MarkFirst
<1>2. TablesHold'
  BY <1>1, MarkFirstPlays, RowsPlayedKeep
<1> QED
  BY <1>1, <1>2, GotoKeeps

LEMMA MarkTrackPlays ==
    ASSUME JukeboxInv, NEW r \in Requests, MarkTrack(r)
    PROVE  request[r].session \in Sessions /\ RowsPlayed(request[r].session)
<1>1. PICK s \in Sessions : s = request[r].session
  BY InvariantFacts DEF MarkTrack, Shaped
<1>2. PICK t : t = request[r].track
  OBVIOUS
<1>3. PICK q \in Seq(Tracks) : q = queue[s]
  BY QueueFacts
<1>4. PICK w : w = RemoveFirst(q, t)
  OBVIOUS
<1>5. PICK F : F = Range(q) \cap {t}
  OBVIOUS
<1>6. IsInjective(q)
  BY <1>3, QueueFacts
<1>7. /\ w \in Seq(Tracks) /\ IsInjective(w) /\ Range(w) = Range(q) \ {t}
      /\ Len(w) <= Len(q)
  BY <1>4, <1>6, OneRemoved
<1>8. queue' = [queue EXCEPT ![s] = w]
  BY <1>1, <1>2, <1>3, <1>4, QueueFacts DEF MarkTrack
<1>9. played' = [played EXCEPT ![s] = played[s] \cup F]
  <2>1. CASE t \in Range(q)
    BY <1>1, <1>2, <1>3, <1>5, <2>1, QueueFacts, ZenonT(40) DEF MarkTrack
  <2>2. CASE t \notin Range(q)
    <3>1. played[s] \cup F = played[s]
      BY <1>5, <2>2
    <3>2. played' = [played EXCEPT ![s] = played[s]]
      BY <1>1, <1>2, <1>3, <2>2, QueueFacts DEF MarkTrack
    <3> QED
      BY <3>1, <3>2
  <2> QED
    BY <2>1, <2>2
<1>10. F \in SUBSET Range(q) /\ Range(w) = Range(q) \ F
  BY <1>5, <1>7
<1>11. RowsPlayed(s)
  BY <1>3, <1>7, <1>8, <1>9, <1>10 DEF RowsPlayed
<1> QED
  BY <1>1, <1>11

LEMMA MarkTrackKeeps ==
    ASSUME JukeboxInv, NEW r \in Requests, MarkTrack(r)
    PROVE  JukeboxInv'
<1>1. /\ request[r].pc = "markTrack" /\ request[r].track \in Tracks /\ Goto(r, "clear")
      /\ UNCHANGED <<visibility, status, mode, options, opened, recent>>
  BY InvariantFacts DEF MarkTrack, Shaped
<1>2. TablesHold'
  BY <1>1, MarkTrackPlays, RowsPlayedKeep
<1> QED
  BY <1>1, <1>2, GotoKeeps

LEMMA ClearUnplayedKeeps ==
    ASSUME JukeboxInv, NEW r \in Requests, ClearUnplayed(r)
    PROVE  JukeboxInv'
<1>0. PICK n : n = request[r] /\ Shaped(n) /\ n \in RequestRecord
               /\ request \in [Requests -> RequestRecord]
  BY InvariantFacts
<1>1. n.pc = "clear" /\ n.session \in Sessions
  BY <1>0 DEF ClearUnplayed, Shaped
<1>2. PICK s \in Sessions : s = n.session
  BY <1>1
<1>3. PICK w : w = <<>>
  OBVIOUS
<1>4. /\ queue' = [queue EXCEPT ![s] = w]
      /\ recent' = [recent EXCEPT ![s] = recent[s] \ Range(queue[s])]
      /\ UNCHANGED <<visibility, status, mode, options, opened, played>>
  BY <1>0, <1>2, <1>3, QueueFacts DEF ClearUnplayed
<1>5. w \in Seq(Tracks) /\ IsInjective(w) /\ Range(w) = {}
  BY <1>3 DEF IsInjective, Range
<1>6. recent' \in [Sessions -> SUBSET Tracks]
  BY <1>1, <1>4, QueueFacts
<1>7. /\ played' = [played EXCEPT ![s] = played[s]] /\ played[s] \in SUBSET Tracks
      /\ Range(w) \cap played[s] = {} /\ \A x \in Range(w) : visibility[x] # "deleted"
  BY <1>4, <1>5, QueueFacts
<1>8. TablesHold'
  BY <1>4, <1>5, <1>6, <1>7, QueueReplaced
<1>9. PICK m : m = [n EXCEPT !.pc = "count", !.left = {}]
  OBVIOUS
<1>10. request' = [request EXCEPT ![r] = m]
  BY <1>0, <1>9 DEF ClearUnplayed
<1>11. m \in RequestRecord /\ m.pc = "count" /\ m.session = n.session
  BY <1>0, <1>9 DEF RequestRecord, Steps
<1>12. Shaped(m) /\ Succeeded(m)
  BY <1>1, <1>11 DEF Shaped, Succeeded
<1> QED
  BY <1>4, <1>8, <1>10, <1>12, RequestKeeps

LEMMA IgnoreErrorKeeps ==
    ASSUME JukeboxInv, NEW r \in Requests, IgnoreError(r)
    PROVE  JukeboxInv'
<1>1. request[r].pc \in {"endStale", "mark", "markTrack", "clear"}
  BY DEF IgnoreError, Unheeded
<1>2. PICK pc \in {"clear", "count"} : Goto(r, pc)
  BY <1>1 DEF IgnoreError, Unheeded
<1>3. /\ TablesHold /\ options' \in [Sessions -> Options]
      /\ UNCHANGED <<visibility, status, mode, opened, rows>>
  BY InvariantFacts DEF IgnoreError, TablesTyped
<1>4. TablesHold'
  BY <1>3, TablesKept
<1> QED
  BY <1>1, <1>2, <1>3, <1>4, GotoKeeps

\* Appending to a sequence what is not in it.
LEMMA OneAppended ==
    ASSUME NEW S, NEW q \in Seq(S), IsInjective(q), NEW t \in S, t \notin Range(q)
    PROVE  /\ Append(q, t) \in Seq(S) /\ IsInjective(Append(q, t))
           /\ Range(Append(q, t)) = Range(q) \cup {t}
<1>1. PICK n \in Nat : n = Len(q) /\ DOMAIN q = 1..n
  OBVIOUS
<1>2. PICK w : w = Append(q, t)
  OBVIOUS
<1>3. /\ w \in Seq(S) /\ DOMAIN w = 1..(n + 1)
      /\ w[n + 1] = t /\ \A i \in 1..n : w[i] = q[i]
  BY <1>1, <1>2, AppendProperties
<1>4. IsInjective(w)
  BY <1>1, <1>3 DEF IsInjective, Range
<1>5. Range(w) = Range(q) \cup {t}
  <2>1. Range(q) = {q[i] : i \in 1..n} /\ Range(w) = {w[i] : i \in 1..(n + 1)}
    BY <1>1, <1>3 DEF Range
  <2>2. \A i \in 1..(n + 1) : i \in 1..n \/ i = n + 1
    OBVIOUS
  <2>3. n + 1 \in 1..(n + 1) /\ \A i \in 1..n : i \in 1..(n + 1)
    OBVIOUS
  <2> QED
    BY <1>3, <2>1, <2>2, <2>3
<1> QED
  BY <1>2, <1>3, <1>4, <1>5

LEMMA InsertPickKeeps ==
    ASSUME ConstantsAssumption, JukeboxInv, NEW r \in Requests, InsertPick(r)
    PROVE  JukeboxInv'
<1>0. PICK n : n = request[r] /\ Shaped(n) /\ n \in RequestRecord
  BY InvariantFacts
<1>1. n.pc = "insert" /\ n.session \in Sessions /\ n.picks # <<>> /\ n.picks \in Seq(Tracks)
  BY <1>0 DEF InsertPick, Shaped, RequestRecord
<1>2. PICK s \in Sessions : s = n.session
  BY <1>1
<1>3. PICK t \in Tracks : t = Head(n.picks)
  BY <1>1
<1>4. PICK rest \in Seq(Tracks) : rest = Tail(n.picks)
  <2>1. Tail(n.picks) \in Seq(Tracks)
    BY <1>1, HeadTailProperties, Zenon
  <2> QED
    BY <2>1
<1>5. PICK w : w = IF IsNew(s, t) THEN Append(queue[s], t) ELSE queue[s]
  OBVIOUS
<1>6. PICK R : R = IF IsNew(s, t) THEN recent[s] \cup {t} ELSE recent[s]
  OBVIOUS
<1>7. /\ queue' = [queue EXCEPT ![s] = w]
      /\ recent' = [recent EXCEPT ![s] = R]
      /\ request' = [request EXCEPT ![r] =
             CASE visibility[t] = "deleted" -> IdleRequest
               [] visibility[t] # "deleted" /\ rest = <<>> -> Answering(r)
               [] OTHER -> [@ EXCEPT !.picks = rest]]
      /\ UNCHANGED <<visibility, status, mode, options, opened, played>>
  BY <1>0, <1>2, <1>3, <1>4, <1>5, <1>6, QueueFacts DEF InsertPick
<1>8. /\ w \in Seq(Tracks) /\ IsInjective(w) /\ Range(w) \cap played[s] = {}
      /\ \A x \in Range(w) : visibility[x] # "deleted"
  <2>1. CASE IsNew(s, t)
    <3>1. t \notin Range(queue[s]) /\ t \notin played[s] /\ visibility[t] # "deleted"
      BY <2>1 DEF IsNew, InSession
    <3>2. w = Append(queue[s], t)
      BY <1>5, <2>1
    <3>3. w \in Seq(Tracks) /\ IsInjective(w) /\ Range(w) = Range(queue[s]) \cup {t}
      BY <3>1, <3>2, QueueFacts, OneAppended
    <3> QED
      BY <3>1, <3>3, QueueFacts
  <2>2. CASE ~IsNew(s, t)
    BY <1>5, <2>2, QueueFacts
  <2> QED
    BY <2>1, <2>2
<1>9. /\ played' = [played EXCEPT ![s] = played[s]] /\ played[s] \in SUBSET Tracks
      /\ recent' \in [Sessions -> SUBSET Tracks]
  BY <1>6, <1>7, QueueFacts
<1>10. TablesHold'
  BY <1>7, <1>8, <1>9, QueueReplaced
<1>11. PICK m : m = CASE visibility[t] = "deleted" -> IdleRequest
                      [] visibility[t] # "deleted" /\ rest = <<>> -> Answering(r)
                      [] OTHER -> [n EXCEPT !.picks = rest]
  OBVIOUS
<1>12. request' = [request EXCEPT ![r] = m]
  BY <1>0, <1>7, <1>11, InvariantFacts
<1>13. Shaped(m) /\ Succeeded(m)
  <2>1. CASE visibility[t] = "deleted"
    <3>1. m = IdleRequest
      BY <1>11, <2>1
    <3> QED
      BY <3>1, IdleShaped DEF Succeeded, IdleRequest
  <2>2. CASE visibility[t] # "deleted" /\ rest = <<>>
    <3>1. m = Answering(r)
      BY <1>11, <2>2
    <3> QED
      BY <1>0, <1>1, <3>1, AnsweringShaped DEF Succeeded
  <2>3. CASE visibility[t] # "deleted" /\ rest # <<>>
    <3>1. m = [n EXCEPT !.picks = rest]
      BY <1>11, <2>3
    <3>2. m \in RequestRecord /\ m.pc = n.pc /\ m.session = n.session /\ m.picks = rest
      BY <1>0, <1>1, <3>1 DEF RequestRecord
    <3> QED
      BY <1>1, <2>3, <3>2 DEF Shaped, Succeeded
  <2> QED
    BY <2>1, <2>2, <2>3
<1> QED
  BY <1>7, <1>10, <1>12, <1>13, RequestKeeps

-----------------------------------------------------------------------------
(* What happens around the service, and the inductive invariant.           *)

\* A step that leaves the requests and the sessions alone.
LEMMA AroundKeeps ==
    ASSUME JukeboxInv, TablesHold', UNCHANGED <<request, status, mode, opened>>
    PROVE  JukeboxInv'
<1>1. ASSUME NEW q \in Requests PROVE Shaped(request[q])'
  BY DEF JukeboxInv, Shaped
<1>2. ASSUME NEW q \in Requests PROVE Succeeded(request[q])'
  BY DEF JukeboxInv, Succeeded, ActiveOf
<1> QED
  BY <1>1, <1>2 DEF JukeboxInv

LEMMA ResetOptionsKeeps ==
    ASSUME JukeboxInv, ResetOptions
    PROVE  JukeboxInv'
<1>1. TablesHold /\ TablesTyped
  BY DEF JukeboxInv, TablesHold
<1>2. options' \in [Sessions -> Options]
  BY <1>1, NoOptionsTyped DEF ResetOptions, TablesTyped
<1>3. TablesHold'
  BY <1>1, <1>2, TablesKept DEF ResetOptions
<1> QED
  BY <1>3, AroundKeeps DEF ResetOptions

LEMMA RowAgesKeeps ==
    ASSUME JukeboxInv, NEW s \in Sessions, NEW t \in Tracks, RowAges(s, t)
    PROVE  JukeboxInv'
<1>1. TablesHold /\ TablesTyped
  BY DEF JukeboxInv, TablesHold
<1>2. recent' \in [Sessions -> SUBSET Tracks]
  BY <1>1 DEF RowAges, TablesTyped
<1>3. TablesHold'
  BY <1>1, <1>2
  DEF RowAges, TablesHold, TablesTyped, NeverPlayedTwice, GoneIsGone, OpenedOnce
<1> QED
  BY <1>3, AroundKeeps DEF RowAges

LEMMA SetVisibilityKeeps ==
    ASSUME JukeboxInv, NEW t \in Tracks, NEW v \in {"public", "private"},
           SetVisibility(t, v)
    PROVE  JukeboxInv'
<1>1. TablesHold /\ TablesTyped
  BY DEF JukeboxInv, TablesHold
<1>2. visibility' \in [Tracks -> {"public", "private", "deleted"}]
  BY <1>1 DEF SetVisibility, TablesTyped
<1>3. \A x \in Tracks : visibility[x] # "deleted" => visibility'[x] # "deleted"
  BY <1>1 DEF SetVisibility, TablesTyped
<1>4. UNCHANGED <<status, mode, options, opened, queue, played, recent, request>>
  BY DEF SetVisibility, rows
<1>5. GoneIsGone'
  <2>1. ASSUME NEW s \in Sessions, NEW x \in Range(queue[s]) PROVE visibility'[x] # "deleted"
    BY <1>3, QueueFacts
  <2> QED
    BY <1>4, <2>1 DEF GoneIsGone
<1>6. TablesHold'
  BY <1>1, <1>2, <1>4, <1>5 DEF TablesHold, TablesTyped, NeverPlayedTwice, OpenedOnce
<1> QED
  BY <1>4, <1>6, AroundKeeps

LEMMA DeleteTrackKeeps ==
    ASSUME JukeboxInv, NEW t \in Tracks, DeleteTrack(t)
    PROVE  JukeboxInv'
<1>1. TablesHold /\ TablesTyped
  BY DEF JukeboxInv, TablesHold
<1>2. /\ visibility' = [visibility EXCEPT ![t] = "deleted"]
      /\ queue' = [s \in Sessions |-> RemoveFirst(queue[s], t)]
      /\ played' = [s \in Sessions |-> played[s] \ {t}]
      /\ recent' = [s \in Sessions |-> recent[s] \ {t}]
      /\ UNCHANGED <<status, mode, options, opened, request>>
  BY DEF DeleteTrack
<1>3. ASSUME NEW s \in Sessions
      PROVE  /\ queue'[s] \in Seq(Tracks) /\ IsInjective(queue'[s])
             /\ Range(queue'[s]) = Range(queue[s]) \ {t}
  <2>1. PICK q \in Seq(Tracks) : q = queue[s] /\ IsInjective(q)
    BY QueueFacts
  <2>2. PICK w : w = RemoveFirst(q, t)
    OBVIOUS
  <2>3. w \in Seq(Tracks) /\ IsInjective(w) /\ Range(w) = Range(q) \ {t}
    BY <2>1, <2>2, OneRemoved
  <2>4. queue'[s] = w
    BY <1>2, <2>1, <2>2
  <2> QED
    BY <2>1, <2>3, <2>4
<1>4. /\ queue' \in [Sessions -> Seq(Tracks)]
      /\ visibility' \in [Tracks -> {"public", "private", "deleted"}]
      /\ played' \in [Sessions -> SUBSET Tracks] /\ recent' \in [Sessions -> SUBSET Tracks]
  <2>1. queue' \in [Sessions -> Seq(Tracks)]
    <3>1. DOMAIN queue' = Sessions /\ queue' = [s \in Sessions |-> queue'[s]]
      BY <1>2
    <3> QED
      BY <1>3, <3>1
  <2> QED
    BY <1>1, <1>2, <2>1 DEF TablesTyped
<1>5. NeverPlayedTwice'
  <2>1. ASSUME NEW s \in Sessions PROVE Range(queue'[s]) \cap played'[s] = {}
    BY <1>2, <1>3, QueueFacts
  <2> QED
    BY <1>3, <2>1 DEF NeverPlayedTwice
<1>6. GoneIsGone'
  <2>1. ASSUME NEW s \in Sessions, NEW x \in Range(queue'[s]) PROVE visibility'[x] # "deleted"
    BY <1>1, <1>2, <1>3, QueueFacts DEF TablesTyped
  <2> QED
    BY <2>1 DEF GoneIsGone
<1>7. TablesHold'
  BY <1>1, <1>2, <1>4, <1>5, <1>6 DEF TablesHold, TablesTyped, OpenedOnce
<1> QED
  BY <1>2, <1>7, AroundKeeps
\* A step of request r leaves the other requests alone.
LEMMA OneAtATime ==
    ASSUME JukeboxInv, NEW r \in Requests, RequestStep(r), NEW q \in Requests, q # r
    PROVE  request'[q] = request[q]
BY InvariantFacts
DEF RequestStep, FindReusable, EndStale, CreateSession, LoadForNext, MarkFirst,
    LoadForFeedback, SaveOptions, MarkTrack, ClearUnplayed, IgnoreError, CountUnplayed,
    ChoosePicks, InsertPick, Reply, Abort, Goto

\* Which step takes a request where.
LEMMA StepsTo ==
    ASSUME ConstantsAssumption, JukeboxInv, NEW r \in Requests, RequestStep(r)
    PROVE  /\ request'[r].pc = "create" => \E k \in Modes : FindReusable(r, k)
           /\ request'[r].pc = "save" =>
                 \E s \in Sessions, t \in Tracks \cup {NoTrack}, action \in Feedbacks :
                    LoadForFeedback(r, s, t, action)
           /\ request'[r].pc = "markTrack" => SaveOptions(r)
           /\ request'[r].pc = "clear" => SaveOptions(r) \/ MarkTrack(r) \/ IgnoreError(r)
           /\ request'[r].pc = "pick" => CountUnplayed(r)
           /\ request'[r].pc = "insert" => ChoosePicks(r) \/ InsertPick(r)
           /\ request'[r].pc = "reply" => CountUnplayed(r) \/ ChoosePicks(r) \/ InsertPick(r)
<1>1. PICK n : n = request[r] /\ n \in RequestRecord /\ request \in [Requests -> RequestRecord]
  BY InvariantFacts
<1>2. Answering(r).pc = "reply" /\ IdleRequest.pc = "idle"
  BY DEF Answering, IdleRequest
<1>3. \A pc \in Steps : Goto(r, pc) => request'[r].pc = pc
  BY <1>1 DEF Goto, RequestRecord
<1>4. \A k \in Modes : FindReusable(r, k) => request'[r].pc \in {"create", "endStale"}
  <2>1. ASSUME NEW k \in Modes, FindReusable(r, k), ActiveOf(k) = {}
        PROVE  request'[r].pc = "create"
    BY <1>1, <2>1 DEF FindReusable, IdleRequest
  <2>2. ASSUME NEW k \in Modes, FindReusable(r, k), ActiveOf(k) # {}
        PROVE  request'[r].pc = "endStale"
    <3>1. PICK x, s, o : /\ x = [IdleRequest EXCEPT !.pc = "endStale", !.mode = k,
                                                   !.session = s, !.options = o]
                         /\ request'[r] = x
      BY <1>1, <2>2 DEF FindReusable
    <3> QED
      BY <3>1 DEF IdleRequest
  <2> QED
    BY <2>1, <2>2
<1>5. (EndStale(r) \/ MarkFirst(r) \/ ClearUnplayed(r)) => request'[r].pc = "count"
  BY <1>1, <1>3 DEF EndStale, MarkFirst, ClearUnplayed, Steps, RequestRecord
<1>6. \A s \in Sessions : CreateSession(r, s) => request'[r].pc = "count"
  BY <1>1 DEF CreateSession, RequestRecord
<1>7. \A s \in Sessions, k \in 0..Window :
          LoadForNext(r, s, k) => request'[r].pc \in {"mark", "count"}
  BY <1>1 DEF LoadForNext, IdleRequest
<1>8. \A s \in Sessions, t \in Tracks \cup {NoTrack}, action \in Feedbacks :
          LoadForFeedback(r, s, t, action) => request'[r].pc = "save"
  BY <1>1 DEF LoadForFeedback, IdleRequest
<1>9. /\ SaveOptions(r) => request'[r].pc \in {"markTrack", "clear"}
      /\ MarkTrack(r) => request'[r].pc = "clear"
      /\ IgnoreError(r) => request'[r].pc \in {"clear", "count"}
  BY <1>3 DEF SaveOptions, MarkTrack, IgnoreError, Unheeded, Steps
<1>10. CountUnplayed(r) => request'[r].pc \in {"reply", "pick"}
  BY <1>1, <1>2 DEF CountUnplayed, RequestRecord
<1>11. ChoosePicks(r) => request'[r].pc \in {"reply", "insert"}
  <2>1. ASSUME ChoosePicks(r) PROVE request'[r].pc \in {"reply", "insert"}
    <3>1. PICK p : request' = [request EXCEPT ![r] =
                      IF p = <<>> THEN Answering(r)
                      ELSE [@ EXCEPT !.pc = "insert", !.picks = p, !.count = 0]]
      BY <2>1 DEF ChoosePicks
    <3> QED
      BY <1>1, <1>2, <3>1 DEF RequestRecord
  <2> QED
    BY <2>1
<1>12. InsertPick(r) => request'[r].pc \in {"idle", "reply", "insert"}
  <2> SUFFICES ASSUME InsertPick(r) PROVE request'[r].pc \in {"idle", "reply", "insert"}
    OBVIOUS
  <2>1. n.pc = "insert"
    BY <1>1 DEF InsertPick
  <2>2. PICK t, rest, m :
          /\ request'[r] = m
          /\ m = CASE visibility[t] = "deleted" -> IdleRequest
                   [] visibility[t] # "deleted" /\ rest = <<>> -> Answering(r)
                   [] OTHER -> [n EXCEPT !.picks = rest]
    BY <1>1 DEF InsertPick
  <2>3. CASE visibility[t] = "deleted"
    BY <1>2, <2>2, <2>3
  <2>4. CASE visibility[t] # "deleted" /\ rest = <<>>
    BY <1>2, <2>2, <2>4
  <2>5. CASE visibility[t] # "deleted" /\ rest # <<>>
    BY <1>1, <2>1, <2>2, <2>5 DEF RequestRecord
  <2> QED
    BY <2>3, <2>4, <2>5
<1>13. (Reply(r) \/ Abort(r)) => request'[r].pc = "idle"
  BY <1>1, <1>2 DEF Reply, Abort
<1> QED
  BY <1>4, <1>5, <1>6, <1>7, <1>8, <1>9, <1>10, <1>11, <1>12, <1>13 DEF RequestStep

LEMMA RequestStepKeeps ==
    ASSUME ConstantsAssumption, JukeboxInv, NEW r \in Requests, RequestStep(r)
    PROVE  JukeboxInv'
<1>1. CASE \E k \in Modes : FindReusable(r, k)
  BY <1>1, FindReusableKeeps
<1>2. CASE EndStale(r)
  BY <1>2, EndStaleKeeps
<1>3. CASE \E s \in Sessions : CreateSession(r, s)
  BY <1>3, CreateSessionKeeps
<1>4. CASE \E s \in Sessions, n \in 0..Window : LoadForNext(r, s, n)
  BY <1>4, LoadForNextKeeps
<1>5. CASE MarkFirst(r)
  BY <1>5, MarkFirstKeeps
<1>6. CASE \E s \in Sessions, t \in Tracks \cup {NoTrack}, action \in Feedbacks :
               LoadForFeedback(r, s, t, action)
  BY <1>6, LoadForFeedbackKeeps
<1>7. CASE SaveOptions(r)
  BY <1>7, SaveOptionsKeeps
<1>8. CASE MarkTrack(r)
  BY <1>8, MarkTrackKeeps
<1>9. CASE ClearUnplayed(r)
  BY <1>9, ClearUnplayedKeeps
<1>10. CASE CountUnplayed(r)
  BY <1>10, CountUnplayedKeeps
<1>11. CASE ChoosePicks(r)
  BY <1>11, ChoosePicksKeeps
<1>12. CASE InsertPick(r)
  BY <1>12, InsertPickKeeps
<1>13. CASE Reply(r) \/ Abort(r)
  BY <1>13, EndKeeps
<1>14. CASE IgnoreError(r)
  BY <1>14, IgnoreErrorKeeps
<1> QED
  BY <1>1, <1>2, <1>3, <1>4, <1>5, <1>6, <1>7, <1>8, <1>9, <1>10, <1>11, <1>12, <1>13, <1>14
  DEF RequestStep

LEMMA NextKeeps ==
    ASSUME ConstantsAssumption, JukeboxInv, [Next]_vars
    PROVE  JukeboxInv'
<1>1. CASE \E r \in Requests : RequestStep(r)
  BY <1>1, RequestStepKeeps
<1>2. CASE ResetOptions
  BY <1>2, ResetOptionsKeeps
<1>3. CASE \E s \in Sessions, t \in Tracks : RowAges(s, t)
  BY <1>3, RowAgesKeeps
<1>4. CASE \E t \in Unsteady, v \in {"public", "private"} : SetVisibility(t, v)
  BY <1>4, SetVisibilityKeeps DEF ConstantsAssumption
<1>5. CASE \E t \in Unsteady : DeleteTrack(t)
  BY <1>5, DeleteTrackKeeps DEF ConstantsAssumption
<1>6. CASE UNCHANGED vars
  <2>1. TablesHold /\ TablesTyped
    BY DEF JukeboxInv, TablesHold
  <2>2. TablesHold'
    BY <1>6, <2>1, TablesKept DEF vars, TablesTyped
  <2> QED
    BY <1>6, <2>2, AroundKeeps DEF vars
<1> QED
  BY <1>1, <1>2, <1>3, <1>4, <1>5, <1>6 DEF Next

LEMMA InitHolds == ASSUME ConstantsAssumption, Init PROVE JukeboxInv
<1>1. /\ visibility = [t \in Tracks |-> "public"]
      /\ status = [s \in Sessions |-> "none"]
      /\ mode = [s \in Sessions |-> NoMode]
      /\ options = [s \in Sessions |-> NoOptions]
      /\ opened = <<>>
      /\ queue = [s \in Sessions |-> <<>>]
      /\ played = [s \in Sessions |-> {}]
      /\ recent = [s \in Sessions |-> {}]
      /\ request = [r \in Requests |-> IdleRequest]
  BY DEF Init
<1>2. PICK nil : nil = <<>>
  OBVIOUS
<1>3. nil \in Seq(Tracks) /\ nil \in Seq(Sessions) /\ IsInjective(nil) /\ Range(nil) = {}
  BY <1>2 DEF IsInjective, Range
<1>4. \A s \in Sessions : queue[s] = nil /\ played[s] = {} /\ status[s] = "none"
  BY <1>1, <1>2
<1>5. TablesTyped
  BY <1>1, <1>2, <1>3, NoOptionsTyped DEF TablesTyped
<1>6. NeverPlayedTwice /\ GoneIsGone
  BY <1>3, <1>4 DEF NeverPlayedTwice, GoneIsGone
<1>7. OpenedOnce
  BY <1>1, <1>2, <1>3, <1>4 DEF OpenedOnce
<1>8. Shaped(IdleRequest) /\ Succeeded(IdleRequest)
  BY IdleShaped DEF Succeeded, IdleRequest
<1>9. request \in [Requests -> RequestRecord]
  BY <1>1, <1>8 DEF Shaped
<1>10. ASSUME NEW r \in Requests PROVE Shaped(request[r]) /\ Succeeded(request[r])
  BY <1>1, <1>8
<1> QED
  BY <1>5, <1>6, <1>7, <1>9, <1>10 DEF JukeboxInv, TablesHold

LEMMA JukeboxInvariant == Spec => []JukeboxInv
<1>1. Init => JukeboxInv
  BY ConstantsAssumption, InitHolds
<1>2. JukeboxInv /\ [Next]_vars => JukeboxInv'
  BY ConstantsAssumption, NextKeeps
<1> QED
  BY <1>1, <1>2, PTL DEF Spec

-----------------------------------------------------------------------------
(* The results.                                                            *)

\* The rows, the sessions and what the requests have in memory are of their
\* types, for any number of requests.
THEOREM JukeboxTyped == Spec => []TypeOK
<1>1. JukeboxInv => TypeOK
  BY DEF JukeboxInv, TablesHold, TablesTyped, TypeOK, RequestRecord
<1> QED
  BY JukeboxInvariant, <1>1, PTL

\* However many requests fill, mark and clear one queue at the same time, and
\* whatever is hidden or deleted meanwhile, no track is offered twice.
THEOREM NeverOfferedTwice == Spec => []NeverPlayedTwice
<1>1. JukeboxInv => NeverPlayedTwice
  BY DEF JukeboxInv, TablesHold
<1> QED
  BY JukeboxInvariant, <1>1, PTL

\* A start that retires stale sessions leaves one of the mode active, although
\* the session it keeps may be ended already.
LEMMA RetiringKeepsOne ==
    ASSUME JukeboxInv, NEW r \in Requests, EndStale(r), NEW m \in Modes, ActiveOf(m) # {}
    PROVE  ActiveOf(m)' # {}
<1>1. PICK k \in Modes, kept \in Sessions : k = request[r].mode /\ kept = request[r].session
  BY EndStaleFacts
<1>2. \E s \in ActiveOf(k) : \E i, j \in DOMAIN opened :
          opened[i] = s /\ opened[j] = kept /\ j <= i
  BY <1>1, EndStaleFacts
<1>3. PICK a \in DOMAIN opened :
        /\ opened[a] = kept
        /\ \E s \in ActiveOf(k) : \E i \in DOMAIN opened : opened[i] = s /\ a <= i
  BY <1>2
<1>4. PICK s \in ActiveOf(k) \ Stale(k, kept) : TRUE
  BY <1>2, <1>3, NewerStays
<1>5. CASE m = k
  BY <1>1, <1>4, <1>5, EndStaleFacts
<1>6. CASE m # k
  BY <1>1, <1>6, EndStaleFacts
<1> QED
  BY <1>5, <1>6

LEMMA OthersRetireNone ==
    ASSUME JukeboxInv, NEW r \in Requests, RequestStep(r), ~EndStale(r),
           NEW s \in Sessions, status[s] = "active"
    PROVE  status'[s] = "active" /\ mode'[s] = mode[s]
<1>1. CASE \E x \in Sessions : CreateSession(r, x)
  BY <1>1, InvariantFacts DEF CreateSession, TablesTyped
<1>2. CASE UNCHANGED <<status, mode>>
  BY <1>2
<1> QED
  BY <1>1, <1>2
  DEF RequestStep, FindReusable, LoadForNext, MarkFirst, LoadForFeedback, SaveOptions,
      MarkTrack, ClearUnplayed, IgnoreError, CountUnplayed, ChoosePicks, InsertPick,
      Reply, Abort

\* Starts that race, however many, never leave a mode without its sessions.
THEOREM StartsKeepSession == Spec => ModeKeepsSession
<1>1. JukeboxInv /\ [Next]_vars => [\A m \in Modes : ActiveOf(m) # {} => ActiveOf(m)' # {}]_vars
  <2> SUFFICES ASSUME JukeboxInv, Next, NEW m \in Modes, ActiveOf(m) # {}
               PROVE  ActiveOf(m)' # {}
    OBVIOUS
  <2>1. ASSUME NEW r \in Requests, EndStale(r) PROVE ActiveOf(m)' # {}
    BY <2>1, RetiringKeepsOne
  <2>2. ASSUME NEW r \in Requests, RequestStep(r), ~EndStale(r) PROVE ActiveOf(m)' # {}
    <3>1. PICK s \in Sessions : status[s] = "active" /\ mode[s] = m
      BY DEF ActiveOf
    <3>2. status'[s] = "active" /\ mode'[s] = m
      BY <2>2, <3>1, OthersRetireNone
    <3> QED
      BY <3>2 DEF ActiveOf
  <2>3. ASSUME UNCHANGED <<status, mode>> PROVE ActiveOf(m)' # {}
    BY <2>3 DEF ActiveOf
  <2> QED
    BY <2>1, <2>2, <2>3 DEF Next, ResetOptions, RowAges, SetVisibility, DeleteTrack
<1> QED
  BY JukeboxInvariant, <1>1, PTL DEF Spec, ModeKeepsSession
=============================================================================
