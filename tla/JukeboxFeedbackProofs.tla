------------------------ MODULE JukeboxFeedbackProofs ------------------------
(***************************************************************************)
(* What a request nobody disturbs does with the queue: a feedback rebuilds *)
(* it with what its options admit, and Radio refills it.                   *)
(***************************************************************************)
EXTENDS JukeboxQueueProofs

-----------------------------------------------------------------------------
(* A request that nobody disturbs.                                         *)

Alone == \A q, r \in Requests : q = r

\* Track t is one the options o admit.
Fits(o, t) == t \notin o.banned /\ o.fixed \in {NoGenre, Genre[t]}

\* Until it is cleared, the queue holds nothing a feedback has not met there, and
\* then only picks its options admit beside what is left of that; the picks yet to
\* be inserted have no recent row.
Steady(n) ==
    /\ n.pc \in {"create", "endStale", "mark"} => ~n.feedback
    /\ n.pc \in {"save", "markTrack", "clear"} => Range(queue[n.session]) \subseteq n.left
    /\ n.pc = "pick" => n.count # 0
    /\ n.pc = "insert" =>
          /\ IsInjective(n.picks)
          /\ \A t \in Range(n.picks) : t \notin recent[n.session] /\ Fits(n.options, t)
    /\ n.feedback /\ n.pc \in {"count", "pick", "insert"} =>
          \A t \in Range(queue[n.session]) : t \in n.left \/ Fits(n.options, t)

LEMMA StartingSteady ==
    ASSUME ConstantsAssumption, JukeboxInv, NEW r \in Requests, Steady(request[r]),
           \/ \E k \in Modes : FindReusable(r, k)
           \/ EndStale(r)
           \/ \E s \in Sessions : CreateSession(r, s)
           \/ \E s \in Sessions, k \in 0..Window : LoadForNext(r, s, k)
           \/ MarkFirst(r)
    PROVE  Steady(request[r])'
<1>1. PICK n : n = request[r] /\ n \in RequestRecord /\ request \in [Requests -> RequestRecord]
  BY InvariantFacts
<1>2. CASE ~request'[r].feedback /\ request'[r].pc \in {"create", "endStale", "mark", "count"}
  BY <1>2 DEF Steady
<1>3. CASE EndStale(r) \/ MarkFirst(r)
  <2>1. PICK m : m = [n EXCEPT !.pc = "count"] /\ request'[r] = m
    BY <1>1, <1>3 DEF EndStale, MarkFirst, Goto
  <2>2. ~m.feedback /\ m.pc = "count"
    BY <1>1, <1>3, <2>1 DEF EndStale, MarkFirst, Steady, RequestRecord
  <2> QED
    BY <1>2, <2>1, <2>2
<1>4. CASE \E s \in Sessions : CreateSession(r, s)
  <2>1. PICK s, m : m = [n EXCEPT !.pc = "count", !.session = s] /\ request'[r] = m
    BY <1>1, <1>4 DEF CreateSession
  <2>2. ~m.feedback /\ m.pc = "count"
    BY <1>1, <1>4, <2>1 DEF CreateSession, Steady, RequestRecord
  <2> QED
    BY <1>2, <2>1, <2>2
<1>5. CASE \E s \in Sessions, k \in 0..Window : LoadForNext(r, s, k)
  <2>1. PICK pc, s, o, k, m :
          /\ m = [IdleRequest EXCEPT !.pc = pc, !.session = s, !.options = o, !.count = k]
          /\ pc \in {"count", "mark"} /\ request'[r] = m
    <3>1. PICK s, k : LoadForNext(r, s, k)
      BY <1>5
    <3>2. PICK pc : pc = IF k = 0 THEN "count" ELSE "mark"
      OBVIOUS
    <3> QED
      BY <1>1, <3>1, <3>2 DEF LoadForNext
  <2>2. ~m.feedback /\ m.pc \in {"count", "mark"}
    BY <2>1 DEF IdleRequest
  <2> QED
    BY <1>2, <2>1, <2>2
<1>6. CASE \E k \in Modes : FindReusable(r, k)
  <2>1. PICK k \in Modes : FindReusable(r, k)
    BY <1>6
  <2>2. CASE ActiveOf(k) = {}
    BY <1>1, <1>2, <2>1, <2>2, ZenonT(40) DEF FindReusable, IdleRequest
  <2>3. CASE ActiveOf(k) # {}
    <3>1. PICK x, s, o : /\ x = [IdleRequest EXCEPT !.pc = "endStale", !.mode = k,
                                                   !.session = s, !.options = o]
                         /\ request'[r] = x
      BY <1>1, <2>1, <2>3 DEF FindReusable
    <3>2. ~x.feedback /\ x.pc = "endStale"
      BY <3>1 DEF IdleRequest
    <3> QED
      BY <1>2, <3>1, <3>2
  <2> QED
    BY <2>2, <2>3
<1> QED
  BY <1>3, <1>4, <1>5, <1>6

LEMMA CommentingSteady ==
    ASSUME ConstantsAssumption, JukeboxInv, NEW r \in Requests, Steady(request[r]),
           \/ \E s \in Sessions, t \in Tracks \cup {NoTrack}, action \in Feedbacks :
                 LoadForFeedback(r, s, t, action)
           \/ SaveOptions(r) \/ MarkTrack(r) \/ ClearUnplayed(r) \/ IgnoreError(r)
           \/ Reply(r) \/ Abort(r)
    PROVE  Steady(request[r])'
<1>1. PICK n : n = request[r] /\ n \in RequestRecord /\ request \in [Requests -> RequestRecord]
               /\ Shaped(n) /\ Steady(n)
  BY InvariantFacts
<1>2. CASE \E s \in Sessions, t \in Tracks \cup {NoTrack}, action \in Feedbacks :
              LoadForFeedback(r, s, t, action)
  <2>1. PICK m, s, t, o :
            /\ m = [IdleRequest EXCEPT !.pc = "save", !.session = s, !.track = t,
                                       !.options = o, !.feedback = TRUE,
                                       !.left = Range(queue[s])]
            /\ request' = [request EXCEPT ![r] = m] /\ queue' = queue
    BY <1>2 DEF LoadForFeedback, rows
  <2>2. m.pc = "save" /\ m.session = s /\ m.left = Range(queue[s])
    BY <2>1 DEF IdleRequest
  <2>3. request'[r] = m
    BY <1>1, <2>1
  <2>4. m.pc = "save" /\ Range(queue'[m.session]) \subseteq m.left
    BY <2>1, <2>2
  <2> QED
    BY <2>3, <2>4 DEF Steady
<1>3. ASSUME NEW pc, request' = [request EXCEPT ![r].pc = pc], n.session \in Sessions,
             Range(queue'[n.session]) \subseteq Range(queue[n.session]),
             \/ n.pc \in {"save", "markTrack", "clear"} /\ pc \in {"markTrack", "clear", "count"}
             \/ n.pc \in {"endStale", "mark"} /\ pc = "count"
      PROVE  Steady(request[r])'
  <2>1. PICK m : m = [n EXCEPT !.pc = pc] /\ request'[r] = m
    BY <1>1, <1>3
  <2>2. /\ m.pc = pc /\ m.session = n.session /\ m.left = n.left
        /\ m.feedback = n.feedback /\ m.options = n.options
    BY <1>1, <2>1 DEF RequestRecord
  <2>3. CASE n.pc \in {"save", "markTrack", "clear"}
    <3>1. Range(queue'[n.session]) \subseteq n.left
      BY <1>1, <1>3, <2>3 DEF Steady
    <3> QED
      BY <1>3, <2>1, <2>2, <2>3, <3>1 DEF Steady
  <2>4. CASE n.pc \in {"endStale", "mark"}
    <3>1. ~n.feedback
      BY <1>1, <2>4 DEF Steady
    <3> QED
      BY <1>3, <2>1, <2>2, <2>4, <3>1 DEF Steady
  <2> QED
    BY <1>3, <2>3, <2>4
<1>4. CASE SaveOptions(r)
  BY <1>1, <1>3, <1>4 DEF SaveOptions, Goto, Shaped, rows
<1>5. CASE MarkTrack(r)
  <2>1. n.session \in Sessions /\ RowsPlayed(n.session) /\ n.pc = "markTrack"
        /\ request' = [request EXCEPT ![r].pc = "clear"]
    BY <1>1, <1>5, MarkTrackPlays DEF MarkTrack, Goto
  <2>2. Range(queue'[n.session]) \subseteq Range(queue[n.session])
    BY <2>1, QueueFacts DEF RowsPlayed
  <2> QED
    BY <1>3, <2>1, <2>2
<1>6. CASE IgnoreError(r)
  <2>1. /\ n.pc \in {"endStale", "mark", "markTrack", "clear"} /\ queue' = queue
        /\ request' = [request EXCEPT ![r].pc = Unheeded[n.pc]]
    BY <1>1, <1>6 DEF IgnoreError, Goto, Unheeded, rows
  <2>2. /\ Unheeded[n.pc] \in {"clear", "count"}
        /\ n.pc \in {"endStale", "mark"} => Unheeded[n.pc] = "count"
    BY <2>1 DEF Unheeded
  <2>3. n.session \in Sessions
    BY <1>1, <2>1 DEF Shaped
  <2> QED
    BY <1>3, <2>1, <2>2, <2>3
<1>7. CASE Reply(r) \/ Abort(r)
  <2>1. request'[r].pc = "idle"
    BY <1>1, <1>7 DEF Reply, Abort, IdleRequest
  <2> QED
    BY <2>1 DEF Steady
<1>8. CASE ClearUnplayed(r)
  <2>1. PICK m : m = [n EXCEPT !.pc = "count", !.left = {}] /\ request'[r] = m
    BY <1>1, <1>8 DEF ClearUnplayed
  <2>2. m.pc = "count" /\ m.session = n.session /\ n.session \in Sessions
    BY <1>1, <1>8, <2>1 DEF ClearUnplayed, RequestRecord, Shaped
  <2>3. PICK w : w = <<>> /\ queue'[n.session] = w
    BY <1>1, <1>8, <2>2, QueueFacts DEF ClearUnplayed
  <2>4. Range(w) = {}
    BY <2>3 DEF Range
  <2> QED
    BY <2>1, <2>2, <2>3, <2>4 DEF Steady
<1> QED
  BY <1>2, <1>4, <1>5, <1>6, <1>7, <1>8

LEMMA CountingSteady ==
    ASSUME ConstantsAssumption, JukeboxInv, NEW r \in Requests, Steady(request[r]),
           CountUnplayed(r)
    PROVE  Steady(request[r])'
<1>1. PICK n : n = request[r] /\ n \in RequestRecord /\ request \in [Requests -> RequestRecord]
               /\ Shaped(n)
  BY InvariantFacts
<1>2. n.pc = "count" /\ queue' = queue /\ n.session \in Sessions
  BY <1>1 DEF CountUnplayed, rows, Shaped
<1>3. PICK k \in Nat, W \in Nat : k = Len(queue[n.session]) /\ W = Window
  BY <1>2, QueueFacts DEF ConstantsAssumption
<1>4. CASE k >= W
  <2>1. request'[r].pc = "reply"
    BY <1>1, <1>3, <1>4 DEF CountUnplayed, Answering, IdleRequest
  <2> QED
    BY <2>1 DEF Steady
<1>5. CASE ~(k >= W)
  <2>1. PICK m : m = [n EXCEPT !.pc = "pick", !.count = W - k] /\ request'[r] = m
    BY <1>1, <1>3, <1>5 DEF CountUnplayed
  <2>2. /\ m.pc = "pick" /\ m.count = W - k /\ m.session = n.session
        /\ m.feedback = n.feedback /\ m.left = n.left /\ m.options = n.options
    BY <1>1, <2>1 DEF RequestRecord
  <2>3. m.count # 0
    BY <1>5, <2>2
  <2> QED
    BY <1>1, <1>2, <2>1, <2>2, <2>3 DEF Steady
<1> QED
  BY <1>4, <1>5

\* What ChoosePicks has to choose from, and what it does with its choice.
LEMMA ChoosingFacts ==
    ASSUME ConstantsAssumption, JukeboxInv, NEW r \in Requests, ChoosePicks(r)
    PROVE  \E K \in Liked(mode[request[r].session], request[r].options) :
           \E R \in SUBSET (Admitted(request[r].session, request[r].options) \cap K) :
             /\ R = {} => Admitted(request[r].session, request[r].options) \cap K = {}
             /\ \E p \in Picks(R, request[r].count) :
                  request'[r] = IF p = <<>> THEN Answering(r)
                                ELSE [request[r] EXCEPT !.pc = "insert", !.picks = p, !.count = 0]
<1>1. PICK n : n = request[r] /\ request \in [Requests -> RequestRecord]
  BY InvariantFacts
<1>2. PICK K \in Liked(mode[n.session], n.options), limited \in SUBSET Tracks :
        \E p \in Picks(Ranked(Admitted(n.session, n.options) \cap K, limited), n.count) :
            request' = [request EXCEPT ![r] =
                IF p = <<>> THEN Answering(r)
                ELSE [@ EXCEPT !.pc = "insert", !.picks = p, !.count = 0]]
  BY <1>1 DEF ChoosePicks
<1>3. PICK A : A = Admitted(n.session, n.options) \cap K
  OBVIOUS
<1>4. PICK R \in SUBSET A : R = Ranked(A, limited) /\ (R = {} => A = {})
  BY DEF Ranked
<1>5. PICK p \in Picks(R, n.count) :
        request' = [request EXCEPT ![r] =
            IF p = <<>> THEN Answering(r)
            ELSE [@ EXCEPT !.pc = "insert", !.picks = p, !.count = 0]]
  BY <1>2, <1>3, <1>4
<1>6. request'[r] = IF p = <<>> THEN Answering(r)
                    ELSE [n EXCEPT !.pc = "insert", !.picks = p, !.count = 0]
  BY <1>1, <1>5
<1> QED
  BY <1>1, <1>3, <1>4, <1>6

LEMMA ChoosingSteady ==
    ASSUME ConstantsAssumption, JukeboxInv, NEW r \in Requests, Steady(request[r]),
           ChoosePicks(r)
    PROVE  Steady(request[r])'
<1>1. PICK n : n = request[r] /\ n \in RequestRecord /\ request \in [Requests -> RequestRecord]
               /\ Shaped(n)
  BY InvariantFacts
<1>2. n.pc = "pick" /\ queue' = queue /\ recent' = recent /\ n.count \in Nat
  BY <1>1 DEF ChoosePicks, rows, RequestRecord, ConstantsAssumption
<1>3. PICK R \in SUBSET Admitted(n.session, n.options) : \E p \in Picks(R, n.count) :
        request'[r] = IF p = <<>> THEN Answering(r)
                      ELSE [n EXCEPT !.pc = "insert", !.picks = p, !.count = 0]
  BY <1>1, ChoosingFacts
<1>4. PICK p \in Picks(R, n.count) :
        request'[r] = IF p = <<>> THEN Answering(r)
                      ELSE [n EXCEPT !.pc = "insert", !.picks = p, !.count = 0]
  BY <1>3
<1>5. CASE p = <<>>
  <2>1. request'[r].pc = "reply"
    BY <1>4, <1>5 DEF Answering, IdleRequest
  <2> QED
    BY <2>1 DEF Steady
<1>6. CASE p # <<>>
  <2>1. PICK m : m = [n EXCEPT !.pc = "insert", !.picks = p, !.count = 0] /\ request'[r] = m
    BY <1>4, <1>6
  <2>2. /\ m.pc = "insert" /\ m.picks = p /\ m.session = n.session
        /\ m.feedback = n.feedback /\ m.left = n.left /\ m.options = n.options
    BY <1>1, <2>1 DEF RequestRecord
  <2>3. R \in SUBSET Tracks
    BY <1>3 DEF Admitted, Candidates
  <2>4. p \in Seq(R) /\ IsInjective(p)
    BY <1>2, <2>3, PicksTyped
  <2>5. \A t \in Range(p) : t \in R
    BY <2>4 DEF Range
  <2>6. \A t \in R : t \notin recent[n.session] /\ Fits(n.options, t)
    BY <1>3 DEF Admitted, Fits
  <2> QED
    BY <1>1, <1>2, <2>1, <2>2, <2>4, <2>5, <2>6 DEF Steady
<1> QED
  BY <1>5, <1>6
LEMMA TailOfInjective ==
    ASSUME NEW S, NEW q \in Seq(S), q # <<>>, IsInjective(q)
    PROVE  /\ Tail(q) \in Seq(S) /\ IsInjective(Tail(q)) /\ Head(q) \in Range(q)
           /\ Range(Tail(q)) \subseteq Range(q) \ {Head(q)}
<1>1. PICK n \in Nat \ {0} : n = Len(q) /\ DOMAIN q = 1..n
  OBVIOUS
<1>2. PICK w : w = Tail(q)
  OBVIOUS
<1>3. w \in Seq(S) /\ DOMAIN w = 1..(n - 1) /\ \A i \in 1..(n - 1) : w[i] = q[i + 1]
  <2>1. /\ Tail(q) \in Seq(S) /\ Len(Tail(q)) = Len(q) - 1
        /\ \A i \in 1..Len(Tail(q)) : Tail(q)[i] = q[i + 1]
    BY HeadTailProperties, Zenon
  <2> QED
    BY <1>1, <1>2, <2>1
<1>4. Head(q) = q[1] /\ 1 \in 1..n
  BY <1>1
<1>5. \A x, y \in 1..n : q[x] = q[y] => x = y
  BY <1>1 DEF IsInjective
<1>6. IsInjective(w)
  <2>1. ASSUME NEW i \in 1..(n - 1), NEW j \in 1..(n - 1), w[i] = w[j] PROVE i = j
    BY <1>1, <1>3, <1>5, <2>1
  <2> QED
    BY <1>3, <2>1 DEF IsInjective
<1>7. \A i \in 1..(n - 1) : w[i] \in Range(q) \ {Head(q)}
  <2>1. ASSUME NEW i \in 1..(n - 1) PROVE w[i] \in Range(q) \ {Head(q)}
    <3>1. i + 1 \in 1..n /\ i + 1 # 1
      BY <1>1
    <3>2. q[i + 1] # q[1]
      BY <1>4, <1>5, <3>1
    <3> QED
      BY <1>1, <1>3, <1>4, <3>1, <3>2 DEF Range
  <2> QED
    BY <2>1
<1>8. Range(w) \subseteq Range(q) \ {Head(q)}
  BY <1>3, <1>7 DEF Range
<1>9. Head(q) \in Range(q)
  BY <1>1, <1>4 DEF Range
<1> QED
  BY <1>2, <1>3, <1>6, <1>8, <1>9

\* The request n inserts its pick t into session s and becomes m, with the rest
\* of its picks: it adds the row unless there is one already.
Inserted(n, m, s, t, rest) ==
    /\ s = n.session /\ t \notin recent[s] /\ Fits(n.options, t)
    /\ Range(queue'[s]) = Range(queue[s]) \cup (IF IsNew(s, t) THEN {t} ELSE {})
    /\ recent'[s] = recent[s] \cup (IF IsNew(s, t) THEN {t} ELSE {})
    /\ IsInjective(rest)
    /\ \A u \in Range(rest) : u # t /\ u \notin recent[s] /\ Fits(n.options, u)
    /\ \/ m = [n EXCEPT !.picks = rest]
       \/ m.pc = "idle"
       \/ m.pc = "reply" /\ visibility[t] # "deleted"

LEMMA InsertingFacts ==
    ASSUME ConstantsAssumption, JukeboxInv, NEW r \in Requests, Steady(request[r]),
           InsertPick(r)
    PROVE  \E s \in Sessions, t \in Tracks, rest \in Seq(Tracks) :
               Inserted(request[r], request'[r], s, t, rest)
<1>1. PICK n : n = request[r] /\ n \in RequestRecord /\ request \in [Requests -> RequestRecord]
               /\ Shaped(n) /\ Steady(n)
  BY InvariantFacts
<1>2. n.pc = "insert" /\ n.session \in Sessions /\ n.picks # <<>> /\ n.picks \in Seq(Tracks)
  BY <1>1 DEF InsertPick, Shaped, RequestRecord
<1>3. PICK q \in Seq(Tracks) : q = n.picks /\ q # <<>>
  BY <1>2
<1>4. /\ IsInjective(q)
      /\ \A t \in Range(q) : t \notin recent[n.session] /\ Fits(n.options, t)
  BY <1>1, <1>2, <1>3 DEF Steady
<1>5. PICK s \in Sessions : s = n.session
  BY <1>2
<1>6. PICK t \in Tracks : t = Head(q)
  BY <1>3
<1>7. q # <<>> /\ IsInjective(q)
  BY <1>3, <1>4
<1>8. /\ Tail(q) \in Seq(Tracks) /\ IsInjective(Tail(q)) /\ Head(q) \in Range(q)
      /\ Range(Tail(q)) \subseteq Range(q) \ {Head(q)}
  BY <1>7, TailOfInjective
<1>9. PICK rest \in Seq(Tracks) : rest = Tail(q)
  BY <1>8
<1>10. /\ t \notin recent[s] /\ Fits(n.options, t) /\ IsInjective(rest)
       /\ \A u \in Range(rest) : u # t /\ u \notin recent[s] /\ Fits(n.options, u)
  BY <1>4, <1>5, <1>6, <1>8, <1>9
<1>11. /\ queue' = [queue EXCEPT ![s] = IF IsNew(s, t) THEN Append(@, t) ELSE @]
       /\ recent' = [recent EXCEPT ![s] = IF IsNew(s, t) THEN @ \cup {t} ELSE @]
       /\ request' = [request EXCEPT ![r] =
              CASE visibility[t] = "deleted" -> IdleRequest
                [] visibility[t] # "deleted" /\ rest = <<>> -> Answering(r)
                [] OTHER -> [@ EXCEPT !.picks = rest]]
  BY <1>1, <1>3, <1>5, <1>6, <1>9 DEF InsertPick
<1>12. recent'[s] = recent[s] \cup (IF IsNew(s, t) THEN {t} ELSE {})
  BY <1>11, QueueFacts
<1>13. Range(queue'[s]) = Range(queue[s]) \cup (IF IsNew(s, t) THEN {t} ELSE {})
  <2>1. CASE IsNew(s, t)
    <3>1. PICK v \in Seq(Tracks) : v = queue[s]
      BY QueueFacts
    <3>2. IsInjective(v) /\ t \notin Range(v)
      BY <2>1, <3>1, QueueFacts DEF IsNew, InSession
    <3>3. Range(Append(v, t)) = Range(v) \cup {t}
      BY <3>2, OneAppended
    <3>4. queue'[s] = Append(v, t)
      BY <1>11, <2>1, <3>1, QueueFacts
    <3> QED
      BY <2>1, <3>1, <3>3, <3>4
  <2>2. CASE ~IsNew(s, t)
    BY <1>11, <2>2, QueueFacts
  <2> QED
    BY <2>1, <2>2
<1>14. PICK m : /\ request'[r] = m
                /\ m = CASE visibility[t] = "deleted" -> IdleRequest
                         [] visibility[t] # "deleted" /\ rest = <<>> -> Answering(r)
                         [] OTHER -> [n EXCEPT !.picks = rest]
  BY <1>1, <1>11
<1>15. \/ m = [n EXCEPT !.picks = rest] \/ m.pc = "idle"
       \/ m.pc = "reply" /\ visibility[t] # "deleted"
  <2>1. IdleRequest.pc = "idle" /\ Answering(r).pc = "reply"
    BY DEF Answering, IdleRequest
  <2>2. CASE visibility[t] = "deleted"
    BY <1>14, <2>1, <2>2
  <2>3. CASE visibility[t] # "deleted" /\ rest = <<>>
    BY <1>14, <2>1, <2>3
  <2>4. CASE visibility[t] # "deleted" /\ rest # <<>>
    BY <1>14, <2>4
  <2> QED
    BY <2>2, <2>3, <2>4
<1>16. Inserted(n, m, s, t, rest)
  BY <1>5, <1>10, <1>12, <1>13, <1>15 DEF Inserted
<1> QED
  BY <1>1, <1>14, <1>16

LEMMA InsertingSteady ==
    ASSUME ConstantsAssumption, JukeboxInv, NEW r \in Requests, Steady(request[r]),
           InsertPick(r)
    PROVE  Steady(request[r])'
<1>1. PICK n : n = request[r] /\ n \in RequestRecord /\ Steady(n)
  BY InvariantFacts
<1>2. n.pc = "insert"
  BY <1>1 DEF InsertPick
<1>3. PICK s \in Sessions, t \in Tracks, rest \in Seq(Tracks) :
        Inserted(n, request'[r], s, t, rest)
  BY <1>1, InsertingFacts
<1>4. CASE request'[r].pc \in {"idle", "reply"}
  BY <1>4 DEF Steady
<1>5. CASE request'[r] = [n EXCEPT !.picks = rest]
  <2>1. PICK m : m = [n EXCEPT !.picks = rest] /\ request'[r] = m
    BY <1>5
  <2>2. /\ m.pc = "insert" /\ m.picks = rest /\ m.session = s /\ s = n.session
        /\ m.feedback = n.feedback /\ m.left = n.left /\ m.options = n.options
    BY <1>1, <1>2, <1>3, <2>1 DEF Inserted, RequestRecord
  <2>3. \A u \in Range(rest) : u \notin recent'[s] /\ Fits(n.options, u)
    BY <1>3 DEF Inserted
  <2>4. n.feedback => \A u \in Range(queue'[s]) : u \in n.left \/ Fits(n.options, u)
    BY <1>1, <1>2, <1>3 DEF Inserted, Steady
  <2>5. IsInjective(rest)
    BY <1>3 DEF Inserted
  <2> QED
    BY <2>1, <2>2, <2>3, <2>4, <2>5 DEF Steady
<1> QED
  BY <1>3, <1>4, <1>5 DEF Inserted
LEMMA AloneSteady ==
    ASSUME ConstantsAssumption, Alone, JukeboxInv, \A r \in Requests : Steady(request[r]),
           [Next]_vars, NEW r \in Requests
    PROVE  Steady(request[r])'
<1>1. CASE \E q \in Requests : RequestStep(q)
  <2>1. RequestStep(r)
    BY <1>1 DEF Alone
  <2> QED
    BY <2>1, StartingSteady, CommentingSteady, CountingSteady, ChoosingSteady, InsertingSteady
    DEF RequestStep
<1>2. CASE /\ request' = request
           /\ \A s \in Sessions : /\ Range(queue'[s]) \subseteq Range(queue[s])
                                  /\ recent'[s] \subseteq recent[s]
  <2>1. PICK n : n = request[r] /\ n = request'[r] /\ Shaped(n) /\ Steady(n)
    BY <1>2, InvariantFacts
  <2>2. CASE n.pc \in {"save", "markTrack", "clear", "count", "pick", "insert"}
    <3>1. n.session \in Sessions
      BY <2>1, <2>2 DEF Shaped
    <3> QED
      BY <1>2, <2>1, <3>1 DEF Steady
  <2>3. CASE n.pc \notin {"save", "markTrack", "clear", "count", "pick", "insert"}
    BY <2>1, <2>3 DEF Steady
  <2> QED
    BY <2>2, <2>3
<1>3. CASE UNCHANGED <<request, queue>> /\ \A s \in Sessions : recent'[s] \subseteq recent[s]
  BY <1>2, <1>3
<1>4. CASE \E s \in Sessions, t \in Tracks : RowAges(s, t)
  BY <1>3, <1>4, QueueFacts DEF RowAges
<1>5. CASE \E t \in Unsteady : DeleteTrack(t)
  <2>1. PICK t : DeleteTrack(t)
    BY <1>5
  <2>2. request' = request /\ \A s \in Sessions : recent'[s] \subseteq recent[s]
    BY <2>1 DEF DeleteTrack
  <2>3. ASSUME NEW s \in Sessions PROVE Range(queue'[s]) \subseteq Range(queue[s])
    <3>1. PICK q \in Seq(Tracks) : q = queue[s]
      BY QueueFacts
    <3>2. IsInjective(q)
      BY <3>1, QueueFacts
    <3>3. PICK w : w = RemoveFirst(q, t)
      OBVIOUS
    <3>4. Range(w) = Range(q) \ {t}
      BY <3>2, <3>3, OneRemoved
    <3>5. queue'[s] = w
      BY <2>1, <3>1, <3>3 DEF DeleteTrack
    <3> QED
      BY <3>1, <3>4, <3>5
  <2> QED
    BY <1>2, <2>2, <2>3
<1> QED
  BY <1>1, <1>3, <1>4, <1>5 DEF Next, ResetOptions, SetVisibility, vars, rows

LEMMA SteadyInit == ASSUME Init PROVE \A r \in Requests : Steady(request[r])
BY DEF Init, IdleRequest, Steady

\* The steps with which a lone request is done with the queue.
LEMMA FilledBy ==
    ASSUME ConstantsAssumption, Alone, JukeboxInv, Next, NEW r \in Requests, Filled(r)
    PROVE  CountUnplayed(r) \/ ChoosePicks(r) \/ InsertPick(r)
<1>1. request' # request
  BY DEF Filled
<1>2. PICK q \in Requests : RequestStep(q)
  BY <1>1 DEF Next, ResetOptions, RowAges, SetVisibility, DeleteTrack
<1>3. RequestStep(r)
  BY <1>2 DEF Alone
<1> QED
  BY <1>3, StepsTo DEF Filled

LEMMA RebuiltAtTheEnd ==
    ASSUME ConstantsAssumption, Alone, JukeboxInv, NEW r \in Requests, Steady(request[r]),
           Next, Filled(r), request[r].feedback,
           NEW t \in Range(queue'[request[r].session])
    PROVE  t \in request[r].left \/ Fits(request[r].options, t)
<1>1. CASE CountUnplayed(r) \/ ChoosePicks(r)
  BY <1>1 DEF CountUnplayed, ChoosePicks, Steady, rows
<1>2. CASE InsertPick(r)
  <2>1. PICK s \in Sessions, u \in Tracks, rest \in Seq(Tracks) :
          Inserted(request[r], request'[r], s, u, rest)
    BY <1>2, InsertingFacts
  <2>2. s = request[r].session /\ Fits(request[r].options, u)
        /\ (t \in Range(queue[s]) \/ t = u)
    BY <2>1 DEF Inserted
  <2> QED
    BY <1>2, <2>2 DEF InsertPick, Steady
<1> QED
  BY <1>1, <1>2, FilledBy

\* A queue that has a row is not empty.
LEMMA RowsFill == ASSUME NEW q, NEW t \in Range(q) PROVE q # <<>>
<1>1. Range(<<>>) = {}
  BY DEF Range
<1> QED
  BY <1>1

LEMMA FullAtTheEnd ==
    ASSUME ConstantsAssumption, Alone, JukeboxInv, NEW r \in Requests, Steady(request[r]),
           Next, Filled(r), IsFresh(request[r].session), Playable(r) # {}
    PROVE  queue'[request[r].session] # <<>>
<1>1. PICK n : n = request[r] /\ n \in RequestRecord /\ Shaped(n) /\ Steady(n)
               /\ request \in [Requests -> RequestRecord]
  BY InvariantFacts
<1>2. CASE CountUnplayed(r)
  <2>1. n.pc = "count" /\ n.session \in Sessions /\ queue' = queue
    BY <1>1, <1>2 DEF CountUnplayed, Shaped, rows
  <2>2. PICK k \in Nat, W \in Nat \ {0} : k = Len(queue[n.session]) /\ W = Window
    BY <2>1, QueueFacts DEF ConstantsAssumption
  <2>3. k >= W
    <3>1. CASE ~(k >= W)
      <4>1. PICK m : m = [n EXCEPT !.pc = "pick", !.count = W - k] /\ request'[r] = m
        BY <1>1, <1>2, <2>2, <3>1 DEF CountUnplayed
      <4>2. m.pc = "pick"
        BY <1>1, <4>1 DEF RequestRecord
      <4> QED
        BY <4>1, <4>2 DEF Filled
    <3> QED
      BY <3>1
  <2>4. Len(queue[n.session]) # 0
    BY <2>2, <2>3
  <2> QED
    BY <1>1, <2>1, <2>4
<1>3. CASE ChoosePicks(r)
  <2>1. n.pc = "pick" /\ n.count \in Nat \ {0}
    BY <1>1, <1>3 DEF ChoosePicks, Steady, RequestRecord, ConstantsAssumption
  <2>2. PICK K \in Liked(mode[n.session], n.options) :
          \E R \in SUBSET (Admitted(n.session, n.options) \cap K) :
             /\ R = {} => Admitted(n.session, n.options) \cap K = {}
             /\ \E p \in Picks(R, n.count) :
                  request'[r] = IF p = <<>> THEN Answering(r)
                                ELSE [n EXCEPT !.pc = "insert", !.picks = p, !.count = 0]
    BY <1>1, <1>3, ChoosingFacts
  <2>3. PICK R \in SUBSET (Admitted(n.session, n.options) \cap K) :
             /\ R = {} => Admitted(n.session, n.options) \cap K = {}
             /\ \E p \in Picks(R, n.count) :
                  request'[r] = IF p = <<>> THEN Answering(r)
                                ELSE [n EXCEPT !.pc = "insert", !.picks = p, !.count = 0]
    BY <2>2
  <2>4. PICK p \in Picks(R, n.count) :
          request'[r] = IF p = <<>> THEN Answering(r)
                        ELSE [n EXCEPT !.pc = "insert", !.picks = p, !.count = 0]
    BY <2>3
  <2>5. R # {}
    <3>1. PICK t : /\ t \in Admitted(n.session, n.options) /\ t \in Popular
                   /\ mode[n.session] = Radio /\ ~n.options.muted
      BY <1>1 DEF Playable
    <3>2. t \in K
      BY <2>2, <3>1 DEF Liked
    <3> QED
      BY <2>3, <3>1, <3>2
  <2>6. Cardinality(R) \in Nat \ {0}
    <3>1. R \in SUBSET Tracks
      BY <2>3 DEF Admitted, Candidates
    <3>2. IsFiniteSet(R)
      BY <3>1, FS_Subset DEF ConstantsAssumption
    <3> QED
      BY <2>5, <3>2, FS_CardinalityType, FS_EmptySet
  <2>7. PICK c \in Nat \ {0} :
          c = IF n.count <= Cardinality(R) THEN n.count ELSE Cardinality(R)
    BY <2>1, <2>6
  <2>8. p \in [1..c -> R]
    BY <2>7 DEF Picks
  <2>9. p # <<>>
    <3>1. 1 \in DOMAIN p
      BY <2>7, <2>8
    <3> QED
      BY <3>1
  <2>10. PICK m : m = [n EXCEPT !.pc = "insert", !.picks = p, !.count = 0] /\ request'[r] = m
    BY <2>4, <2>9
  <2>11. m.pc = "insert"
    BY <1>1, <2>10 DEF RequestRecord
  <2> QED
    BY <2>10, <2>11 DEF Filled
<1>4. CASE InsertPick(r)
  <2>1. PICK s \in Sessions, t \in Tracks, rest \in Seq(Tracks) :
          Inserted(n, request'[r], s, t, rest)
    BY <1>1, <1>4, InsertingFacts
  <2>2. n.pc = "insert" /\ request'[r].pc = "reply"
    BY <1>1, <1>4 DEF InsertPick, Filled
  <2>3. visibility[t] # "deleted"
    <3>1. CASE request'[r] = [n EXCEPT !.picks = rest]
      <4>1. PICK m : m = [n EXCEPT !.picks = rest] /\ request'[r] = m
        BY <3>1
      <4>2. m.pc = "insert"
        BY <1>1, <2>2, <4>1 DEF RequestRecord
      <4> QED
        BY <2>2, <4>1, <4>2
    <3> QED
      BY <2>1, <2>2, <3>1 DEF Inserted
  <2>4. s = n.session /\ t \notin recent[s]
    BY <2>1 DEF Inserted
  <2>5. t \notin InSession(s)
    BY <1>1, <2>4 DEF IsFresh
  <2>6. t \in Range(queue'[s])
    BY <2>1, <2>3, <2>5 DEF Inserted, IsNew
  <2> QED
    BY <1>1, <2>4, <2>6, RowsFill
<1> QED
  BY <1>2, <1>3, <1>4, FilledBy

\* After a feedback, a request that no other disturbs answers with a queue in
\* which every track is one the new options admit or one the feedback has failed
\* to clear it of, whatever is hidden, deleted or reset meanwhile.
THEOREM FeedbackRebuilds == ASSUME Alone PROVE Spec => FeedbackRebuildsQueue
<1> DEFINE Inv == \A r \in Requests : Steady(request[r])
<1>1. Init => Inv
  BY SteadyInit
<1>2. JukeboxInv /\ Inv /\ [Next]_vars => Inv'
  BY Alone, ConstantsAssumption, AloneSteady
<1>3. JukeboxInv /\ Inv /\ [Next]_vars =>
        [\A r \in Requests :
          Filled(r) /\ request[r].feedback =>
            \A t \in Range(queue'[request[r].session]) :
                \/ t \in request[r].left
                \/ /\ t \notin request[r].options.banned
                   /\ request[r].options.fixed \in {NoGenre, Genre[t]}]_vars
  BY Alone, ConstantsAssumption, RebuiltAtTheEnd DEF Fits
<1> QED
  BY JukeboxInvariant, <1>1, <1>2, <1>3, PTL DEF Spec, FeedbackRebuildsQueue

\* A request of a Radio session that no other disturbs answers with an empty
\* queue, while all rows of the session are recent, only if nothing is left to
\* play.
THEOREM RadioRefills == ASSUME Alone PROVE Spec => RefillsWhileFresh
<1> DEFINE Inv == \A r \in Requests : Steady(request[r])
<1>1. Init => Inv
  BY SteadyInit
<1>2. JukeboxInv /\ Inv /\ [Next]_vars => Inv'
  BY Alone, ConstantsAssumption, AloneSteady
<1>3. JukeboxInv /\ Inv /\ [Next]_vars =>
        [\A r \in Requests :
          Filled(r) /\ IsFresh(request[r].session) => Refills(r)]_vars
  BY Alone, ConstantsAssumption, FullAtTheEnd DEF Refills
<1> QED
  BY JukeboxInvariant, <1>1, <1>2, <1>3, PTL DEF Spec, RefillsWhileFresh
=============================================================================
