-------------------------- MODULE OutputScale_proofs --------------------------
(***************************************************************************)
(* What configure_output_scale keeps in S, and what it returns: for any    *)
(* heads, modes, versions and bounds.  The types of the two queues and of  *)
(* S, the tokens of a registry, sync or configuration that are answered    *)
(* once, and the result that is the verdict.  What S says of the screens   *)
(* is in OutputScaleScreens_proofs.                                        *)
(***************************************************************************)
EXTENDS OutputScale, FiniteSetTheorems, SequenceTheorems, TLAPS

-----------------------------------------------------------------------------
(* The two queues. *)

\* A queue without its first member.
LEMMA RestOf ==
  ASSUME NEW T, NEW q \in Seq(T), q # <<>>
  PROVE  /\ Head(q) \in T /\ Head(q) = q[1] /\ 1 \in DOMAIN q
         /\ Tail(q) \in Seq(T) /\ DOMAIN q \subseteq Int /\ DOMAIN Tail(q) \subseteq Int
         /\ \A i \in DOMAIN q : q[i] \in T /\ i >= 1
         /\ \A i \in DOMAIN Tail(q) : i + 1 \in DOMAIN q /\ Tail(q)[i] = q[i + 1]
         /\ \A i \in DOMAIN q : i # 1 => i - 1 \in DOMAIN Tail(q) /\ Tail(q)[i - 1] = q[i]
<1>1. /\ Head(q) \in T /\ Tail(q) \in Seq(T) /\ Len(Tail(q)) = Len(q) - 1
      /\ \A i \in 1..Len(Tail(q)) : Tail(q)[i] = q[i + 1]
  BY HeadTailProperties
<1>2. /\ Len(q) \in Nat /\ DOMAIN q = 1..Len(q) /\ DOMAIN Tail(q) = 1..Len(Tail(q))
      /\ Head(q) = q[1] /\ Len(q) # 0 /\ \A i \in DOMAIN q : q[i] \in T
  BY <1>1, EmptySeq, LenProperties, ElementOfSeq
<1>3. ASSUME NEW i \in DOMAIN q, i # 1
      PROVE  i - 1 \in DOMAIN Tail(q) /\ Tail(q)[i - 1] = q[i]
  <2>1. i - 1 \in 1..Len(Tail(q)) /\ (i - 1) + 1 = i
    BY <1>1, <1>2, <1>3
  <2>2. Tail(q)[i - 1] = q[(i - 1) + 1]
    BY <1>1, <2>1
  <2> QED BY <1>2, <2>1, <2>2
<1>4. ASSUME NEW i \in DOMAIN Tail(q)
      PROVE  i + 1 \in DOMAIN q /\ Tail(q)[i] = q[i + 1]
  BY <1>1, <1>2, <1>4
<1> QED BY <1>1, <1>2, <1>3, <1>4

\* A queue with more behind it.
LEMMA JoinOf ==
  ASSUME NEW T, NEW p \in Seq(T), NEW q \in Seq(T)
  PROVE  /\ p \o q \in Seq(T) /\ Len(p) \in Nat
         /\ DOMAIN p = 1..Len(p) /\ DOMAIN q = 1..Len(q)
         /\ DOMAIN (p \o q) = 1..(Len(p) + Len(q)) /\ Len(p \o q) = Len(p) + Len(q)
         /\ \A i \in DOMAIN p : i \in DOMAIN (p \o q) /\ (p \o q)[i] = p[i]
         /\ \A j \in DOMAIN q :
              Len(p) + j \in DOMAIN (p \o q) /\ (p \o q)[Len(p) + j] = q[j]
         /\ \A i \in DOMAIN (p \o q) :
              \/ i \in DOMAIN p /\ (p \o q)[i] = p[i]
              \/ i > Len(p) /\ i - Len(p) \in DOMAIN q /\ (p \o q)[i] = q[i - Len(p)]
<1>1. /\ p \o q \in Seq(T) /\ Len(p \o q) = Len(p) + Len(q)
      /\ \A i \in 1..(Len(p) + Len(q)) :
           (p \o q)[i] = IF i <= Len(p) THEN p[i] ELSE q[i - Len(p)]
  BY ConcatProperties
<1>2. /\ Len(p) \in Nat /\ Len(q) \in Nat
      /\ DOMAIN p = 1..Len(p) /\ DOMAIN q = 1..Len(q)
      /\ DOMAIN (p \o q) = 1..(Len(p) + Len(q))
  BY <1>1, LenProperties
<1>3. ASSUME NEW j \in DOMAIN q
      PROVE  Len(p) + j \in DOMAIN (p \o q) /\ (p \o q)[Len(p) + j] = q[j]
  <2>1. Len(p) + j \in 1..(Len(p) + Len(q)) /\ ~(Len(p) + j <= Len(p))
        /\ (Len(p) + j) - Len(p) = j
    BY <1>2
  <2>2. (p \o q)[Len(p) + j] = q[(Len(p) + j) - Len(p)]
    BY <1>1, <2>1
  <2> QED BY <1>2, <2>1, <2>2
<1>4. ASSUME NEW i \in DOMAIN (p \o q)
      PROVE  \/ i \in DOMAIN p /\ (p \o q)[i] = p[i]
             \/ i > Len(p) /\ i - Len(p) \in DOMAIN q /\ (p \o q)[i] = q[i - Len(p)]
  BY <1>1, <1>2
<1>5. ASSUME NEW i \in DOMAIN p
      PROVE  i \in DOMAIN (p \o q) /\ (p \o q)[i] = p[i]
  BY <1>1, <1>2
<1> QED BY <1>1, <1>2, <1>3, <1>4, <1>5

\* Something of the kind k is in a queue, and not more than once.
Mentions(q, k) == \E i \in DOMAIN q : q[i].kind = k

Once(q, k) == \A i, j \in DOMAIN q : q[i].kind = k /\ q[j].kind = k => i = j

LEMMA MentionsMore ==
  ASSUME NEW T, NEW q \in Seq(T), NEW p \in Seq(T), NEW k
  PROVE  Mentions(q \o p, k) <=> Mentions(q, k) \/ Mentions(p, k)
<1>1. ASSUME NEW j \in DOMAIN p, p[j].kind = k
      PROVE  Mentions(q \o p, k)
  <2>1. Len(q) + j \in DOMAIN (q \o p) /\ (q \o p)[Len(q) + j] = p[j]
    BY JoinOf
  <2> QED BY <1>1, <2>1 DEF Mentions
<1>2. ASSUME NEW j \in DOMAIN q, q[j].kind = k
      PROVE  Mentions(q \o p, k)
  <2>1. j \in DOMAIN (q \o p) /\ (q \o p)[j] = q[j]
    BY JoinOf
  <2> QED BY <1>2, <2>1 DEF Mentions
<1>3. ASSUME NEW j \in DOMAIN (q \o p), (q \o p)[j].kind = k
      PROVE  Mentions(q, k) \/ Mentions(p, k)
  BY <1>3, JoinOf DEF Mentions
<1> QED BY <1>1, <1>2, <1>3 DEF Mentions

LEMMA OnceMore ==
  ASSUME NEW T, NEW q \in Seq(T), NEW p \in Seq(T), NEW k, Once(q, k), Once(p, k),
         ~Mentions(q, k) \/ ~Mentions(p, k)
  PROVE  Once(q \o p, k)
<1> SUFFICES ASSUME NEW i \in DOMAIN (q \o p), NEW j \in DOMAIN (q \o p),
                    (q \o p)[i].kind = k, (q \o p)[j].kind = k
             PROVE  i = j
  BY DEF Once
<1>1. Len(q) \in Nat /\ DOMAIN q = 1..Len(q) /\ DOMAIN p = 1..Len(p)
      /\ DOMAIN (q \o p) = 1..(Len(q) + Len(p)) /\ Len(p) \in Nat
  BY JoinOf, LenProperties
<1>2. CASE i \in DOMAIN q /\ j \in DOMAIN q
  BY <1>2, JoinOf DEF Once
<1>3. CASE i \notin DOMAIN q /\ j \notin DOMAIN q
  <2>1. /\ i - Len(q) \in DOMAIN p /\ (q \o p)[i] = p[i - Len(q)]
        /\ j - Len(q) \in DOMAIN p /\ (q \o p)[j] = p[j - Len(q)]
    BY <1>3, JoinOf
  <2>2. i - Len(q) = j - Len(q)
    BY <2>1 DEF Once
  <2> QED BY <1>1, <2>2
<1>4. ASSUME NEW x \in DOMAIN q, NEW y \in DOMAIN (q \o p), y \notin DOMAIN q,
             (q \o p)[x].kind = k, (q \o p)[y].kind = k
      PROVE  FALSE
  <2>1. (q \o p)[x] = q[x]
    BY JoinOf
  <2>2. y - Len(q) \in DOMAIN p /\ (q \o p)[y] = p[y - Len(q)]
    BY <1>4, JoinOf
  <2> QED BY <1>4, <2>1, <2>2 DEF Mentions
<1> QED BY <1>2, <1>3, <1>4

LEMMA MentionsRest ==
  ASSUME NEW T, NEW q \in Seq(T), q # <<>>, NEW k
  PROVE  /\ Mentions(q, k) <=> Head(q).kind = k \/ Mentions(Tail(q), k)
         /\ Once(q, k) => Once(Tail(q), k)
         /\ Once(q, k) /\ Head(q).kind = k => ~Mentions(Tail(q), k)
<1>1. ASSUME NEW j \in DOMAIN q, q[j].kind = k
      PROVE  Head(q).kind = k \/ Mentions(Tail(q), k)
  BY <1>1, RestOf DEF Mentions
<1>2. ASSUME NEW j \in DOMAIN Tail(q), Tail(q)[j].kind = k
      PROVE  j + 1 \in DOMAIN q /\ q[j + 1].kind = k /\ j + 1 # 1
  <2>1. j + 1 \in DOMAIN q /\ Tail(q)[j] = q[j + 1] /\ j \in Int /\ j >= 1
    <3>1. DOMAIN Tail(q) = 1..Len(Tail(q)) /\ Len(Tail(q)) \in Nat
      BY HeadTailProperties, LenProperties
    <3> QED BY <3>1, RestOf
  <2> QED BY <1>2, <2>1
<1>3. Head(q) = q[1] /\ 1 \in DOMAIN q
  BY RestOf
<1>4. ASSUME Once(q, k), NEW i \in DOMAIN Tail(q), NEW j \in DOMAIN Tail(q),
             Tail(q)[i].kind = k, Tail(q)[j].kind = k
      PROVE  i = j
  <2>1. i + 1 = j + 1
    BY <1>2, <1>4 DEF Once
  <2>2. i \in Int /\ j \in Int
    BY RestOf
  <2> QED BY <2>1, <2>2
<1>5. Once(q, k) => Once(Tail(q), k)
  BY <1>4 DEF Once
<1>6. Once(q, k) /\ Head(q).kind = k => ~Mentions(Tail(q), k)
  BY <1>2, <1>3 DEF Once, Mentions
<1>7. Mentions(q, k) <=> Head(q).kind = k \/ Mentions(Tail(q), k)
  BY <1>1, <1>2, <1>3 DEF Mentions
<1> QED BY <1>5, <1>6, <1>7

LEMMA One ==
  ASSUME NEW T, NEW e \in T
  PROVE  <<e>> \in Seq(T) /\ Len(<<e>>) = 1 /\ DOMAIN <<e>> = 1..1 /\ 1 \in DOMAIN <<e>>
         /\ <<e>>[1] = e /\ \A i \in DOMAIN <<e>> : <<e>>[i] = e
  OBVIOUS

LEMMA MentionsOne ==
  ASSUME NEW T, NEW e \in T, NEW k
  PROVE  (Mentions(<<e>>, k) <=> e.kind = k) /\ Once(<<e>>, k) /\ ~Mentions(<<>>, k)
  BY One DEF Mentions, Once

-----------------------------------------------------------------------------
(* What is sent, and what is known of a head. *)

HeadMode == (Heads \X Modes) \union {NoMode}

AboutHead ==
  {"head", "mode", "enabled", "current_mode", "adaptive_sync", "introduced in 5",
   "head_finished"}

EventT ==
  {e \in [kind: EventKind, head: Heads \union {NoHead}, mode: HeadMode, n: Nat] :
     /\ e.head \in Heads <=> e.kind \in AboutHead
     /\ e.kind = "enabled" => e.n \in {0, 1}
     /\ e.kind = "current_mode" => e.mode \in ModeOf(e.head)}

ConfHead ==
  {c \in [head: Heads, enabled: {0, 1}, mode: HeadMode, scale: Int] :
     c.mode \in ModeOf(c.head) \union {NoMode}}

RequestT ==
  [kind: {"none", "get_registry", "sync", "bind", "apply"}, n: Nat, heads: Seq(ConfHead)]

\* A current mode is a mode of its head.
Entry == {hi \in HeadInfo : hi.current_mode \in ModeOf(hi.head) \union {NoMode}}

Connection ==
  /\ events \in Seq(EventT) /\ requests \in Seq(RequestT) /\ conf \in RequestT
  /\ heads \in Seq(Entry)
  /\ IsFiniteSet(announced)
  /\ \A h \in Heads : output[h].mode \in ModeOf(h) \union {NoMode}
  /\ conf # NoConf =>
       \A i \in DOMAIN conf.heads : conf.heads[i].scale \in {NoScale} \union (Nat \ {0})

Types == TypeOK /\ Connection

AboutNone == {"global", "callback", "error", "done", "succeeded", "failed", "cancelled"}

LEMMA KindsOf ==
  /\ AboutHead \subseteq EventKind /\ AboutNone \subseteq EventKind
  /\ AboutHead \intersect AboutNone = {}
  /\ HeadEvents.adaptive_sync = 4
<1>1. {"done", "head"} \subseteq DOMAIN ManagerEvents
  BY DEF ManagerEvents
<1>2. {"succeeded", "failed", "cancelled"} \subseteq DOMAIN ConfigurationEvents
  BY DEF ConfigurationEvents
<1>3. {"mode", "enabled", "current_mode", "adaptive_sync", "head_finished"}
        \subseteq DOMAIN HeadEvents
  BY DEF HeadEvents
<1>4. /\ DOMAIN ManagerEvents \subseteq EventKind
      /\ DOMAIN ConfigurationEvents \subseteq EventKind
      /\ DOMAIN HeadEvents \subseteq EventKind
      /\ {"global", "callback", "error", "introduced in 5"} \subseteq EventKind
  BY DEF EventKind, Known
<1>5. HeadEvents.adaptive_sync = 4
  BY DEF HeadEvents
<1> QED BY <1>1, <1>2, <1>3, <1>4, <1>5 DEF AboutHead, AboutNone

\* Events that are about no head.
LEMMA PlainEvent ==
  ASSUME NEW k \in AboutNone, NEW s \in Nat
  PROVE  /\ Event(k) \in EventT /\ Numbered(k, s) \in EventT
         /\ Event(k).kind = k /\ Event(k).head = NoHead
         /\ Numbered(k, s).kind = k /\ Numbered(k, s).head = NoHead
         /\ Numbered(k, s).n = s
<1>1. /\ k \in EventKind /\ k \notin AboutHead /\ k \notin {"enabled", "current_mode"}
      /\ NoHead \notin Heads
  BY KindsOf, HeadsAssumption DEF AboutHead, AboutNone
<1>2. /\ Event(k) = [kind |-> k, head |-> NoHead, mode |-> NoMode, n |-> 0]
      /\ Numbered(k, s) = [kind |-> k, head |-> NoHead, mode |-> NoMode, n |-> s]
  BY DEF Event, Numbered
<1>3. NoMode \in HeadMode
  BY DEF HeadMode
<1>4. \A i \in Nat : [kind |-> k, head |-> NoHead, mode |-> NoMode, n |-> i] \in EventT
  BY <1>1, <1>3 DEF EventT
<1> QED BY <1>2, <1>4

\* Events that are about one.
LEMMA EventOfHead ==
  ASSUME NEW h \in Heads, NEW k \in AboutHead, k # "current_mode"
  PROVE  HeadEvent(k, h) \in EventT /\ HeadEvent(k, h).kind = k /\ HeadEvent(k, h).head = h
<1>1. h # NoHead /\ NoMode \in HeadMode /\ k \in EventKind
  BY HeadsAssumption, KindsOf DEF HeadMode
<1>2. HeadEvent(k, h) = [kind |-> k, head |-> h, mode |-> NoMode, n |-> 0]
  BY DEF HeadEvent, Event
<1> QED BY <1>1, <1>2 DEF EventT

LEMMA EnabledEvent ==
  ASSUME NEW h \in Heads, NEW s \in {0, 1}
  PROVE  LET e == [HeadEvent("enabled", h) EXCEPT !.n = s]
         IN  e \in EventT /\ e.kind = "enabled" /\ e.head = h /\ e.n = s
<1>1. /\ h # NoHead /\ NoMode \in HeadMode
      /\ "enabled" \in AboutHead /\ "enabled" \in EventKind
  <2>1. h # NoHead /\ NoMode \in HeadMode /\ "enabled" \in AboutHead
    BY HeadsAssumption DEF HeadMode, AboutHead
  <2> QED BY <2>1, KindsOf
<1>2. [HeadEvent("enabled", h) EXCEPT !.n = s]
        = [kind |-> "enabled", head |-> h, mode |-> NoMode, n |-> s]
  <2>1. HeadEvent("enabled", h) = [kind |-> "enabled", head |-> h, mode |-> NoMode, n |-> 0]
    BY DEF HeadEvent, Event
  <2> QED BY <2>1
<1>3. [kind |-> "enabled", head |-> h, mode |-> NoMode, n |-> s] \in EventT
  BY <1>1 DEF EventT
<1> QED BY <1>2, <1>3

LEMMA CurrentModeEvent ==
  ASSUME NEW h \in Heads, NEW mo \in ModeOf(h)
  PROVE  LET e == [HeadEvent("current_mode", h) EXCEPT !.mode = mo]
         IN  e \in EventT /\ e.kind = "current_mode" /\ e.head = h /\ e.mode = mo
<1>1. /\ h # NoHead /\ mo \in HeadMode
      /\ "current_mode" \in AboutHead /\ "current_mode" \in EventKind
  <2>1. h # NoHead /\ mo \in HeadMode /\ "current_mode" \in AboutHead
    BY HeadsAssumption DEF HeadMode, AboutHead, ModeOf
  <2> QED BY <2>1, KindsOf
<1>2. [HeadEvent("current_mode", h) EXCEPT !.mode = mo]
        = [kind |-> "current_mode", head |-> h, mode |-> mo, n |-> 0]
  <2>1. HeadEvent("current_mode", h) = [kind |-> "current_mode", head |-> h, mode |-> NoMode, n |-> 0]
    BY DEF HeadEvent, Event
  <2> QED BY <2>1
<1>3. [kind |-> "current_mode", head |-> h, mode |-> mo, n |-> 0] \in EventT
  BY <1>1 DEF EventT
<1> QED BY <1>2, <1>3

\* What the client is told of a head once it has heard of it.
Tells(e, h) ==
  /\ e.head = h
  /\ e.kind \in {"mode", "enabled", "current_mode", "adaptive_sync", "introduced in 5"}
  /\ e.kind = "enabled" => e.n = output[h].enabled
  /\ e.kind = "current_mode" => e.mode = output[h].mode
  /\ e.kind = "introduced in 5" => bound >= 5

Announces(q, h) ==
  /\ q \in Seq(EventT)
  /\ 1 \in DOMAIN q /\ q[1].kind = "head" /\ q[1].head = h
  /\ \A i \in DOMAIN q : i # 1 => Tells(q[i], h)

LEMMA AnnounceMore ==
  ASSUME NEW h, NEW q, Announces(q, h), NEW p \in Seq(EventT),
         \A i \in DOMAIN p : Tells(p[i], h)
  PROVE  Announces(q \o p, h)
<1>1. q \in Seq(EventT)
  BY DEF Announces
<1>2. ASSUME NEW i \in DOMAIN (q \o p), i # 1
      PROVE  Tells((q \o p)[i], h)
  BY <1>1, <1>2, JoinOf DEF Announces
<1>3. q \o p \in Seq(EventT) /\ 1 \in DOMAIN (q \o p) /\ (q \o p)[1] = q[1]
  BY <1>1, JoinOf DEF Announces
<1> QED BY <1>2, <1>3 DEF Announces

\* Of a head it is told first that it is there, then whether it is enabled and,
\* where it shows something, in which mode.
LEMMA AnnounceIs ==
  ASSUME NEW h \in Heads, output[h] \in Output, output[h].mode \in ModeOf(h) \union {NoMode},
         bound \in Nat
  PROVE  /\ Announces(Announce(h), h)
         /\ Mentions(Announce(h), "enabled")
         /\ output[h].enabled = 1 /\ output[h].mode # NoMode =>
              Mentions(Announce(h), "current_mode")
<1> DEFINE o  == output[h]
           k  == Cardinality(IF o.mode = NoMode THEN {} ELSE Modes)
           e3 == [HeadEvent("enabled", h) EXCEPT !.n = o.enabled]
           e4 == [HeadEvent("current_mode", h) EXCEPT !.mode = o.mode]
           p1 == <<HeadEvent("head", h)>>
           p2 == [i \in 1..k |-> HeadEvent("mode", h)]
           p3 == <<e3>>
           p4 == IF o.enabled = 1 /\ o.mode # NoMode THEN <<e4>> ELSE <<>>
           p5 == IF bound >= HeadEvents.adaptive_sync
                 THEN <<HeadEvent("adaptive_sync", h)>> ELSE <<>>
           p6 == IF bound >= 5 THEN <<HeadEvent("introduced in 5", h)>> ELSE <<>>
<1>1. Announce(h) = p1 \o p2 \o p3 \o p4 \o p5 \o p6
  BY DEF Announce
<1>2. k \in Nat
  BY HeadsAssumption, FS_CardinalityType, FS_EmptySet
<1> HIDE DEF k
<1>3. \A kind \in AboutHead \ {"current_mode"} :
        /\ <<HeadEvent(kind, h)>> \in Seq(EventT)
        /\ \A i \in DOMAIN <<HeadEvent(kind, h)>> :
             <<HeadEvent(kind, h)>>[i].kind = kind /\ <<HeadEvent(kind, h)>>[i].head = h
  BY EventOfHead, One
<1>4. Announces(p1, h)
  <2>1. "head" \in AboutHead
    BY DEF AboutHead
  <2>2. HeadEvent("head", h) \in EventT /\ HeadEvent("head", h).kind = "head"
        /\ HeadEvent("head", h).head = h
    BY <2>1, EventOfHead
  <2> QED BY <2>2, One DEF Announces
<1>5. p2 \in Seq(EventT) /\ \A i \in DOMAIN p2 : Tells(p2[i], h)
  <2>1. "mode" \in AboutHead
    BY DEF AboutHead
  <2>2. /\ HeadEvent("mode", h) \in EventT
        /\ HeadEvent("mode", h).kind = "mode" /\ HeadEvent("mode", h).head = h
    BY <2>1, EventOfHead
  <2>3. DOMAIN p2 = 1..k /\ \A i \in 1..k : p2[i] = HeadEvent("mode", h)
    OBVIOUS
  <2>4. p2 \in Seq(EventT)
    BY <1>2, <2>2
  <2> QED BY <2>2, <2>3, <2>4 DEF Tells
<1>6. p3 \in Seq(EventT) /\ (\A i \in DOMAIN p3 : Tells(p3[i], h)) /\ Mentions(p3, "enabled")
  <2>1. o.enabled \in {0, 1}
    BY DEF Output
  <2>2. e3 \in EventT /\ e3.kind = "enabled" /\ e3.head = h /\ e3.n = o.enabled
    BY <2>1, EnabledEvent
  <2> HIDE DEF e3
  <2> QED BY <2>2, One DEF Tells, Mentions
<1>7. /\ p4 \in Seq(EventT) /\ \A i \in DOMAIN p4 : Tells(p4[i], h)
      /\ o.enabled = 1 /\ o.mode # NoMode => Mentions(p4, "current_mode")
  <2>1. CASE o.enabled = 1 /\ o.mode # NoMode
    <3>1. e4 \in EventT /\ e4.kind = "current_mode" /\ e4.head = h /\ e4.mode = o.mode
      BY <2>1, CurrentModeEvent
    <3> HIDE DEF e4
    <3> QED BY <2>1, <3>1, One DEF Tells, Mentions
  <2>2. CASE ~(o.enabled = 1 /\ o.mode # NoMode)
    BY <2>2
  <2> QED BY <2>1, <2>2
<1>8. p5 \in Seq(EventT) /\ \A i \in DOMAIN p5 : Tells(p5[i], h)
  <2>1. "adaptive_sync" \in AboutHead
    BY DEF AboutHead
  <2>2. /\ HeadEvent("adaptive_sync", h) \in EventT
        /\ HeadEvent("adaptive_sync", h).kind = "adaptive_sync"
        /\ HeadEvent("adaptive_sync", h).head = h
    BY <2>1, EventOfHead
  <2>3. CASE bound >= HeadEvents.adaptive_sync
    BY <2>2, <2>3, One DEF Tells
  <2>4. CASE ~(bound >= HeadEvents.adaptive_sync)
    BY <2>4
  <2> QED BY <2>3, <2>4
<1>13. p6 \in Seq(EventT) /\ \A i \in DOMAIN p6 : Tells(p6[i], h)
  <2>1. "introduced in 5" \in AboutHead
    BY DEF AboutHead
  <2>2. /\ HeadEvent("introduced in 5", h) \in EventT
        /\ HeadEvent("introduced in 5", h).kind = "introduced in 5"
        /\ HeadEvent("introduced in 5", h).head = h
    BY <2>1, EventOfHead
  <2>3. CASE bound >= 5
    BY <2>2, <2>3, One DEF Tells
  <2>4. CASE ~(bound >= 5)
    BY <2>4
  <2> QED BY <2>3, <2>4
<1> HIDE DEF p1, p2, p3, p4, p5, p6
<1> DEFINE q2 == p1 \o p2
           q3 == q2 \o p3
           q4 == q3 \o p4
           q5 == q4 \o p5
           q6 == q5 \o p6
<1> HIDE DEF q2, q3, q4, q5, q6
<1>14. Announces(q2, h) /\ q2 \in Seq(EventT)
  BY <1>4, <1>5, AnnounceMore, MentionsMore DEF q2, Announces
<1>15. Announces(q3, h) /\ q3 \in Seq(EventT) /\ Mentions(q3, "enabled")
  BY <1>6, <1>14, AnnounceMore, MentionsMore DEF q3, Announces
<1>16. Announces(q4, h) /\ q4 \in Seq(EventT) /\ Mentions(q4, "enabled")
       /\ (Mentions(p4, "current_mode") => Mentions(q4, "current_mode"))
  BY <1>7, <1>15, AnnounceMore, MentionsMore DEF q4, Announces
<1>17. Announces(q5, h) /\ q5 \in Seq(EventT) /\ Mentions(q5, "enabled")
       /\ (Mentions(q4, "current_mode") => Mentions(q5, "current_mode"))
  BY <1>8, <1>16, AnnounceMore, MentionsMore DEF q5, Announces
<1>18. Announces(q6, h) /\ q6 \in Seq(EventT) /\ Mentions(q6, "enabled")
       /\ (Mentions(q5, "current_mode") => Mentions(q6, "current_mode"))
  BY <1>13, <1>17, AnnounceMore, MentionsMore DEF q6, Announces
<1>19. Announce(h) = q6
  BY <1>1 DEF q2, q3, q4, q5, q6
<1> QED BY <1>7, <1>16, <1>17, <1>18, <1>19

-----------------------------------------------------------------------------
(* What each step does to the connection and to S. *)

\* configure_output_scale itself writes requests, and nothing to S.
LEMMA CallsLeave ==
  ASSUME configure_output_scale
  PROVE  /\ UNCHANGED <<scale, manager, serial, heads, config_result, broken, events>>
         /\ UNCHANGED <<offered, plugged, output, cserial, bound, unannounced, announced,
                        conf, fault, verdict>>
<1> USE DEF Return, Roundtrip, S, compositor, screens
<1>1. CASE NothingAsked \/ ConnectFails \/ NoManager \/ NoHeads
  BY <1>1 DEF NothingAsked, ConnectFails, NoManager, NoHeads
<1>2. CASE Finish
  BY <1>2 DEF Finish
<1>3. CASE Connect
  BY <1>3 DEF Connect
<1>4. CASE ReadHeads
  BY <1>4 DEF ReadHeads
<1>5. CASE SendConfiguration
  BY <1>5 DEF SendConfiguration
<1> QED BY <1>1, <1>2, <1>3, <1>4, <1>5 DEF configure_output_scale

\* An event is read from the connection, and by its kind it changes S.
Quiet == {"adaptive_sync", "head_finished", "callback", "error", "introduced in 5"}

LEMMA Reads ==
  ASSUME Dispatch
  PROVE  /\ InRoundtrip /\ ~broken /\ events # <<>> /\ events' = Tail(events)
         /\ UNCHANGED <<pc, scale, result>>
         /\ UNCHANGED <<offered, plugged, output, cserial, bound, unannounced, announced,
                        conf, fault, verdict>>
         /\ Head(events).kind \in
              {"head", "mode", "enabled", "current_mode", "done", "global", "succeeded",
               "failed", "cancelled"} \union Quiet
         /\ Head(events).kind # "global" => UNCHANGED <<manager, requests>>
         /\ Head(events).kind # "done" => UNCHANGED serial
         /\ Head(events).kind \notin {"head", "mode", "enabled", "current_mode"} =>
              UNCHANGED heads
         /\ Head(events).kind \notin {"succeeded", "failed", "cancelled"} =>
              UNCHANGED config_result
         /\ Head(events).kind \notin {"error", "introduced in 5"} => UNCHANGED broken
         /\ Head(events).kind # "callback" => UNCHANGED synced
<1> USE DEF Dispatching, S, compositor, screens, Quiet
<1>1. CASE reg_global
  BY <1>1 DEF reg_global
<1>2. CASE mgr_head
  BY <1>2 DEF mgr_head
<1>3. CASE mgr_done
  BY <1>3 DEF mgr_done
<1>4. CASE OnHead("mode", hl_mode)
  BY <1>4 DEF OnHead
<1>5. CASE OnHead("enabled", hl_enabled)
  BY <1>5 DEF OnHead
<1>6. CASE OnHead("current_mode", hl_cur_mode)
  BY <1>6 DEF OnHead
<1>7. CASE cfg_ok
  BY <1>7 DEF cfg_ok, OnConfiguration
<1>8. CASE cfg_fail
  BY <1>8 DEF cfg_fail, OnConfiguration
<1>9. CASE cfg_cancel
  BY <1>9 DEF cfg_cancel, OnConfiguration
<1>10. CASE Ignored("adaptive_sync")
  BY <1>10 DEF Ignored
<1>11. CASE Ignored("head_finished")
  BY <1>11 DEF Ignored
<1>12. CASE Callback
  BY <1>12 DEF Callback
<1>13. CASE Break
  <2>1. CASE Dispatching("error")
    BY <1>13, <2>1 DEF Break
  <2>2. CASE Dispatching("introduced in 5")
    BY <1>13, <2>2 DEF Break
  <2> QED BY <1>13, <2>1, <2>2 DEF Break
<1> QED BY <1>1, <1>2, <1>3, <1>4, <1>5, <1>6, <1>7, <1>8, <1>9, <1>10, <1>11, <1>12, <1>13
        DEF Dispatch

\* Which of them has which effect.
LEMMA ReadsWhat ==
  ASSUME Dispatch
  PROVE  /\ Head(events).kind = "global" => reg_global
         /\ Head(events).kind = "head" => mgr_head
         /\ Head(events).kind = "done" => mgr_done
         /\ Head(events).kind = "mode" => OnHead("mode", hl_mode)
         /\ Head(events).kind = "enabled" => OnHead("enabled", hl_enabled)
         /\ Head(events).kind = "current_mode" => OnHead("current_mode", hl_cur_mode)
         /\ Head(events).kind = "succeeded" => cfg_ok
         /\ Head(events).kind = "failed" => cfg_fail
         /\ Head(events).kind = "cancelled" => cfg_cancel
         /\ Head(events).kind = "callback" => Callback
         /\ Head(events).kind \in {"error", "introduced in 5"} => Break
<1> DEFINE k == Head(events).kind
<1>1. /\ reg_global => k = "global"
      /\ mgr_head => k = "head"
      /\ mgr_done => k = "done"
  BY DEF reg_global, mgr_head, mgr_done, Dispatching
<1>2. /\ OnHead("mode", hl_mode) => k = "mode"
      /\ OnHead("enabled", hl_enabled) => k = "enabled"
      /\ OnHead("current_mode", hl_cur_mode) => k = "current_mode"
  BY DEF OnHead, Dispatching
<1>3. /\ cfg_ok => k = "succeeded"
      /\ cfg_fail => k = "failed"
      /\ cfg_cancel => k = "cancelled"
  BY DEF cfg_ok, cfg_fail, cfg_cancel, OnConfiguration, Dispatching
<1>4. /\ Ignored("adaptive_sync") => k = "adaptive_sync"
      /\ Ignored("head_finished") => k = "head_finished"
      /\ Callback => k = "callback"
      /\ Break => k \in {"error", "introduced in 5"}
  BY DEF Ignored, Callback, Break, Dispatching
<1> QED BY <1>1, <1>2, <1>3, <1>4 DEF Dispatch

\* The compositor and its screens touch nothing of the client's.
LEMMA Serves ==
  ASSUME Compositor \/ Outside
  PROVE  UNCHANGED <<pc, scale, manager, serial, heads, config_result, synced, broken,
                     result, offered>>
<1> USE DEF client
<1>1. CASE ServeRegistry \/ ServeSync \/ ServeBind \/ ServeApply
  BY <1>1 DEF ServeRegistry, ServeSync, ServeBind, ServeApply, Serving
<1>2. CASE \E h \in Heads : AnnounceHead(h)
  BY <1>2 DEF AnnounceHead
<1>3. CASE Cancel \/ Omitted
  BY <1>3 DEF Cancel, Omitted, Answering
<1>4. CASE Fail
  BY <1>4 DEF Fail, Applying, Answering
<1>5. CASE \E m \in Modes : Succeed(m)
  BY <1>5 DEF Succeed, Applying, Answering
<1>6. CASE \E h \in Heads : Plug(h) \/ Unplug(h) \/ Toggle(h)
  BY <1>6 DEF Plug, Unplug, Toggle, Change
<1>7. CASE \E h \in Heads, m \in Modes : SwitchMode(h, m)
  BY <1>7 DEF SwitchMode, Change
<1>8. CASE Die
  BY <1>8 DEF Die
<1> QED BY <1>1, <1>2, <1>3, <1>4, <1>5, <1>6, <1>7, <1>8 DEF Compositor, Outside

-----------------------------------------------------------------------------
(* Types. *)

LEMMA NoConfType == NoConf \in RequestT /\ NoConf.kind = "none"
<1>1. <<>> \in Seq(ConfHead)
  OBVIOUS
<1> QED BY <1>1 DEF NoConf, Request, RequestT

LEMMA RequestType ==
  ASSUME NEW k \in {"get_registry", "sync"}
  PROVE  Request(k) \in RequestT /\ Request(k).kind = k
<1>1. <<>> \in Seq(ConfHead)
  OBVIOUS
<1> QED BY <1>1 DEF Request, RequestT

LEMMA BindType ==
  ASSUME NEW v \in Nat
  PROVE  LET r == [Request("bind") EXCEPT !.n = v]
         IN  r \in RequestT /\ r.kind = "bind" /\ r.n = v
<1>1. <<>> \in Seq(ConfHead)
  OBVIOUS
<1>2. [Request("bind") EXCEPT !.n = v] = [kind |-> "bind", n |-> v, heads |-> <<>>]
  BY DEF Request
<1> QED BY <1>1, <1>2 DEF RequestT

LEMMA WlFixedType ==
  ASSUME NEW s \in Int
  PROVE  WlFixed(s) \in Int /\ (s > 0 => WlFixed(s) \in Nat)
  BY DEF WlFixed

\* What is sent for a head says of it what S does.
LEMMA ConfigureIs ==
  ASSUME NEW hi \in Entry, scale \in Int
  PROVE  /\ Configure(hi) \in ConfHead
         /\ Configure(hi).head = hi.head /\ Configure(hi).enabled = hi.enabled
         /\ hi.enabled = 0 => Configure(hi).mode = NoMode /\ Configure(hi).scale = NoScale
         /\ hi.enabled = 1 => /\ Configure(hi).mode = hi.current_mode
                              /\ Configure(hi).scale = WlFixed(scale)
<1>1. /\ hi.head \in Heads /\ hi.enabled \in {0, 1}
      /\ hi.current_mode \in HeadMode
      /\ hi.current_mode \in ModeOf(hi.head) \union {NoMode}
      /\ NoMode \in HeadMode
      /\ WlFixed(scale) \in Int /\ NoScale \in Int
  BY WlFixedType DEF Entry, HeadInfo, HeadMode, NoScale
<1>2. CASE hi.enabled = 0
  <2>1. Configure(hi) = [head |-> hi.head, enabled |-> 0, mode |-> NoMode, scale |-> NoScale]
    BY <1>2 DEF Configure, disable_head
  <2> QED BY <1>1, <1>2, <2>1 DEF ConfHead
<1>3. CASE hi.enabled = 1
  <2>1. Configure(hi) = [head |-> hi.head, enabled |-> 1, mode |-> hi.current_mode,
                         scale |-> WlFixed(scale)]
    BY <1>3 DEF Configure, enable_head, set_mode, set_scale
  <2> QED BY <1>1, <1>3, <2>1 DEF ConfHead
<1> QED BY <1>1, <1>2, <1>3

LEMMA ConfigurationIs ==
  ASSUME Types
  PROVE  /\ Configuration \in RequestT
         /\ Configuration.kind = "apply" /\ Configuration.n = serial
         /\ DOMAIN Configuration.heads = DOMAIN heads
         /\ \A i \in DOMAIN heads : Configuration.heads[i] = Configure(heads[i])
<1>1. scale \in Int /\ serial \in Nat /\ heads \in Seq(Entry)
  BY BoundsAssumption DEF Types, TypeOK, Connection
<1> DEFINE hs == [i \in DOMAIN heads |-> Configure(heads[i])]
<1>2. DOMAIN heads = 1..Len(heads) /\ Len(heads) \in Nat
      /\ \A i \in DOMAIN heads : heads[i] \in Entry
  BY <1>1, LenProperties, ElementOfSeq
<1>3. \A i \in DOMAIN heads : Configure(heads[i]) \in ConfHead
  BY <1>1, <1>2, ConfigureIs
<1>4. hs \in Seq(ConfHead) /\ DOMAIN hs = DOMAIN heads
      /\ \A i \in DOMAIN heads : hs[i] = Configure(heads[i])
  <2>1. DOMAIN hs = DOMAIN heads /\ \A i \in DOMAIN heads : hs[i] = Configure(heads[i])
    OBVIOUS
  <2>2. hs \in [1..Len(heads) -> ConfHead]
    BY <1>2, <1>3
  <2> QED BY <1>2, <2>1, <2>2, SeqDef
<1> HIDE DEF hs
<1>5. Configuration = [kind |-> "apply", n |-> serial, heads |-> hs]
  <2>1. Configuration = [create_configuration(serial) EXCEPT !.kind = "apply", !.heads = hs]
    BY DEF Configuration, apply, hs
  <2> QED BY <2>1 DEF create_configuration
<1> QED BY <1>1, <1>4, <1>5 DEF RequestT

LEMMA PostType ==
  ASSUME requests \in Seq(RequestT), NEW rs \in Seq(RequestT), Post(rs)
  PROVE  requests' \in Seq(RequestT)
  BY JoinOf DEF Post

LEMMA SendType ==
  ASSUME events \in Seq(EventT), NEW es \in Seq(EventT), Send(es)
  PROVE  events' \in Seq(EventT)
  BY JoinOf DEF Send

LEMMA TypesInit == Init => Types
<1> SUFFICES ASSUME Init PROVE Types
  OBVIOUS
<1>1. PICK on \in SUBSET Heads, m \in {FirstMode, NoMode} :
        output = [h \in Heads |-> Screen(h, h \in on, m)]
  BY DEF Init
<1>2. m = NoMode \/ m \in Modes
  BY HeadsAssumption DEF FirstMode
<1>3. ASSUME NEW h \in Heads
      PROVE  /\ Screen(h, h \in on, m) \in Output
             /\ Screen(h, h \in on, m).mode \in ModeOf(h) \union {NoMode}
  BY <1>2 DEF Screen, Output, ModeOf
<1>4. /\ output \in [Heads -> Output]
      /\ \A h \in Heads : output[h].mode \in ModeOf(h) \union {NoMode}
  BY <1>1, <1>3
<1>5. /\ events \in Seq(EventT) /\ requests \in Seq(RequestT)
      /\ heads \in Seq(Entry) /\ heads \in Seq(HeadInfo) /\ heads = <<>>
  BY DEF Init
<1>6. IsFiniteSet(announced) /\ conf = NoConf /\ conf \in RequestT
  BY FS_EmptySet, NoConfType DEF Init
<1>7. Len(heads) = 0 /\ DOMAIN heads = {}
  BY <1>5
<1>8. /\ scale \in Scales /\ offered \in Versions /\ plugged \subseteq Heads
      /\ pc = "start" /\ manager = 0 /\ serial = 0 /\ config_result = 0
      /\ synced = FALSE /\ broken = FALSE /\ result = 0 /\ cserial = 1 /\ bound = 0
      /\ unannounced = {} /\ announced = {} /\ fault = "none" /\ verdict = "none"
  BY DEF Init
<1>9. TypeOK
  <2>1. Len(heads) <= MAX_HEADS /\ \A i \in DOMAIN heads : heads[i].n_modes <= MAX_MODES
    BY <1>7, BoundsAssumption
  <2>2. 0 \in -2..1 /\ 0 \in Nat /\ 1 \in Nat
    OBVIOUS
  <2> QED BY <1>4, <1>5, <1>8, <2>1, <2>2 DEF TypeOK
<1> QED BY <1>4, <1>5, <1>6, <1>9 DEF Types, Connection

\* A call leaves S alone.
LEMMA TypesCall ==
  ASSUME Types, configure_output_scale
  PROVE  Types'
<1>1. <<Request("sync")>> \in Seq(RequestT) /\ <<Request("get_registry")>> \in Seq(RequestT)
      /\ <<>> \in Seq(RequestT) /\ <<Configuration>> \in Seq(RequestT)
  BY RequestType, ConfigurationIs, One
<1>2. /\ requests' \in Seq(RequestT)
      /\ pc' \in {"start", "registry", "heads", "apply", "returned"}
      /\ result' \in -2..1 /\ synced' \in BOOLEAN
  <2> USE DEF Types, TypeOK, Connection
  <2>1. ASSUME NEW next, NEW rs \in Seq(RequestT), Roundtrip(next, rs)
        PROVE  requests' \in Seq(RequestT) /\ pc' = next /\ result' \in -2..1
               /\ synced' \in BOOLEAN
    <3>1. rs \o <<Request("sync")>> \in Seq(RequestT)
      BY <1>1, JoinOf
    <3> QED BY <2>1, <3>1, PostType DEF Roundtrip
  <2>2. ASSUME NEW r \in -2..1, Return(r)
        PROVE  requests' \in Seq(RequestT) /\ pc' = "returned" /\ result' \in -2..1
               /\ synced' \in BOOLEAN
    BY <2>2 DEF Return
  <2>3. CASE NothingAsked \/ ConnectFails \/ NoManager \/ NoHeads
    BY <2>2, <2>3 DEF NothingAsked, ConnectFails, NoManager, NoHeads
  <2>4. CASE Finish
    <3>1. config_result \in -2..1
      OBVIOUS
    <3> QED BY <2>2, <2>4, <3>1 DEF Finish
  <2>5. CASE Connect
    BY <1>1, <2>1, <2>5 DEF Connect
  <2>6. CASE ReadHeads
    BY <1>1, <2>1, <2>6 DEF ReadHeads
  <2>7. CASE SendConfiguration
    BY <1>1, <2>1, <2>7 DEF SendConfiguration
  <2> QED BY <2>3, <2>4, <2>5, <2>6, <2>7 DEF configure_output_scale
<1>3. TypeOK'
  BY <1>2, CallsLeave DEF Types, TypeOK
<1>4. Connection'
  BY <1>2, CallsLeave DEF Types, Connection
<1> QED BY <1>3, <1>4 DEF Types

\* What the handlers make of an entry.
LEMMA HandlersType ==
  ASSUME NEW hi \in Entry, NEW e \in EventT, hi.head = e.head
  PROVE  /\ hl_mode(hi, e) \in Entry
         /\ hi.n_modes <= MAX_MODES => hl_mode(hi, e).n_modes <= MAX_MODES
         /\ hl_mode(hi, e).enabled = hi.enabled
         /\ hl_mode(hi, e).current_mode = hi.current_mode /\ hl_mode(hi, e).head = hi.head
         /\ e.kind = "enabled" =>
              /\ hl_enabled(hi, e) \in Entry /\ hl_enabled(hi, e).n_modes = hi.n_modes
              /\ hl_enabled(hi, e).enabled = e.n
              /\ hl_enabled(hi, e).current_mode = hi.current_mode
              /\ hl_enabled(hi, e).head = hi.head
         /\ e.kind = "current_mode" =>
              /\ hl_cur_mode(hi, e) \in Entry /\ hl_cur_mode(hi, e).n_modes = hi.n_modes
              /\ hl_cur_mode(hi, e).enabled = hi.enabled
              /\ hl_cur_mode(hi, e).current_mode = e.mode
              /\ hl_cur_mode(hi, e).head = hi.head
<1>1. /\ hi \in HeadInfo /\ hi.current_mode \in ModeOf(hi.head) \union {NoMode}
      /\ hi.n_modes \in Nat /\ MAX_MODES \in Nat
  BY BoundsAssumption DEF Entry, HeadInfo
<1> USE DEF Entry, HeadInfo
<1>2. /\ hl_mode(hi, e) \in Entry
      /\ hi.n_modes <= MAX_MODES => hl_mode(hi, e).n_modes <= MAX_MODES
      /\ hl_mode(hi, e).enabled = hi.enabled
      /\ hl_mode(hi, e).current_mode = hi.current_mode /\ hl_mode(hi, e).head = hi.head
  <2>1. CASE hi.n_modes >= MAX_MODES
    <3>1. hl_mode(hi, e) = [hi EXCEPT !.n_modes = hi.n_modes]
      BY <1>1, <2>1 DEF hl_mode
    <3>2. hl_mode(hi, e) = hi
      BY <1>1, <3>1
    <3> QED BY <1>1, <3>2
  <2>2. CASE ~(hi.n_modes >= MAX_MODES)
    <3>1. hl_mode(hi, e) = [hi EXCEPT !.n_modes = hi.n_modes + 1]
      BY <1>1, <2>2 DEF hl_mode
    <3> QED BY <1>1, <2>2, <3>1
  <2> QED BY <2>1, <2>2
<1>3. ASSUME e.kind = "enabled"
      PROVE  /\ hl_enabled(hi, e) \in Entry /\ hl_enabled(hi, e).n_modes = hi.n_modes
             /\ hl_enabled(hi, e).enabled = e.n
             /\ hl_enabled(hi, e).current_mode = hi.current_mode
             /\ hl_enabled(hi, e).head = hi.head
  <2>1. e.n \in {0, 1}
    BY <1>3 DEF EventT
  <2> QED BY <1>1, <2>1 DEF hl_enabled
<1>4. ASSUME e.kind = "current_mode"
      PROVE  /\ hl_cur_mode(hi, e) \in Entry /\ hl_cur_mode(hi, e).n_modes = hi.n_modes
             /\ hl_cur_mode(hi, e).enabled = hi.enabled
             /\ hl_cur_mode(hi, e).current_mode = e.mode
             /\ hl_cur_mode(hi, e).head = hi.head
  <2>1. e.mode \in ModeOf(hi.head) /\ e.mode \in HeadMode
    BY <1>4 DEF EventT
  <2> QED BY <1>1, <2>1 DEF hl_cur_mode, HeadMode
<1> QED BY <1>2, <1>3, <1>4

NewEntry(h) == [head |-> h, enabled |-> 0, n_modes |-> 0, current_mode |-> NoMode]

\* An event about a head changes the entry of that head, or there is none.
LEMMA EntriesRead ==
  ASSUME Types, Dispatch, Head(events).kind \in {"mode", "enabled", "current_mode"}
  PROVE  /\ heads' \in Seq(Entry) /\ Len(heads') = Len(heads) /\ DOMAIN heads' = DOMAIN heads
         /\ \A i \in DOMAIN heads :
              /\ heads'[i] \in Entry
              /\ heads[i].n_modes <= MAX_MODES => heads'[i].n_modes <= MAX_MODES
              /\ heads'[i].head = heads[i].head
              /\ heads'[i].enabled =
                   IF heads[i].head = Head(events).head /\ Head(events).kind = "enabled"
                   THEN Head(events).n ELSE heads[i].enabled
              /\ heads'[i].current_mode =
                   IF heads[i].head = Head(events).head /\ Head(events).kind = "current_mode"
                   THEN Head(events).mode ELSE heads[i].current_mode
<1> DEFINE e == Head(events)
<1>1. e \in EventT
  BY Reads, RestOf DEF Types, Connection
<1>2. /\ heads \in Seq(Entry) /\ Len(heads) \in Nat /\ DOMAIN heads = 1..Len(heads)
      /\ \A i \in DOMAIN heads : heads[i] \in Entry
  BY LenProperties, ElementOfSeq DEF Types, Connection
<1> HIDE DEF e
<1>3. /\ DOMAIN heads' = DOMAIN heads
      /\ heads' = [i \in DOMAIN heads |-> heads'[i]]
      /\ \A i \in DOMAIN heads :
           /\ heads[i].head # e.head => heads'[i] = heads[i]
           /\ heads[i].head = e.head =>
                /\ e.kind = "mode" => heads'[i] = hl_mode(heads[i], e)
                /\ e.kind = "enabled" => heads'[i] = hl_enabled(heads[i], e)
                /\ e.kind = "current_mode" => heads'[i] = hl_cur_mode(heads[i], e)
  <2>1. CASE e.kind = "mode"
    <3>1. heads' = [i \in DOMAIN heads |-> IF heads[i].head = e.head
                                           THEN hl_mode(heads[i], e) ELSE heads[i]]
      BY <2>1, ReadsWhat DEF OnHead, e
    <3> QED BY <2>1, <3>1
  <2>2. CASE e.kind = "enabled"
    <3>1. heads' = [i \in DOMAIN heads |-> IF heads[i].head = e.head
                                           THEN hl_enabled(heads[i], e) ELSE heads[i]]
      BY <2>2, ReadsWhat DEF OnHead, e
    <3> QED BY <2>2, <3>1
  <2>3. CASE e.kind = "current_mode"
    <3>1. heads' = [i \in DOMAIN heads |-> IF heads[i].head = e.head
                                           THEN hl_cur_mode(heads[i], e) ELSE heads[i]]
      BY <2>3, ReadsWhat DEF OnHead, e
    <3> QED BY <2>3, <3>1
  <2> QED BY <2>1, <2>2, <2>3 DEF e
<1>4. ASSUME NEW i \in DOMAIN heads
      PROVE  /\ heads'[i] \in Entry
             /\ heads[i].n_modes <= MAX_MODES => heads'[i].n_modes <= MAX_MODES
             /\ heads'[i].head = heads[i].head
             /\ heads'[i].enabled = IF heads[i].head = e.head /\ e.kind = "enabled"
                                    THEN e.n ELSE heads[i].enabled
             /\ heads'[i].current_mode = IF heads[i].head = e.head /\ e.kind = "current_mode"
                                         THEN e.mode ELSE heads[i].current_mode
  <2>1. heads[i] \in Entry
    BY <1>2
  <2>2. CASE heads[i].head # e.head
    BY <1>3, <2>1, <2>2
  <2>3. CASE heads[i].head = e.head /\ e.kind = "mode"
    BY <1>1, <1>3, <2>1, <2>3, HandlersType
  <2>4. CASE heads[i].head = e.head /\ e.kind = "enabled"
    BY <1>1, <1>3, <2>1, <2>4, HandlersType
  <2>5. CASE heads[i].head = e.head /\ e.kind = "current_mode"
    BY <1>1, <1>3, <2>1, <2>5, HandlersType
  <2> QED BY <2>2, <2>3, <2>4, <2>5 DEF e
<1>5. heads' \in [1..Len(heads) -> Entry]
  BY <1>2, <1>3, <1>4
<1>6. heads' \in Seq(Entry)
  BY <1>2, <1>5, SeqDef
<1>7. Len(heads') = Len(heads)
  BY <1>2, <1>5, <1>6, LenProperties
<1> QED BY <1>3, <1>4, <1>6, <1>7 DEF e

LEMMA HeadsRead ==
  ASSUME Types, Dispatch
  PROVE  /\ heads' \in Seq(Entry) /\ Len(heads') <= MAX_HEADS
         /\ \A i \in DOMAIN heads' : heads'[i].n_modes <= MAX_MODES
<1> DEFINE k == Head(events).kind
<1>1. Head(events) \in EventT
  BY Reads, RestOf DEF Types, Connection
<1>2. /\ heads \in Seq(Entry) /\ Len(heads) <= MAX_HEADS /\ Len(heads) \in Nat
      /\ DOMAIN heads = 1..Len(heads)
      /\ \A i \in DOMAIN heads : heads[i] \in Entry /\ heads[i].n_modes <= MAX_MODES
  BY LenProperties, ElementOfSeq DEF Types, TypeOK, Connection
<1>3. CASE k \in {"mode", "enabled", "current_mode"}
  BY <1>2, <1>3, EntriesRead
<1>6. CASE k = "head"
  <2>1. heads' = IF Len(heads) >= MAX_HEADS THEN heads
                 ELSE Append(heads, NewEntry(Head(events).head))
    BY <1>6, ReadsWhat DEF mgr_head, NewEntry
  <2>2. NewEntry(Head(events).head) \in Entry
        /\ NewEntry(Head(events).head).n_modes <= MAX_MODES
    <3>1. Head(events).head \in Heads
      BY <1>1, <1>6 DEF EventT, AboutHead
    <3> QED BY <3>1, BoundsAssumption DEF NewEntry, Entry, HeadInfo
  <2>3. CASE Len(heads) >= MAX_HEADS
    BY <1>2, <2>1, <2>3
  <2>4. CASE ~(Len(heads) >= MAX_HEADS)
    <3>1. heads' = Append(heads, NewEntry(Head(events).head))
      BY <2>1, <2>4
    <3>2. /\ heads' \in Seq(Entry) /\ Len(heads') = Len(heads) + 1
          /\ \A i \in 1..Len(heads) : heads'[i] = heads[i]
          /\ heads'[Len(heads) + 1] = NewEntry(Head(events).head)
      BY <1>2, <2>2, <3>1, AppendProperties
    <3>3. DOMAIN heads' = 1..(Len(heads) + 1)
      BY <3>2, LenProperties
    <3> QED BY <1>2, <2>2, <2>4, <3>2, <3>3, BoundsAssumption
  <2> QED BY <2>3, <2>4
<1>7. CASE k \notin {"head", "mode", "enabled", "current_mode"}
  BY <1>2, <1>7, Reads
<1> QED BY <1>3, <1>6, <1>7

LEMMA TypesRead ==
  ASSUME Types, Dispatch
  PROVE  Types'
<1> DEFINE e == Head(events)
<1>1. /\ e \in EventT /\ events' \in Seq(EventT) /\ e.n \in Nat
  <2>1. e \in EventT /\ Tail(events) \in Seq(EventT)
    BY Reads, RestOf DEF Types, Connection
  <2> QED BY <2>1, Reads DEF EventT
<1>2. /\ heads' \in Seq(Entry) /\ Len(heads') <= MAX_HEADS
      /\ \A i \in DOMAIN heads' : heads'[i].n_modes <= MAX_MODES
  BY HeadsRead
<1>3. heads' \in Seq(HeadInfo)
  BY <1>2, SeqMonotonic DEF Entry
<1>4. manager' \in Nat /\ requests' \in Seq(RequestT)
  <2>1. CASE e.kind = "global"
    <3>1. /\ manager' = Version(e.n)
          /\ Post(<<[Request("bind") EXCEPT !.n = Version(e.n)]>>)
      BY <2>1, ReadsWhat DEF reg_global
    <3>2. Version(e.n) \in Nat
      BY <1>1 DEF Version
    <3>3. <<[Request("bind") EXCEPT !.n = Version(e.n)]>> \in Seq(RequestT)
      BY <3>2, BindType, One
    <3> QED BY <3>1, <3>2, <3>3, PostType DEF Types, Connection
  <2>2. CASE e.kind # "global"
    BY <2>2, Reads DEF Types, TypeOK, Connection
  <2> QED BY <2>1, <2>2
<1>5. serial' \in Nat
  BY <1>1, Reads, ReadsWhat DEF Types, TypeOK, mgr_done
<1>6. config_result' \in {-1, 0, 1}
  BY Reads, ReadsWhat DEF Types, TypeOK, cfg_ok, cfg_fail, cfg_cancel, OnConfiguration
<1>7. synced' \in BOOLEAN
  BY Reads, ReadsWhat DEF Types, TypeOK, Callback
<1>8. broken' \in BOOLEAN
  BY Reads, ReadsWhat DEF Types, TypeOK, Break
<1>9. TypeOK'
  BY <1>2, <1>3, <1>4, <1>5, <1>6, <1>7, <1>8, Reads DEF Types, TypeOK
<1>10. Connection'
  BY <1>1, <1>2, <1>4, Reads DEF Types, Connection
<1> QED BY <1>9, <1>10 DEF Types

\* A configuration says something of each head that it is applied to.
LEMMA ConfiguredIs ==
  ASSUME Types, conf # NoConf, ~UNCONFIGURED_HEAD(conf), NEW h \in plugged, NEW m \in Modes
  PROVE  /\ Configured(conf, h, m) \in Output
         /\ Configured(conf, h, m).mode \in ModeOf(h) \union {NoMode}
         /\ \E i \in DOMAIN conf.heads :
              LET e == conf.heads[i]
                  o == Configured(conf, h, m)
              IN  /\ e.head = h /\ e \in ConfHead
                  /\ o.enabled = e.enabled
                  /\ o.mode = IF e.enabled = 0 THEN output[h].mode
                              ELSE IF e.mode # NoMode THEN e.mode
                              ELSE IF output[h].mode = NoMode THEN NoMode ELSE <<h, m>>
                  /\ e.enabled = 1 /\ e.scale # NoScale => o.scale = e.scale
<1>1. \E i \in DOMAIN conf.heads : conf.heads[i].head = h
  BY DEF UNCONFIGURED_HEAD
<1> DEFINE i == CHOOSE i \in DOMAIN conf.heads : conf.heads[i].head = h
           e == conf.heads[i]
           o == output[h]
<1>2. i \in DOMAIN conf.heads /\ e.head = h
  BY <1>1
<1>3. /\ e \in ConfHead /\ e.scale \in {NoScale} \union (Nat \ {0})
      /\ h \in Heads /\ o \in Output /\ o.mode \in ModeOf(h) \union {NoMode}
  <2>1. conf.heads \in Seq(ConfHead)
    BY DEF Types, Connection, RequestT
  <2>2. e \in ConfHead
    BY <1>2, <2>1, LenProperties, ElementOfSeq
  <2> QED BY <1>2, <2>2 DEF Types, TypeOK, Connection
<1> HIDE DEF i
<1>4. e.enabled \in {0, 1} /\ e.mode \in ModeOf(h) \union {NoMode}
      /\ o.enabled \in {0, 1} /\ o.scale \in Nat
  BY <1>2, <1>3 DEF ConfHead, Output
<1>5. <<h, m>> \in ModeOf(h) /\ ModeOf(h) \subseteq Heads \X Modes
  BY <1>3 DEF ModeOf
<1>6. CASE e.enabled = 0
  <2>1. Configured(conf, h, m) = [o EXCEPT !.enabled = 0]
    BY <1>6 DEF Configured, i
  <2> QED BY <1>2, <1>3, <1>4, <1>6, <2>1 DEF Output
<1>7. CASE e.enabled = 1
  <2> DEFINE mo == IF e.mode # NoMode THEN e.mode
                   ELSE IF o.mode = NoMode THEN NoMode ELSE <<h, m>>
             sc == IF e.scale = NoScale THEN o.scale ELSE e.scale
  <2>1. Configured(conf, h, m) = [enabled |-> 1, mode |-> mo, scale |-> sc]
    BY <1>7 DEF Configured, i
  <2>2. sc \in Nat /\ (e.scale # NoScale => sc = e.scale)
    BY <1>3, <1>4
  <2>3. mo \in ModeOf(h) \union {NoMode}
    BY <1>4, <1>5
  <2>4. mo \in (Heads \X Modes) \union {NoMode}
    BY <1>5, <2>3
  <2> HIDE DEF sc
  <2>5. /\ Configured(conf, h, m) \in Output
        /\ Configured(conf, h, m).enabled = 1
        /\ Configured(conf, h, m).mode = mo /\ Configured(conf, h, m).scale = sc
    BY <2>1, <2>2, <2>4 DEF Output
  <2> QED BY <1>2, <1>3, <1>7, <2>2, <2>3, <2>5
<1> QED BY <1>4, <1>6, <1>7

-----------------------------------------------------------------------------
(* What is sent. *)

\* What is about no head, and is not a done.
Plain(q) ==
  /\ q \in Seq(EventT)
  /\ \A i \in DOMAIN q :
       q[i].head = NoHead /\ q[i].kind \in AboutNone \ {"done"}

LEMMA PlainOne ==
  ASSUME NEW k \in AboutNone \ {"done"}
  PROVE  /\ Plain(<<Event(k)>>) /\ <<Event(k)>>[1].kind = k /\ DOMAIN <<Event(k)>> = {1}
  BY PlainEvent, One DEF Plain

LEMMA PlainNone == Plain(<<>>)
  BY DEF Plain

LEMMA DoneOne ==
  ASSUME NEW s \in Nat
  PROVE  /\ Done(s) \in EventT /\ Done(s).kind = "done" /\ Done(s).n = s
         /\ Done(s).head = NoHead
         /\ <<Done(s)>> \in Seq(EventT)
  BY PlainEvent, One DEF Done, AboutNone

\* A step that says nothing of a head, and changes none.
Speaks ==
  \/ ServeRegistry \/ ServeSync \/ ServeApply \/ Cancel \/ Omitted \/ Fail \/ Die
  \/ Serving("bind") /\ Head(requests).n > offered /\ ServeBind

LEMMA Spoken ==
  ASSUME Types, Speaks
  PROVE  /\ \E q : Plain(q) /\ Send(q)
         /\ UNCHANGED <<plugged, output, cserial, unannounced, announced, bound>>
<1> USE DEF screens
<1>1. events \in Seq(EventT) /\ offered \in Nat /\ events \o <<>> = events
  BY ConcatEmptySeq, BoundsAssumption DEF Types, TypeOK, Connection
<1>2. CASE ServeRegistry
  <2>1. Plain(<<>>) /\ Plain(<<Numbered("global", offered)>>)
    BY <1>1, PlainNone, PlainEvent, One DEF Plain, AboutNone
  <2>2. CASE offered = 0
    BY <1>2, <2>1, <2>2 DEF ServeRegistry, Serving
  <2>3. CASE offered # 0
    BY <1>2, <2>1, <2>3 DEF ServeRegistry, Serving
  <2> QED BY <2>2, <2>3
<1>3. CASE ServeSync
  <2>1. Plain(<<Event("callback")>>)
    BY PlainOne DEF AboutNone
  <2> QED BY <1>3, <2>1 DEF ServeSync, Serving
<1>4. Plain(<<Event("error")>>)
  BY PlainOne DEF AboutNone
<1>5. CASE ServeApply
  <2>1. Plain(<<>>)
    BY PlainNone
  <2>2. /\ Close("protocol") \/ UNCHANGED events
        /\ UNCHANGED <<plugged, output, cserial, unannounced, announced, bound>>
    BY <1>5 DEF ServeApply, Serving
  <2> QED BY <1>1, <1>4, <2>1, <2>2 DEF Close, Send
<1>6. CASE Cancel
  <2>1. Plain(<<Event("cancelled")>>)
    BY PlainOne DEF AboutNone
  <2> QED BY <1>6, <2>1 DEF Cancel, Answering
<1>7. CASE Omitted
  BY <1>4, <1>7 DEF Omitted, Answering, Close
<1>8. CASE Fail
  <2>1. Plain(<<Event("failed")>>)
    BY PlainOne DEF AboutNone
  <2> QED BY <1>8, <2>1 DEF Fail, Applying, Answering
<1>9. CASE Die
  BY <1>4, <1>9 DEF Die, Close
<1>10. CASE Serving("bind") /\ Head(requests).n > offered /\ ServeBind
  BY <1>4, <1>10 DEF ServeBind, Serving, Close
<1> QED BY <1>2, <1>3, <1>5, <1>6, <1>7, <1>8, <1>9, <1>10 DEF Speaks

\* The client has bound, and is about to be told of every head.
Binds == ServeBind /\ ~(Head(requests).n > offered)

LEMMA Bound ==
  ASSUME Types, Binds
  PROVE  /\ requests # <<>> /\ Head(requests).kind = "bind" /\ bound' = Head(requests).n
         /\ bound' \in Nat
         /\ unannounced = {} /\ unannounced' = plugged
         /\ plugged # {} => events' = events
         /\ plugged = {} => Send(<<Done(cserial)>>)
         /\ UNCHANGED <<plugged, output, cserial, announced, fault, conf, verdict>>
<1>1. /\ requests # <<>> /\ Head(requests).kind = "bind" /\ unannounced = {}
      /\ bound' = Head(requests).n /\ unannounced' = plugged
      /\ Send(IF plugged = {} THEN <<Done(cserial)>> ELSE <<>>)
      /\ UNCHANGED <<plugged, output, cserial, announced, fault, conf, verdict>>
  BY DEF Binds, ServeBind, Serving, screens
<1>2. events \o <<>> = events
  BY ConcatEmptySeq DEF Types, Connection
<1>3. Head(requests) \in RequestT
  BY <1>1, RestOf DEF Types, Connection
<1> QED BY <1>1, <1>2, <1>3 DEF Send, RequestT

\* A head is announced, and the last one is followed by a done.
LEMMA Announced ==
  ASSUME Types, NEW h \in Heads, AnnounceHead(h)
  PROVE  /\ h \in unannounced /\ unannounced' = unannounced \ {h}
         /\ announced' = announced \union {h}
         /\ Announces(Announce(h), h) /\ Mentions(Announce(h), "enabled")
         /\ output[h].enabled = 1 /\ output[h].mode # NoMode =>
              Mentions(Announce(h), "current_mode")
         /\ unannounced = {h} => Send(Announce(h) \o <<Done(cserial)>>)
         /\ unannounced # {h} => Send(Announce(h))
         /\ UNCHANGED <<requests, plugged, output, cserial, bound, conf, fault, verdict>>
<1>1. /\ h \in unannounced /\ unannounced' = unannounced \ {h}
      /\ announced' = announced \union {h}
      /\ Send(Announce(h) \o (IF unannounced = {h} THEN <<Done(cserial)>> ELSE <<>>))
      /\ UNCHANGED <<requests, plugged, output, cserial, bound, conf, fault, verdict>>
  BY DEF AnnounceHead, screens
<1>2. /\ Announces(Announce(h), h) /\ Mentions(Announce(h), "enabled")
      /\ output[h].enabled = 1 /\ output[h].mode # NoMode =>
           Mentions(Announce(h), "current_mode")
  BY AnnounceIs DEF Types, TypeOK, Connection
<1>3. Announce(h) \o <<>> = Announce(h)
  BY <1>2, ConcatEmptySeq DEF Announces
<1> QED BY <1>1, <1>2, <1>3

\* A change of the screens, of which a client that has bound is told.
LEMMA Changed ==
  ASSUME Types, NEW es \in Seq(EventT), Change(es)
  PROVE  /\ unannounced = {} /\ cserial' = cserial + 1 /\ fault = "none"
         /\ bound = 0 => events' = events
         /\ bound # 0 => Send(es \o <<Done(cserial + 1)>>)
         /\ UNCHANGED <<requests, bound, unannounced, conf, fault, verdict>>
<1>1. events \o <<>> = events
  BY ConcatEmptySeq DEF Types, Connection
<1> QED BY <1>1 DEF Change, Send

\* The configuration is applied.
LEMMA Succeeded ==
  ASSUME Types, NEW m \in Modes, Succeed(m)
  PROVE  /\ unannounced = {} /\ conf # NoConf /\ verdict = "none" /\ verdict' = "succeeded"
         /\ conf.n = cserial /\ ~UNCONFIGURED_HEAD(conf)
         /\ \A h \in Heads :
              output'[h] = IF h \in plugged THEN Configured(conf, h, m) ELSE output[h]
         /\ \/ Send(<<Event("succeeded")>>) /\ UNCHANGED cserial
            \/ Send(<<Event("succeeded")>> \o <<Done(cserial + 1)>>) /\ cserial' = cserial + 1
         /\ output' \in [Heads -> Output]
         /\ \A h \in Heads : output'[h].mode \in ModeOf(h) \union {NoMode}
         /\ UNCHANGED <<requests, plugged, bound, unannounced, announced, conf, fault>>
<1>1. /\ unannounced = {} /\ conf # NoConf /\ verdict = "none" /\ verdict' = "succeeded"
      /\ conf.n = cserial /\ ~UNCONFIGURED_HEAD(conf)
      /\ output' = [h \in Heads |-> IF h \in plugged THEN Configured(conf, h, m)
                                                      ELSE output[h]]
      /\ cserial' = IF output' = output THEN cserial ELSE cserial + 1
      /\ Send(<<Event("succeeded")>>
              \o (IF output' = output THEN <<>> ELSE <<Done(cserial + 1)>>))
      /\ UNCHANGED <<requests, plugged, bound, unannounced, announced, conf, fault>>
  BY DEF Succeed, Applying, Answering, Reply
<1>2. <<Event("succeeded")>> \o <<>> = <<Event("succeeded")>>
  <2>1. <<Event("succeeded")>> \in Seq(EventT)
    BY PlainOne DEF AboutNone, Plain
  <2> QED BY <2>1, ConcatEmptySeq
<1>3. ASSUME NEW h \in Heads
      PROVE  /\ output'[h] = IF h \in plugged THEN Configured(conf, h, m) ELSE output[h]
             /\ output'[h] \in Output
             /\ output'[h].mode \in ModeOf(h) \union {NoMode}
  <2>1. output'[h] = IF h \in plugged THEN Configured(conf, h, m) ELSE output[h]
    BY <1>1
  <2>2. CASE h \in plugged
    BY <1>1, <2>1, <2>2, ConfiguredIs
  <2>3. CASE h \notin plugged
    BY <2>1, <2>3 DEF Types, TypeOK, Connection
  <2> QED BY <2>1, <2>2, <2>3
<1>4. output' \in [Heads -> Output]
  BY <1>1, <1>3
<1> QED BY <1>1, <1>2, <1>3, <1>4

\* The state of a screen that is plugged in changes, to o.
TellsState(q, h, o) ==
  /\ \A i \in DOMAIN q : /\ q[i].head = h
                         /\ q[i].kind \in {"enabled", "current_mode"}
                         /\ q[i].kind = "enabled" => q[i].n = o.enabled
                         /\ q[i].kind = "current_mode" => q[i].mode = o.mode
  /\ Mentions(q, "enabled")
  /\ o.enabled = 1 /\ o.mode # NoMode => Mentions(q, "current_mode")

LEMMA Toggled ==
  ASSUME Types, NEW h \in Heads, Toggle(h)
  PROVE  /\ \E q \in Seq(EventT) : Change(q) /\ TellsState(q, h, output'[h])
         /\ h \in plugged /\ output'[h].mode = output[h].mode
         /\ output' \in [Heads -> Output]
         /\ \A g \in Heads \ {h} : output'[g] = output[g]
         /\ UNCHANGED <<plugged, announced>>
<1> DEFINE e1 == [HeadEvent("enabled", h) EXCEPT !.n = output'[h].enabled]
           e2 == ModeEvent(h)
           es == <<e1>> \o IF output'[h].enabled = 1 /\ output[h].mode # NoMode
                           THEN <<e2>> ELSE <<>>
<1>1. /\ h \in plugged /\ Change(es)
      /\ output' = [output EXCEPT ![h].enabled = 1 - @]
      /\ UNCHANGED <<plugged, announced>>
  BY DEF Toggle
<1>2. output[h] \in Output /\ output[h].mode \in ModeOf(h) \union {NoMode}
      /\ output \in [Heads -> Output]
  BY DEF Types, TypeOK, Connection
<1>3. /\ output'[h] = [output[h] EXCEPT !.enabled = 1 - output[h].enabled]
      /\ \A g \in Heads \ {h} : output'[g] = output[g]
      /\ output' = [g \in Heads |-> output'[g]]
  BY <1>1, <1>2
<1>4. output'[h] \in Output /\ output'[h].mode = output[h].mode
      /\ output'[h].enabled \in {0, 1}
  BY <1>2, <1>3 DEF Output
<1>5. output' \in [Heads -> Output]
  BY <1>2, <1>3, <1>4
<1>6. e1 \in EventT /\ e1.kind = "enabled" /\ e1.head = h /\ e1.n = output'[h].enabled
  BY <1>4, EnabledEvent
<1> HIDE DEF e1
<1>7. <<e1>> \in Seq(EventT) /\ \A i \in DOMAIN <<e1>> : <<e1>>[i] = e1
      /\ Mentions(<<e1>>, "enabled")
  BY <1>6, One DEF Mentions
<1>8. CASE output'[h].enabled = 1 /\ output[h].mode # NoMode
  <2>1. e2 \in EventT /\ e2.kind = "current_mode" /\ e2.head = h /\ e2.mode = output'[h].mode
    BY <1>2, <1>4, <1>8, CurrentModeEvent DEF ModeEvent
  <2> HIDE DEF e2
  <2>2. es = <<e1>> \o <<e2>>
    BY <1>8
  <2> HIDE DEF es
  <2>3. <<e2>> \in Seq(EventT) /\ (\A i \in DOMAIN <<e2>> : <<e2>>[i] = e2)
        /\ Mentions(<<e2>>, "current_mode")
    BY <2>1, One DEF Mentions
  <2>4. es \in Seq(EventT) /\ \A i \in DOMAIN es : es[i] = e1 \/ es[i] = e2
    BY <1>7, <2>2, <2>3, JoinOf
  <2>5. Mentions(es, "enabled") /\ Mentions(es, "current_mode")
    <3> DEFINE p1 == <<e1>>
               p2 == <<e2>>
    <3>1. p1 \in Seq(EventT) /\ p2 \in Seq(EventT) /\ es = p1 \o p2
          /\ Mentions(p1, "enabled") /\ Mentions(p2, "current_mode")
      BY <1>7, <2>2, <2>3
    <3> HIDE DEF p1, p2
    <3> QED BY <3>1, MentionsMore
  <2>6. TellsState(es, h, output'[h])
    BY <1>4, <1>6, <2>1, <2>4, <2>5 DEF TellsState
  <2> QED BY <1>1, <1>3, <1>4, <1>5, <2>4, <2>6
<1>9. CASE ~(output'[h].enabled = 1 /\ output[h].mode # NoMode)
  <2>1. es = <<e1>>
    BY <1>7, <1>9, ConcatEmptySeq
  <2> HIDE DEF es
  <2>2. TellsState(es, h, output'[h])
    BY <1>4, <1>6, <1>7, <1>9, <2>1 DEF TellsState
  <2> QED BY <1>1, <1>3, <1>4, <1>5, <1>7, <2>1, <2>2
<1> QED BY <1>8, <1>9

LEMMA Switched ==
  ASSUME Types, NEW h \in Heads, NEW m \in Modes, SwitchMode(h, m)
  PROVE  \E e \in EventT :
           /\ Change(<<e>>) /\ h \in plugged
           /\ e.kind = "current_mode" /\ e.head = h /\ e.mode = output'[h].mode
           /\ output'[h].enabled = output[h].enabled
           /\ output'[h].mode \in ModeOf(h)
           /\ output' \in [Heads -> Output]
           /\ \A g \in Heads \ {h} : output'[g] = output[g]
           /\ UNCHANGED <<plugged, announced>>
<1>1. /\ h \in plugged /\ Change(<<ModeEvent(h)>>)
      /\ output' = [output EXCEPT ![h].mode = <<h, m>>]
      /\ UNCHANGED <<plugged, announced>>
  BY DEF SwitchMode
<1>2. output[h] \in Output /\ output \in [Heads -> Output] /\ <<h, m>> \in ModeOf(h)
      /\ <<h, m>> \in Heads \X Modes
  BY DEF Types, TypeOK, ModeOf
<1>3. /\ output'[h] = [output[h] EXCEPT !.mode = <<h, m>>]
      /\ \A g \in Heads \ {h} : output'[g] = output[g]
      /\ output' = [g \in Heads |-> output'[g]]
  BY <1>1, <1>2
<1>4. output'[h] \in Output /\ output'[h].mode = <<h, m>>
      /\ output'[h].enabled = output[h].enabled
  BY <1>2, <1>3 DEF Output
<1>5. output' \in [Heads -> Output]
  BY <1>2, <1>3, <1>4
<1>6. LET e == ModeEvent(h)
      IN  e \in EventT /\ e.kind = "current_mode" /\ e.head = h /\ e.mode = output'[h].mode
  BY <1>2, <1>4, CurrentModeEvent DEF ModeEvent
<1> QED BY <1>1, <1>2, <1>3, <1>4, <1>5, <1>6

LEMMA Plugged ==
  ASSUME Types, NEW h \in Heads, Plug(h)
  PROVE  /\ Change(Announce(h)) /\ h \notin plugged \union announced
         /\ plugged' = plugged \union {h}
         /\ announced' = IF bound = 0 THEN announced ELSE announced \union {h}
         /\ output' = output
         /\ Announce(h) \in Seq(EventT) /\ Announces(Announce(h), h)
         /\ Mentions(Announce(h), "enabled")
         /\ output[h].enabled = 1 /\ output[h].mode # NoMode =>
              Mentions(Announce(h), "current_mode")
<1>1. /\ Announces(Announce(h), h) /\ Mentions(Announce(h), "enabled")
      /\ output[h].enabled = 1 /\ output[h].mode # NoMode =>
           Mentions(Announce(h), "current_mode")
  BY AnnounceIs DEF Types, TypeOK, Connection
<1> QED BY <1>1 DEF Plug, Announces

LEMMA Unplugged ==
  ASSUME Types, NEW h \in Heads, Unplug(h)
  PROVE  /\ \E e \in EventT : e.kind = "head_finished" /\ e.head = h /\ Change(<<e>>)
         /\ h \in plugged /\ plugged' = plugged \ {h}
         /\ UNCHANGED <<output, announced>>
<1>1. LET e == HeadEvent("head_finished", h)
      IN  e \in EventT /\ e.kind = "head_finished" /\ e.head = h
  <2>1. "head_finished" \in AboutHead /\ "head_finished" # "current_mode"
    BY DEF AboutHead
  <2> QED BY <2>1, EventOfHead
<1> QED BY <1>1 DEF Unplug

\* A request is taken from the connection, or none is.
LEMMA Takes ==
  ASSUME Types, Compositor \/ Outside
  PROVE  /\ UNCHANGED requests \/ (requests # <<>> /\ requests' = Tail(requests))
         /\ requests' \in Seq(RequestT)
<1>1. UNCHANGED requests \/ (requests # <<>> /\ requests' = Tail(requests))
  <2>1. CASE ServeRegistry \/ ServeSync \/ ServeBind \/ ServeApply
    BY <2>1 DEF ServeRegistry, ServeSync, ServeBind, ServeApply, Serving
  <2>2. CASE \E h \in Heads : AnnounceHead(h)
    BY <2>2 DEF AnnounceHead
  <2>3. CASE Cancel \/ Omitted
    BY <2>3 DEF Cancel, Omitted, Answering
  <2>4. CASE Fail
    BY <2>4 DEF Fail, Applying, Answering
  <2>5. CASE \E m \in Modes : Succeed(m)
    BY <2>5 DEF Succeed, Applying, Answering
  <2>6. CASE \E h \in Heads : Plug(h) \/ Unplug(h) \/ Toggle(h)
    BY <2>6 DEF Plug, Unplug, Toggle, Change
  <2>7. CASE \E h \in Heads, m \in Modes : SwitchMode(h, m)
    BY <2>7 DEF SwitchMode, Change
  <2>8. CASE Die
    BY <2>8 DEF Die
  <2> QED BY <2>1, <2>2, <2>3, <2>4, <2>5, <2>6, <2>7, <2>8 DEF Compositor, Outside
<1>2. requests # <<>> => Tail(requests) \in Seq(RequestT)
  BY RestOf DEF Types, Connection
<1>3. requests \in Seq(RequestT)
  BY DEF Types, Connection
<1> QED BY <1>1, <1>2, <1>3

\* What becomes of a configuration.
LEMMA Judges ==
  ASSUME Types, Compositor \/ Outside
  PROVE  /\ \/ conf' = conf
            \/ /\ ServeApply /\ conf' = Head(requests) /\ conf' \in RequestT
               /\ Head(requests).kind = "apply" /\ requests # <<>>
               /\ ~INVALID_SCALE(conf') /\ unannounced = {}
         /\ fault' \in {"none", "died", "protocol"}
         /\ verdict' \in {"none", "succeeded", "failed", "cancelled"}
         /\ verdict' # verdict => verdict = "none" /\ conf # NoConf
<1> USE DEF Types, TypeOK
<1>1. CASE ServeRegistry
  BY <1>1 DEF ServeRegistry
<1>2. CASE ServeSync
  BY <1>2 DEF ServeSync
<1>3. CASE ServeBind
  BY <1>3 DEF ServeBind, Close
<1>4. CASE ServeApply
  <2>1. /\ requests # <<>> /\ Head(requests).kind = "apply" /\ unannounced = {}
        /\ \/ fault' = "protocol" /\ conf' = conf
           \/ fault' = fault /\ conf' = Head(requests) /\ ~INVALID_SCALE(Head(requests))
        /\ UNCHANGED verdict
    BY <1>4 DEF ServeApply, Close, Serving
  <2>2. Head(requests) \in RequestT
    BY <2>1, RestOf DEF Connection
  <2>3. CASE fault' = "protocol" /\ conf' = conf
    BY <2>1, <2>3
  <2>4. CASE fault' = fault /\ conf' = Head(requests) /\ ~INVALID_SCALE(Head(requests))
    BY <1>4, <2>1, <2>2, <2>4
  <2> QED BY <2>1, <2>3, <2>4
<1>5. CASE \E h \in Heads : AnnounceHead(h)
  BY <1>5 DEF AnnounceHead
<1>6. CASE Cancel
  BY <1>6 DEF Cancel, Answering, Reply
<1>7. CASE Omitted
  BY <1>7 DEF Omitted, Answering, Close
<1>8. CASE Fail
  BY <1>8 DEF Fail, Applying, Answering, Reply
<1>9. CASE \E m \in Modes : Succeed(m)
  BY <1>9 DEF Succeed, Applying, Answering, Reply
<1>10. CASE \E h \in Heads : Plug(h) \/ Unplug(h) \/ Toggle(h)
  BY <1>10 DEF Plug, Unplug, Toggle, Change
<1>11. CASE \E h \in Heads, m \in Modes : SwitchMode(h, m)
  BY <1>11 DEF SwitchMode, Change
<1>12. CASE Die
  BY <1>12 DEF Die, Close
<1> QED BY <1>1, <1>2, <1>3, <1>4, <1>5, <1>6, <1>7, <1>8, <1>9, <1>10, <1>11, <1>12
        DEF Compositor, Outside

\* Every step of the compositor is of one of these kinds.
LEMMA Kinds ==
  ASSUME Compositor \/ Outside
  PROVE  \/ Speaks \/ Binds
         \/ \E h \in Heads : AnnounceHead(h) \/ Plug(h) \/ Unplug(h) \/ Toggle(h)
         \/ \E h \in Heads, m \in Modes : SwitchMode(h, m)
         \/ \E m \in Modes : Succeed(m)
<1>1. ServeBind => Speaks \/ Binds
  BY DEF ServeBind, Speaks, Binds
<1> QED BY <1>1 DEF Compositor, Outside, Speaks

\* The screens and what is known of them.
LEMMA ScreensType ==
  ASSUME Types, Compositor \/ Outside
  PROVE  /\ events' \in Seq(EventT)
         /\ bound' \in Nat /\ cserial' \in Nat
         /\ plugged' \subseteq Heads /\ unannounced' \subseteq plugged'
         /\ announced' \subseteq Heads /\ IsFiniteSet(announced')
         /\ output' \in [Heads -> Output]
         /\ \A h \in Heads : output'[h].mode \in ModeOf(h) \union {NoMode}
<1>0. /\ events \in Seq(EventT) /\ bound \in Nat /\ cserial \in Nat
      /\ plugged \subseteq Heads /\ unannounced \subseteq plugged
      /\ announced \subseteq Heads /\ IsFiniteSet(announced)
      /\ output \in [Heads -> Output]
      /\ \A h \in Heads : output[h].mode \in ModeOf(h) \union {NoMode}
  BY DEF Types, TypeOK, Connection
<1>1. CASE Speaks
  BY <1>0, <1>1, Spoken, SendType DEF Plain
<1>2. CASE Binds
  BY <1>0, <1>2, Bound, SendType, DoneOne
<1>3. ASSUME NEW es \in Seq(EventT), Change(es)
      PROVE  events' \in Seq(EventT) /\ bound' \in Nat /\ cserial' \in Nat
             /\ unannounced = {} /\ unannounced' = {}
  <2>1. cserial + 1 \in Nat
    BY <1>0
  <2>2. es \o <<Done(cserial + 1)>> \in Seq(EventT)
    BY <2>1, DoneOne, JoinOf
  <2> QED BY <1>0, <1>3, <2>1, <2>2, Changed, SendType
<1>4. ASSUME NEW h \in Heads
      PROVE  IsFiniteSet(announced \union {h})
  BY <1>0, FS_AddElement
<1>5. ASSUME NEW h \in Heads, AnnounceHead(h)
      PROVE  events' \in Seq(EventT)
  <2>1. Announce(h) \in Seq(EventT)
    BY <1>5, Announced DEF Announces
  <2>2. Announce(h) \o <<Done(cserial)>> \in Seq(EventT)
    BY <1>0, <2>1, DoneOne, JoinOf
  <2> QED BY <1>0, <1>5, <2>1, <2>2, Announced, SendType
<1>6. CASE \E h \in Heads : AnnounceHead(h)
  BY <1>0, <1>4, <1>5, <1>6, Announced
<1>7. CASE \E h \in Heads : Plug(h)
  BY <1>0, <1>3, <1>4, <1>7, Plugged
<1>8. CASE \E h \in Heads : Unplug(h)
  <2>1. PICK h \in Heads : Unplug(h)
    BY <1>8
  <2>2. PICK e \in EventT : Change(<<e>>)
    BY <2>1, Unplugged
  <2>3. <<e>> \in Seq(EventT)
    BY One
  <2> QED BY <1>0, <1>3, <2>1, <2>2, <2>3, Unplugged
<1>9. CASE \E h \in Heads : Toggle(h)
  <2>1. PICK h \in Heads : Toggle(h)
    BY <1>9
  <2>2. \A g \in Heads : output'[g].mode \in ModeOf(g) \union {NoMode}
    BY <1>0, <2>1, Toggled
  <2> QED BY <1>0, <1>3, <2>1, <2>2, Toggled
<1>10. CASE \E h \in Heads, m \in Modes : SwitchMode(h, m)
  <2>1. PICK h \in Heads, m \in Modes : SwitchMode(h, m)
    BY <1>10
  <2>2. PICK e \in EventT : Change(<<e>>)
    BY <2>1, Switched
  <2>3. <<e>> \in Seq(EventT)
    BY One
  <2>4. \A g \in Heads : output'[g].mode \in ModeOf(g) \union {NoMode}
    BY <1>0, <2>1, Switched
  <2> QED BY <1>0, <1>3, <2>1, <2>2, <2>3, <2>4, Switched
<1>11. CASE \E m \in Modes : Succeed(m)
  <2>0. <<Event("succeeded")>> \in Seq(EventT)
    BY PlainOne DEF Plain, AboutNone
  <2>1. /\ cserial + 1 \in Nat /\ <<Event("succeeded")>> \in Seq(EventT)
        /\ <<Done(cserial + 1)>> \in Seq(EventT)
    BY <1>0, <2>0, DoneOne
  <2>2. <<Event("succeeded")>> \o <<Done(cserial + 1)>> \in Seq(EventT)
    BY <2>1, JoinOf
  <2> QED BY <1>0, <1>11, <2>1, <2>2, Succeeded, SendType
<1> QED BY <1>1, <1>2, <1>6, <1>7, <1>8, <1>9, <1>10, <1>11, Kinds

LEMMA TypesServe ==
  ASSUME Types, Compositor \/ Outside
  PROVE  Types'
<1>1. TypeOK'
  BY ScreensType, Judges, Serves DEF Types, TypeOK
<1>2. conf' \in RequestT /\ (conf' # NoConf =>
        \A i \in DOMAIN conf'.heads : conf'.heads[i].scale \in {NoScale} \union (Nat \ {0}))
  BY Judges DEF Types, Connection, INVALID_SCALE
<1>3. Connection'
  BY <1>2, ScreensType, Takes, Serves DEF Types, Connection
<1> QED BY <1>1, <1>3 DEF Types

LEMMA TypesStep == Types /\ [Next]_vars => Types'
<1> SUFFICES ASSUME Types, [Next]_vars PROVE Types'
  OBVIOUS
<1>1. CASE UNCHANGED vars
  BY <1>1 DEF Types, TypeOK, Connection, vars, client, compositor, screens
<1> QED BY <1>1, TypesCall, TypesRead, TypesServe DEF Next

-----------------------------------------------------------------------------
(* The events under way, before and after a step. *)

LEMMA Sent ==
  ASSUME Types, NEW q \in Seq(EventT), Send(q)
  PROVE  /\ Len(events) \in Nat /\ DOMAIN events = 1..Len(events) /\ DOMAIN q = 1..Len(q)
         /\ \A i \in DOMAIN events : i \in DOMAIN events' /\ events'[i] = events[i]
         /\ \A j \in DOMAIN q :
              Len(events) + j \in DOMAIN events' /\ events'[Len(events) + j] = q[j]
         /\ \A i \in DOMAIN events' :
              \/ i \in DOMAIN events /\ events'[i] = events[i]
              \/ /\ i > Len(events) /\ i - Len(events) \in DOMAIN q
                 /\ events'[i] = q[i - Len(events)]
         /\ \A k : Mentions(events', k) <=> Mentions(events, k) \/ Mentions(q, k)
         /\ \A k : Once(events, k) /\ Once(q, k) /\ ~(Mentions(events, k) /\ Mentions(q, k)) =>
                     Once(events', k)
<1>1. events \in Seq(EventT) /\ events' = events \o q
  BY DEF Types, Connection, Send
<1> QED BY <1>1, JoinOf, MentionsMore, OnceMore

LEMMA Read ==
  ASSUME Types, Dispatch
  PROVE  /\ Head(events) \in EventT /\ Head(events) = events[1] /\ 1 \in DOMAIN events
         /\ DOMAIN events \subseteq Int /\ DOMAIN events' \subseteq Int
         /\ \A i \in DOMAIN events : events[i] \in EventT /\ i >= 1
         /\ \A i \in DOMAIN events' : i + 1 \in DOMAIN events /\ events'[i] = events[i + 1]
         /\ \A i \in DOMAIN events :
              i # 1 => i - 1 \in DOMAIN events' /\ events'[i - 1] = events[i]
         /\ \A k : Mentions(events, k) <=> Head(events).kind = k \/ Mentions(events', k)
         /\ \A k : Once(events, k) => Once(events', k)
         /\ \A k : Once(events, k) /\ Head(events).kind = k => ~Mentions(events', k)
<1>1. events \in Seq(EventT) /\ events # <<>> /\ events' = Tail(events)
  BY Reads DEF Types, Connection
<1> QED BY <1>1, RestOf, MentionsRest

\* A member of the first q that is sent, and of the second.
LEMMA SentThenDone ==
  ASSUME Types, NEW q \in Seq(EventT), NEW s \in Nat, Send(q \o <<Done(s)>>)
  PROVE  /\ Len(events) \in Nat /\ Len(q) \in Nat
         /\ DOMAIN events = 1..Len(events) /\ DOMAIN q = 1..Len(q)
         /\ \A i \in DOMAIN events : i \in DOMAIN events' /\ events'[i] = events[i]
         /\ \A j \in DOMAIN q :
              Len(events) + j \in DOMAIN events' /\ events'[Len(events) + j] = q[j]
         /\ LET last == Len(events) + Len(q) + 1
            IN  /\ last \in DOMAIN events' /\ events'[last] = Done(s)
                /\ \A i \in DOMAIN events' :
                     \/ i \in DOMAIN events /\ events'[i] = events[i]
                     \/ /\ i > Len(events) /\ i < last /\ i - Len(events) \in DOMAIN q
                        /\ events'[i] = q[i - Len(events)]
                     \/ i = last
<1> DEFINE d == <<Done(s)>>
           p == q \o d
<1>1. d \in Seq(EventT) /\ Len(d) = 1 /\ DOMAIN d = 1..1 /\ d[1] = Done(s)
  BY DoneOne, One
<1> HIDE DEF d
<1>2. /\ p \in Seq(EventT) /\ Len(q) \in Nat /\ DOMAIN q = 1..Len(q)
      /\ DOMAIN p = 1..(Len(q) + 1)
      /\ \A i \in DOMAIN q : i \in DOMAIN p /\ p[i] = q[i]
      /\ \A i \in DOMAIN p : \/ i \in DOMAIN q /\ p[i] = q[i]
                             \/ i > Len(q) /\ i - Len(q) \in DOMAIN d /\ p[i] = d[i - Len(q)]
      /\ Len(q) + 1 \in DOMAIN p /\ p[Len(q) + 1] = Done(s)
  BY <1>1, JoinOf
<1>3. Send(p)
  BY DEF d
<1> HIDE DEF p
<1> DEFINE last == Len(events) + Len(q) + 1
<1>4. /\ Len(events) \in Nat /\ DOMAIN events = 1..Len(events)
      /\ \A i \in DOMAIN events : i \in DOMAIN events' /\ events'[i] = events[i]
      /\ \A j \in DOMAIN p :
           Len(events) + j \in DOMAIN events' /\ events'[Len(events) + j] = p[j]
      /\ \A i \in DOMAIN events' :
           \/ i \in DOMAIN events /\ events'[i] = events[i]
           \/ /\ i > Len(events) /\ i - Len(events) \in DOMAIN p
              /\ events'[i] = p[i - Len(events)]
  BY <1>2, <1>3, Sent
<1>5. DOMAIN events' \subseteq Int
  BY <1>2, <1>3, SendType, LenProperties DEF Types, Connection
<1>6. last \in DOMAIN events' /\ events'[last] = Done(s)
  <2>1. last = Len(events) + (Len(q) + 1)
    BY <1>2, <1>4
  <2> QED BY <1>2, <1>4, <2>1
<1>7. ASSUME NEW j \in DOMAIN q
      PROVE  Len(events) + j \in DOMAIN events' /\ events'[Len(events) + j] = q[j]
  BY <1>2, <1>4
<1>8. ASSUME NEW i \in DOMAIN events'
      PROVE  \/ i \in DOMAIN events /\ events'[i] = events[i]
             \/ /\ i > Len(events) /\ i < last /\ i - Len(events) \in DOMAIN q
                /\ events'[i] = q[i - Len(events)]
             \/ i = last
  <2>1. CASE i \in DOMAIN events /\ events'[i] = events[i]
    BY <2>1
  <2>2. CASE /\ i > Len(events) /\ i - Len(events) \in DOMAIN p
             /\ events'[i] = p[i - Len(events)]
    <3>1. i \in Int /\ Len(events) \in Nat /\ Len(q) \in Nat
      BY <1>2, <1>4, <1>5
    <3>2. CASE i - Len(events) \in DOMAIN q
      <4>1. p[i - Len(events)] = q[i - Len(events)]
        BY <1>2, <3>2
      <4>2. i - Len(events) <= Len(q)
        BY <1>2, <3>2
      <4>3. i < last
        BY <3>1, <4>2
      <4> QED BY <2>2, <3>2, <4>1, <4>3
    <3>3. CASE i - Len(events) \notin DOMAIN q
      <4>1. i - Len(events) = Len(q) + 1
        BY <1>2, <1>4, <2>2, <3>1, <3>3
      <4>2. i = last
        BY <3>1, <4>1
      <4> QED BY <4>2
    <3> QED BY <3>2, <3>3
  <2> QED BY <1>4, <2>1, <2>2
<1> QED BY <1>2, <1>4, <1>6, <1>7, <1>8

\* What an event says that has just been sent.
News(e) ==
  /\ e.kind \in {"succeeded", "failed", "cancelled"} => verdict = "none" /\ verdict' = e.kind
  /\ e.kind = "global" => ServeRegistry /\ e.n = offered /\ offered # 0
  /\ e.kind = "error" => fault' # "none"
  /\ e.kind = "introduced in 5" => bound >= 5

LEMMA Arrives ==
  ASSUME Types, Compositor \/ Outside, NEW i \in DOMAIN events',
         ~(i \in DOMAIN events /\ events'[i] = events[i])
  PROVE  News(events'[i])
<1> DEFINE e == events'[i]
<1>0. NoHead \notin Heads /\ cserial \in Nat /\ events \in Seq(EventT) /\ offered \in Nat
  BY HeadsAssumption, BoundsAssumption DEF Types, TypeOK, Connection
<1>1. ASSUME NEW f \in EventT, News(f), Send(<<f>>)
      PROVE  News(e)
  <2> DEFINE q == <<f>>
  <2>1. q \in Seq(EventT) /\ \A j \in DOMAIN q : q[j] = f
    BY One
  <2>2. Send(q)
    BY <1>1
  <2> HIDE DEF q
  <2>3. e = f
    BY <2>1, <2>2, Sent
  <2> QED BY <1>1, <2>3
<1>2. ASSUME Send(<<>>) PROVE FALSE
  BY <1>0, <1>2, ConcatEmptySeq DEF Send
<1>3. ASSUME NEW s \in Nat
      PROVE  Done(s) \in EventT /\ News(Done(s))
  <2>1. Done(s) \in EventT /\ Done(s).kind = "done" /\ Done(s).head = NoHead
    BY DoneOne
  <2> QED BY <2>1 DEF News
<1>4. ASSUME NEW q \in Seq(EventT), \A j \in DOMAIN q : News(q[j]),
             NEW s \in Nat, Send(q \o <<Done(s)>>)
      PROVE  News(e)
  <2>1. \/ i = Len(events) + Len(q) + 1
        \/ i - Len(events) \in DOMAIN q /\ e = q[i - Len(events)]
    BY <1>4, SentThenDone
  <2>2. i = Len(events) + Len(q) + 1 => e = Done(s)
    BY <1>4, SentThenDone
  <2>3. CASE i = Len(events) + Len(q) + 1
    BY <1>3, <2>2, <2>3
  <2>4. CASE i - Len(events) \in DOMAIN q /\ e = q[i - Len(events)]
    BY <1>4, <2>4
  <2> QED BY <2>1, <2>3, <2>4
<1>5. ASSUME NEW q \in Seq(EventT), \A j \in DOMAIN q : News(q[j]), Send(q)
      PROVE  News(e)
  <2>1. i - Len(events) \in DOMAIN q /\ e = q[i - Len(events)]
    BY <1>5, Sent
  <2> QED BY <1>5, <2>1
<1>6. ASSUME NEW q \in Seq(EventT), \A j \in DOMAIN q : News(q[j]), Change(q)
      PROVE  News(e)
  <2>1. CASE bound = 0
    BY <1>6, <2>1, Changed
  <2>2. CASE bound # 0
    BY <1>0, <1>4, <1>6, <2>2, Changed
  <2> QED BY <2>1, <2>2
<1>7. \A k \in AboutNone : Event(k) \in EventT /\ Event(k).kind = k /\ Event(k).head = NoHead
  BY PlainEvent
<1>8. ASSUME NEW k \in AboutNone, Send(<<Event(k)>>),
             k \in {"succeeded", "failed", "cancelled"} => verdict = "none" /\ verdict' = k,
             k # "global", k = "error" => fault' # "none"
      PROVE  News(e)
  <2>1. Event(k) \in EventT /\ Event(k).kind = k /\ Event(k).head = NoHead
    BY <1>7
  <2>2. k # "introduced in 5"
    BY DEF AboutNone
  <2>3. News(Event(k))
    BY <1>0, <1>8, <2>1, <2>2 DEF News
  <2> QED BY <1>1, <1>8, <2>1, <2>3
<1>9. ASSUME NEW h \in Heads, Announces(Announce(h), h)
      PROVE  Announce(h) \in Seq(EventT) /\ \A j \in DOMAIN Announce(h) : News(Announce(h)[j])
  <2>1. \A j \in DOMAIN Announce(h) :
          Announce(h)[j].kind = "head" \/ Tells(Announce(h)[j], h)
    BY <1>9 DEF Announces
  <2>2. \A j \in DOMAIN Announce(h) : News(Announce(h)[j])
    BY <2>1 DEF Tells, News
  <2> QED BY <1>9, <2>2 DEF Announces
<1>10. CASE ServeRegistry
  <2>1. \/ offered = 0 /\ Send(<<>>)
        \/ offered # 0 /\ Send(<<Numbered("global", offered)>>)
    BY <1>10 DEF ServeRegistry
  <2>2. LET g == Numbered("global", offered)
        IN  g \in EventT /\ g.kind = "global" /\ g.head = NoHead /\ g.n = offered
    BY <1>0, PlainEvent DEF AboutNone
  <2>3. offered # 0 => News(Numbered("global", offered))
    BY <1>10, <2>2 DEF News
  <2> QED BY <1>1, <1>2, <2>1, <2>2, <2>3
<1>11. CASE ServeSync
  <2>1. "callback" \in AboutNone /\ Send(<<Event("callback")>>)
    BY <1>11 DEF ServeSync, AboutNone
  <2> QED BY <1>8, <2>1
<1>12. ASSUME NEW why, why # "none", Close(why) PROVE News(e)
  <2>1. "error" \in AboutNone /\ Send(<<Event("error")>>) /\ fault' # "none"
    BY <1>12 DEF Close, AboutNone
  <2> QED BY <1>8, <2>1
<1>13. CASE ServeBind
  <2>1. CASE Head(requests).n > offered
    BY <1>12, <1>13, <2>1 DEF ServeBind
  <2>2. CASE ~(Head(requests).n > offered)
    <3>1. Send(<<Done(cserial)>>) \/ Send(<<>>)
      BY <1>13, <2>2 DEF ServeBind
    <3> QED BY <1>0, <1>1, <1>2, <1>3, <3>1 DEF News
  <2> QED BY <2>1, <2>2
<1>14. CASE ServeApply
  <2>1. Close("protocol") \/ UNCHANGED events
    BY <1>14 DEF ServeApply
  <2> QED BY <1>12, <2>1
<1>15. CASE \E h \in Heads : AnnounceHead(h)
  <2>1. PICK h \in Heads : AnnounceHead(h)
    BY <1>15
  <2>2. Announces(Announce(h), h)
    BY <2>1, Announced
  <2>3. Announce(h) \in Seq(EventT) /\ \A j \in DOMAIN Announce(h) : News(Announce(h)[j])
    BY <1>9, <2>2 DEF News
  <2> QED BY <1>0, <1>4, <1>5, <2>1, <2>3, Announced
<1>16. CASE Cancel
  <2>1. "cancelled" \in AboutNone /\ Send(<<Event("cancelled")>>) /\ verdict = "none"
        /\ verdict' = "cancelled"
    BY <1>16 DEF Cancel, Answering, Reply, AboutNone
  <2> QED BY <1>8, <2>1
<1>17. CASE Omitted
  BY <1>12, <1>17 DEF Omitted
<1>18. CASE Fail
  <2>1. "failed" \in AboutNone /\ Send(<<Event("failed")>>) /\ verdict = "none"
        /\ verdict' = "failed"
    BY <1>18 DEF Fail, Applying, Answering, Reply, AboutNone
  <2> QED BY <1>8, <2>1
<1>19. CASE \E m \in Modes : Succeed(m)
  <2>1. PICK m \in Modes : Succeed(m)
    BY <1>19
  <2>2. "succeeded" \in AboutNone /\ verdict = "none" /\ verdict' = "succeeded"
    BY <2>1, Succeeded DEF AboutNone
  <2> DEFINE q == <<Event("succeeded")>>
  <2>3. q \in Seq(EventT) /\ \A j \in DOMAIN q : News(q[j])
    <3>1. LET f == Event("succeeded")
          IN  f \in EventT /\ f.kind = "succeeded" /\ f.head = NoHead
      BY <1>7, <2>2
    <3>2. News(Event("succeeded"))
      BY <1>0, <2>2, <3>1 DEF News
    <3> QED BY <3>1, <3>2, One
  <2>4. Send(q) \/ Send(q \o <<Done(cserial + 1)>>)
    BY <2>1, Succeeded
  <2> HIDE DEF q
  <2> QED BY <1>0, <1>4, <1>5, <2>3, <2>4
<1>20. CASE \E h \in Heads : Plug(h)
  <2>1. PICK h \in Heads : Plug(h)
    BY <1>20
  <2>2. Announces(Announce(h), h) /\ Change(Announce(h))
    BY <2>1, Plugged
  <2>3. Announce(h) \in Seq(EventT) /\ \A j \in DOMAIN Announce(h) : News(Announce(h)[j])
    BY <1>9, <2>2 DEF News
  <2> QED BY <1>6, <2>2, <2>3
<1>21. ASSUME NEW f \in EventT, f.kind \in {"head_finished", "current_mode"}, Change(<<f>>)
      PROVE  News(e)
  <2> DEFINE q == <<f>>
  <2>1. q \in Seq(EventT) /\ \A j \in DOMAIN q : News(q[j])
    BY <1>21, One DEF News
  <2>2. Change(q)
    BY <1>21
  <2> HIDE DEF q
  <2> QED BY <1>6, <2>1, <2>2
<1>22. CASE \E h \in Heads : Unplug(h)
  BY <1>21, <1>22, Unplugged
<1>23. CASE \E h \in Heads, m \in Modes : SwitchMode(h, m)
  BY <1>21, <1>23, Switched
<1>24. CASE \E h \in Heads : Toggle(h)
  <2>1. PICK h \in Heads : Toggle(h)
    BY <1>24
  <2>2. PICK q \in Seq(EventT) : Change(q) /\ TellsState(q, h, output'[h])
    BY <2>1, Toggled
  <2>3. \A j \in DOMAIN q : News(q[j])
    BY <2>2 DEF TellsState, News
  <2> QED BY <1>6, <2>2, <2>3
<1>25. CASE Die
  BY <1>12, <1>25 DEF Die
<1> QED
  BY <1>10, <1>11, <1>13, <1>14, <1>15, <1>16, <1>17, <1>18, <1>19, <1>20, <1>22, <1>23,
     <1>24, <1>25 DEF Compositor, Outside

\* A verdict is sent when it is reached.
Verdicts ==
  /\ config_result = 1 => verdict = "succeeded"
  /\ config_result = -1 => verdict \in {"failed", "cancelled"}
  /\ \A i \in DOMAIN events :
       events[i].kind \in {"succeeded", "failed", "cancelled"} => verdict = events[i].kind
  /\ pc = "start" => manager = 0
  /\ pc = "returned" => /\ result = 1 => config_result = 1
                        /\ result = -1 => config_result = -1 \/ manager = 0

LEMMA VerdictsInit == Init => Verdicts
  BY DEF Init, Verdicts

LEMMA VerdictsStep == Types /\ Verdicts /\ [Next]_vars => Verdicts'
<1> SUFFICES ASSUME Types, Verdicts, [Next]_vars PROVE Verdicts'
  OBVIOUS
<1>1. CASE configure_output_scale
  <2>1. /\ pc' # "start"
        /\ pc' = "returned" => /\ result' = 1 => config_result = 1
                               /\ result' = -1 => config_result = -1 \/ manager = 0
    <3> USE DEF Verdicts, Return, Roundtrip
    <3>1. CASE NothingAsked \/ ConnectFails \/ NoManager \/ NoHeads
      BY <3>1 DEF NothingAsked, ConnectFails, NoManager, NoHeads
    <3>2. CASE Finish
      BY <3>2 DEF Finish
    <3>3. CASE Connect \/ ReadHeads \/ SendConfiguration
      BY <3>3 DEF Connect, ReadHeads, SendConfiguration
    <3> QED BY <1>1, <3>1, <3>2, <3>3 DEF configure_output_scale
  <2> QED BY <1>1, <2>1, CallsLeave DEF Verdicts
<1>2. CASE Dispatch
  <2> DEFINE e == Head(events)
  <2>1. \A i \in DOMAIN events' :
          events'[i].kind \in {"succeeded", "failed", "cancelled"} => verdict = events'[i].kind
    BY <1>2, Read DEF Verdicts
  <2>2. e.kind \in {"succeeded", "failed", "cancelled"} => verdict = e.kind
    BY <1>2, Read DEF Verdicts
  <2>3. /\ config_result' = 1 => verdict = "succeeded"
        /\ config_result' = -1 => verdict \in {"failed", "cancelled"}
    <3>1. CASE e.kind = "succeeded"
      <4>1. cfg_ok
        BY <1>2, <3>1, ReadsWhat
      <4> QED BY <2>2, <3>1, <4>1 DEF cfg_ok, OnConfiguration
    <3>2. CASE e.kind = "failed"
      <4>1. cfg_fail
        BY <1>2, <3>2, ReadsWhat
      <4> QED BY <2>2, <3>2, <4>1 DEF cfg_fail, OnConfiguration
    <3>3. CASE e.kind = "cancelled"
      <4>1. cfg_cancel
        BY <1>2, <3>3, ReadsWhat
      <4> QED BY <2>2, <3>3, <4>1 DEF cfg_cancel, OnConfiguration
    <3>4. CASE e.kind \notin {"succeeded", "failed", "cancelled"}
      BY <1>2, <3>4, Reads DEF Verdicts
    <3> QED BY <3>1, <3>2, <3>3, <3>4
  <2>4. UNCHANGED verdict /\ pc' = pc /\ pc' \notin {"start", "returned"}
    BY <1>2, Reads DEF InRoundtrip
  <2> QED BY <2>1, <2>3, <2>4 DEF Verdicts
<1>3. CASE Compositor \/ Outside
  <2>1. ASSUME NEW i \in DOMAIN events',
               events'[i].kind \in {"succeeded", "failed", "cancelled"}
        PROVE  verdict' = events'[i].kind
    <3>1. CASE i \in DOMAIN events /\ events'[i] = events[i]
      <4>1. verdict = events'[i].kind
        BY <2>1, <3>1 DEF Verdicts
      <4> QED BY <1>3, <2>1, <4>1, Judges
    <3>2. CASE ~(i \in DOMAIN events /\ events'[i] = events[i])
      BY <1>3, <2>1, <3>2, Arrives DEF News
    <3> QED BY <3>1, <3>2
  <2>2. verdict' # verdict => verdict = "none"
    BY <1>3, Judges
  <2> QED BY <1>3, <2>1, <2>2, Serves DEF Verdicts
<1>4. CASE UNCHANGED vars
  BY <1>4 DEF Verdicts, vars, client, compositor
<1> QED BY <1>1, <1>2, <1>3, <1>4 DEF Next

-----------------------------------------------------------------------------
(* The manager is offered, bound and served once. *)

LEMMA Requested ==
  ASSUME Types, configure_output_scale
  PROVE  /\ pc' # "start"
         /\ \/ UNCHANGED requests
            \/ \E q \in Seq(RequestT) :
                 /\ requests' = requests \o q
                 /\ ~Mentions(q, "bind") /\ Once(q, "get_registry")
                 /\ Mentions(q, "get_registry") => pc = "start"
                 /\ \A i \in DOMAIN q :
                      q[i].kind = "apply" => SendConfiguration /\ q[i] = Configuration
<1> DEFINE Good(q) ==
             /\ q \in Seq(RequestT)
             /\ ~Mentions(q, "bind") /\ Once(q, "get_registry")
             /\ Mentions(q, "get_registry") => pc = "start"
             /\ \A i \in DOMAIN q :
                  q[i].kind = "apply" => SendConfiguration /\ q[i] = Configuration
<1>1. LET r == Request("sync") IN r \in RequestT /\ r.kind = "sync"
  BY RequestType
<1>2. ASSUME NEW next, NEW r \in RequestT, Roundtrip(next, <<r>>), next # "start",
             r.kind # "bind", r.kind = "get_registry" => pc = "start",
             r.kind = "apply" => SendConfiguration /\ r = Configuration
      PROVE  /\ pc' # "start"
             /\ UNCHANGED requests \/ \E q : Good(q) /\ requests' = requests \o q
  <2> DEFINE p == <<r>>
             s == <<Request("sync")>>
             q == p \o s
  <2>1. /\ p \in Seq(RequestT) /\ \A i \in DOMAIN p : p[i] = r
        /\ s \in Seq(RequestT) /\ \A i \in DOMAIN s : s[i] = Request("sync")
    BY <1>1, One
  <2>2. /\ Once(p, "get_registry") /\ Once(s, "get_registry")
        /\ ~Mentions(p, "bind") /\ ~Mentions(s, "bind") /\ ~Mentions(s, "get_registry")
        /\ Mentions(p, "get_registry") => pc = "start"
    BY <1>1, <1>2, MentionsOne
  <2> HIDE DEF p, s
  <2>3. q \in Seq(RequestT) /\ \A i \in DOMAIN q : q[i] = r \/ q[i] = Request("sync")
    BY <2>1, JoinOf
  <2>4. ~Mentions(q, "bind") /\ (Mentions(q, "get_registry") => pc = "start")
    BY <2>1, <2>2, MentionsMore
  <2>5. Once(q, "get_registry")
    BY <2>1, <2>2, OnceMore
  <2>6. pc' # "start" /\ (UNCHANGED requests \/ requests' = requests \o q)
    BY <1>2 DEF Roundtrip, Post, p, s
  <2> HIDE DEF q
  <2>7. Good(q)
    BY <1>1, <1>2, <2>3, <2>4, <2>5
  <2> QED BY <2>6, <2>7
<1>3. ASSUME NEW next, Roundtrip(next, <<>>), next # "start"
      PROVE  /\ pc' # "start"
             /\ UNCHANGED requests \/ \E q : Good(q) /\ requests' = requests \o q
  <2> DEFINE s == <<Request("sync")>>
  <2>1. s \in Seq(RequestT) /\ \A i \in DOMAIN s : s[i] = Request("sync")
    BY <1>1, One
  <2>2. Once(s, "get_registry") /\ ~Mentions(s, "bind") /\ ~Mentions(s, "get_registry")
    BY <1>1, MentionsOne
  <2>3. <<>> \o s = s
    BY <2>1, ConcatEmptySeq
  <2>4. pc' # "start" /\ (UNCHANGED requests \/ requests' = requests \o s)
    BY <1>3, <2>3 DEF Roundtrip, Post
  <2> HIDE DEF s
  <2>5. Good(s)
    BY <1>1, <2>1, <2>2
  <2> QED BY <2>4, <2>5
<1>4. CASE NothingAsked \/ ConnectFails \/ NoManager \/ NoHeads
  BY <1>4 DEF NothingAsked, ConnectFails, NoManager, NoHeads, Return
<1>5. CASE Finish
  BY <1>5 DEF Finish, Return
<1>6. CASE Connect
  <2>1. LET r == Request("get_registry") IN r \in RequestT /\ r.kind = "get_registry"
    BY RequestType
  <2>2. pc = "start" /\ Roundtrip("registry", <<Request("get_registry")>>)
    BY <1>6 DEF Connect
  <2> QED BY <1>2, <2>1, <2>2
<1>7. CASE ReadHeads
  <2>1. Roundtrip("heads", <<>>)
    BY <1>7 DEF ReadHeads
  <2> QED BY <1>3, <2>1
<1>8. CASE SendConfiguration
  <2>1. Configuration \in RequestT /\ Configuration.kind = "apply"
    BY ConfigurationIs
  <2>2. Roundtrip("apply", <<Configuration>>)
    BY <1>8 DEF SendConfiguration
  <2> QED BY <1>2, <1>8, <2>1, <2>2
<1> QED BY <1>4, <1>5, <1>6, <1>7, <1>8 DEF configure_output_scale

LEMMA StaysBound ==
  ASSUME Types, Compositor \/ Outside, ~Binds
  PROVE  UNCHANGED bound
<1>1. ASSUME NEW h \in Heads, Toggle(h)
      PROVE  UNCHANGED bound
  BY <1>1 DEF Toggle, Change
<1>2. ASSUME NEW h \in Heads, NEW m \in Modes, SwitchMode(h, m)
      PROVE  UNCHANGED bound
  BY <1>2 DEF SwitchMode, Change
<1>3. ASSUME NEW h \in Heads, AnnounceHead(h) \/ Plug(h) \/ Unplug(h)
      PROVE  UNCHANGED bound
  BY <1>3 DEF AnnounceHead, Plug, Unplug, Change
<1> QED BY <1>1, <1>2, <1>3, Kinds, Spoken, Succeeded

\* There is one request for the registry, one offer and one bind at most, each
\* after the other, and what is bound is of a version that both sides have.
Tokens ==
  /\ Once(requests, "get_registry") /\ Once(requests, "bind") /\ Once(events, "global")
  /\ pc = "start" => /\ ~Mentions(requests, "get_registry") /\ ~Mentions(events, "global")
                     /\ manager = 0
  /\ Mentions(requests, "get_registry") => ~Mentions(events, "global") /\ manager = 0
  /\ Mentions(events, "global") => manager = 0
  /\ manager = 0 => bound = 0 /\ ~Mentions(requests, "bind")
  /\ bound # 0 => bound = manager /\ ~Mentions(requests, "bind")
  /\ manager <= offered /\ manager <= 4
  /\ \A i \in DOMAIN requests : requests[i].kind = "bind" => requests[i].n = manager
  /\ \A i \in DOMAIN events :
       events[i].kind = "global" => events[i].n = offered /\ offered # 0

LEMMA TokensInit == Init => Tokens
  BY BoundsAssumption DEF Init, Tokens, Once, Mentions

LEMMA TokensCall ==
  ASSUME Types, Tokens, configure_output_scale
  PROVE  Tokens'
<1>1. UNCHANGED <<manager, events, bound, offered>> /\ pc' # "start"
  BY CallsLeave, Requested
<1>2. CASE UNCHANGED requests
  BY <1>1, <1>2 DEF Tokens
<1>3. CASE ~UNCHANGED requests
  <2>1. PICK q \in Seq(RequestT) :
          /\ requests' = requests \o q
          /\ ~Mentions(q, "bind") /\ Once(q, "get_registry")
          /\ Mentions(q, "get_registry") => pc = "start"
    BY <1>3, Requested
  <2>2. requests \in Seq(RequestT)
    BY DEF Types, Connection
  <2>3. /\ Mentions(requests', "bind") <=> Mentions(requests, "bind")
        /\ Mentions(requests', "get_registry") =>
             Mentions(requests, "get_registry") \/ pc = "start"
    BY <2>1, <2>2, MentionsMore
  <2>4. Once(q, "bind")
    BY <2>1 DEF Once, Mentions
  <2>5. Once(requests', "bind")
    BY <2>1, <2>2, <2>4, OnceMore DEF Tokens
  <2>6. Once(requests', "get_registry")
    BY <2>1, <2>2, OnceMore DEF Tokens
  <2>7. \A i \in DOMAIN requests' :
          requests'[i].kind = "bind" => i \in DOMAIN requests /\ requests'[i] = requests[i]
    BY <2>1, <2>2, JoinOf DEF Mentions
  <2> QED BY <1>1, <2>3, <2>5, <2>6, <2>7 DEF Tokens
<1> QED BY <1>2, <1>3

LEMMA TokensRead ==
  ASSUME Types, Tokens, Dispatch
  PROVE  Tokens'
<1> DEFINE e == Head(events)
<1>1. /\ UNCHANGED <<bound, offered>> /\ pc' = pc /\ pc # "start"
      /\ e \in EventT /\ e.n \in Nat /\ offered \in Nat
      /\ Once(events', "global")
      /\ Mentions(events', "global") => Mentions(events, "global")
      /\ \A i \in DOMAIN events' :
           events'[i].kind = "global" => events'[i].n = offered /\ offered # 0
  <2>1. UNCHANGED <<bound, offered>> /\ pc' = pc /\ pc # "start"
    BY Reads DEF InRoundtrip
  <2>2. e \in EventT /\ e.n \in Nat
    BY Read DEF EventT
  <2>3. offered \in Nat
    BY BoundsAssumption DEF Types, TypeOK
  <2>4. Once(events, "global")
    BY DEF Tokens
  <2>5. Once(events', "global") /\ (Mentions(events', "global") => Mentions(events, "global"))
    BY <2>4, Read
  <2>6. ASSUME NEW i \in DOMAIN events', events'[i].kind = "global"
        PROVE  events'[i].n = offered' /\ offered # 0
    <3>1. i + 1 \in DOMAIN events /\ events'[i] = events[i + 1]
      BY Read
    <3> QED BY <2>1, <2>6, <3>1 DEF Tokens
  <2> QED BY <2>1, <2>2, <2>3, <2>5, <2>6
<1>2. CASE e.kind = "global"
  <2>1. /\ e.n = offered /\ offered # 0
        /\ Mentions(events, "global") /\ ~Mentions(events', "global")
    BY <1>2, Read DEF Tokens
  <2>2. manager = 0 /\ bound = 0 /\ ~Mentions(requests, "bind")
        /\ ~Mentions(requests, "get_registry")
    BY <2>1 DEF Tokens
  <2> DEFINE v == Version(e.n)
             r == [Request("bind") EXCEPT !.n = v]
             q == <<r>>
  <2>3. reg_global
    BY <1>2, ReadsWhat
  <2>4. manager' = v /\ requests' = requests \o q
    BY <2>3 DEF reg_global, Post, Dispatching
  <2>5. v \in Nat /\ v # 0 /\ v <= offered /\ v <= 4
    BY <1>1, <2>1 DEF Version
  <2> HIDE DEF v
  <2>6. r \in RequestT /\ r.kind = "bind" /\ r.n = v
    BY <2>5, BindType
  <2> HIDE DEF r
  <2>7. /\ q \in Seq(RequestT) /\ \A i \in DOMAIN q : q[i] = r
        /\ ~Mentions(q, "get_registry") /\ Once(q, "get_registry") /\ Once(q, "bind")
    BY <2>6, One, MentionsOne
  <2> HIDE DEF q
  <2>8. requests \in Seq(RequestT)
    BY DEF Types, Connection
  <2>9. /\ ~Mentions(requests', "get_registry")
        /\ Once(requests', "get_registry") /\ Once(requests', "bind")
    BY <2>2, <2>4, <2>7, <2>8, MentionsMore, OnceMore DEF Tokens
  <2>10. ASSUME NEW i \in DOMAIN requests', requests'[i].kind = "bind"
         PROVE  requests'[i].n = v
    <3>1. \/ i \in DOMAIN requests /\ requests'[i] = requests[i]
          \/ i - Len(requests) \in DOMAIN q /\ requests'[i] = q[i - Len(requests)]
      BY <2>4, <2>7, <2>8, JoinOf
    <3> QED BY <2>2, <2>6, <2>7, <2>10, <3>1 DEF Mentions
  <2> QED BY <1>1, <2>1, <2>2, <2>4, <2>5, <2>9, <2>10 DEF Tokens
<1>3. CASE e.kind # "global"
  <2>1. UNCHANGED <<manager, requests>>
    BY <1>3, Reads
  <2> QED BY <1>1, <2>1 DEF Tokens
<1> QED BY <1>2, <1>3

LEMMA TokensServe ==
  ASSUME Types, Tokens, Compositor \/ Outside
  PROVE  Tokens'
<1>1. UNCHANGED <<pc, manager, offered>>
  BY Serves
<1>2. /\ Once(requests', "get_registry") /\ Once(requests', "bind")
      /\ Mentions(requests', "get_registry") => Mentions(requests, "get_registry")
      /\ Mentions(requests', "bind") => Mentions(requests, "bind")
      /\ \A i \in DOMAIN requests' : requests'[i].kind = "bind" => requests'[i].n = manager
  <2>1. requests \in Seq(RequestT)
    BY DEF Types, Connection
  <2>2. CASE UNCHANGED requests
    BY <2>2 DEF Tokens
  <2>3. CASE requests # <<>> /\ requests' = Tail(requests)
    BY <2>1, <2>3, MentionsRest, RestOf DEF Tokens
  <2> QED BY <2>2, <2>3, Takes
<1>3. /\ \A i \in DOMAIN events' :
           events'[i].kind = "global" => events'[i].n = offered /\ offered # 0
      /\ Once(events', "global")
      /\ Mentions(events', "global") =>
           Mentions(events, "global") \/ (ServeRegistry /\ Mentions(requests, "get_registry")
                                          /\ ~Mentions(requests', "get_registry"))
  <2>1. ASSUME NEW i \in DOMAIN events', events'[i].kind = "global"
        PROVE  events'[i].n = offered /\ offered # 0
    BY <2>1, Arrives DEF Tokens, News
  <2>2. CASE ServeRegistry
    <3>1. requests # <<>> /\ Head(requests).kind = "get_registry" /\ requests' = Tail(requests)
      BY <2>2 DEF ServeRegistry, Serving
    <3>2. Mentions(requests, "get_registry") /\ ~Mentions(requests', "get_registry")
      BY <3>1, MentionsRest DEF Types, Connection, Tokens
    <3>3. ~Mentions(events, "global")
      BY <3>2 DEF Tokens
    <3>4. Once(events', "global")
      <4> DEFINE q == IF offered = 0 THEN <<>> ELSE <<Numbered("global", offered)>>
      <4>1. Send(q)
        BY <2>2 DEF ServeRegistry
      <4>2. q \in Seq(EventT) /\ Once(q, "global")
        <5>1. Numbered("global", offered) \in EventT
          BY PlainEvent, BoundsAssumption DEF AboutNone, Types, TypeOK
        <5>2. <<>> \in Seq(EventT) /\ Once(<<>>, "global")
          BY DEF Once
        <5> QED BY <5>1, <5>2, One, MentionsOne
      <4> HIDE DEF q
      <4> QED BY <3>3, <4>1, <4>2, Sent DEF Tokens
    <3> QED BY <2>1, <2>2, <3>2, <3>4
  <2>3. CASE ~ServeRegistry
    <3>1. ASSUME NEW i \in DOMAIN events', events'[i].kind = "global"
          PROVE  i \in DOMAIN events /\ events'[i] = events[i]
      BY <2>3, <3>1, Arrives DEF News
    <3>2. Once(events', "global") /\ (Mentions(events', "global") => Mentions(events, "global"))
      BY <3>1 DEF Tokens, Once, Mentions
    <3> QED BY <2>1, <3>2
  <2> QED BY <2>2, <2>3
<1>4. /\ manager = 0 => bound' = 0
      /\ bound' # 0 => bound' = manager /\ ~Mentions(requests', "bind")
  <2>1. CASE Binds
    <3>1. /\ requests # <<>> /\ Head(requests).kind = "bind" /\ bound' = Head(requests).n
          /\ requests' = Tail(requests)
      BY <2>1, Bound DEF Binds, ServeBind, Serving
    <3>2. requests \in Seq(RequestT)
      BY DEF Types, Connection
    <3>3. Mentions(requests, "bind") /\ ~Mentions(requests', "bind")
      BY <3>1, <3>2, MentionsRest DEF Tokens
    <3>4. Head(requests).n = manager
      BY <3>1, <3>2, RestOf DEF Tokens
    <3> QED BY <3>1, <3>3, <3>4 DEF Tokens
  <2>2. CASE ~Binds
    BY <1>2, <2>2, StaysBound DEF Tokens
  <2> QED BY <2>1, <2>2
<1> QED BY <1>1, <1>2, <1>3, <1>4 DEF Tokens

LEMMA TokensStep == Types /\ Tokens /\ [Next]_vars => Tokens'
<1> SUFFICES ASSUME Types, Tokens, [Next]_vars PROVE Tokens'
  OBVIOUS
<1>1. CASE UNCHANGED vars
  BY <1>1 DEF Tokens, vars, client, compositor
<1> QED BY <1>1, TokensCall, TokensRead, TokensServe DEF Next

-----------------------------------------------------------------------------
(* What the function returns. *)

LEMMA VerdictInvariance == Spec => [](Types /\ Verdicts)
<1>1. Init => Types /\ Verdicts
  BY TypesInit, VerdictsInit
<1>2. Types /\ Verdicts /\ [Next]_vars => Types' /\ Verdicts'
  BY TypesStep, VerdictsStep
<1> QED BY <1>1, <1>2, PTL DEF Spec

\* The variables of the model keep their types: S never has more heads or modes than its
\* arrays (glue.c: MAX_HEADS, MAX_MODES) have room for.
THEOREM ScaleTypeCorrect == Spec => []TypeOK
<1>1. Types /\ Verdicts => TypeOK
  BY DEF Types
<1> QED BY <1>1, VerdictInvariance, PTL

\* configure_output_scale returns 1, or -1 once it is connected, only if that is what
\* the compositor has answered: a verdict outlives the events around it, and nothing
\* else is stored in S.config_result.
THEOREM ResultIsTrue == Spec => []ResultIsVerdict
<1>1. Types /\ Verdicts => ResultIsVerdict
  BY DEF Verdicts, ResultIsVerdict
<1> QED BY <1>1, VerdictInvariance, PTL
=============================================================================
