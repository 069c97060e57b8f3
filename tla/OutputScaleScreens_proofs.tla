---------------------- MODULE OutputScaleScreens_proofs ----------------------
(***************************************************************************)
(* What configure_output_scale knows of the screens when it sends a        *)
(* configuration: for any heads, modes, versions and bounds, and for any   *)
(* order of the compositor's events.                                       *)
(*                                                                         *)
(* A "done" that is pending is newer than S.serial, and every event about  *)
(* a head is followed by one.  So where S.serial is the serial that the    *)
(* compositor has, no such event is pending, and the entries of S are what *)
(* the screens are: the configuration is accurate when it is sent, and for *)
(* as long as the compositor does not move its serial.                     *)
(***************************************************************************)
EXTENDS OutputScale_proofs

-----------------------------------------------------------------------------
(* The invariant. *)

\* An event of the kind k about the head h.
About(q, k, h) == \E i \in DOMAIN q : q[i].kind = k /\ q[i].head = h

\* Before it has bound the manager, the client is told of no head and asks for
\* nothing to be applied.
Fresh ==
  bound = 0 =>
    /\ serial = 0 /\ heads = <<>> /\ announced = {} /\ unannounced = {}
    /\ conf = NoConf /\ ~Mentions(requests, "apply")
    /\ \A i \in DOMAIN events : events[i].kind \notin AboutHead \union {"done"}

Overflow == Cardinality(announced) > MAX_HEADS

\* Every head is announced once, before all else about it, and then has an entry.
Named ==
  /\ bound # 0 => plugged \subseteq announced \union unannounced
  /\ announced \intersect unannounced = {}

Listed ==
  /\ \A i \in DOMAIN heads :
       heads[i].head \in announced /\ ~About(events, "head", heads[i].head)
  /\ \A i, j \in DOMAIN heads : heads[i].head = heads[j].head => i = j
  /\ ~Overflow =>
       \A h \in announced :
         About(events, "head", h) \/ \E i \in DOMAIN heads : heads[i].head = h

Ordered ==
  /\ \A i \in DOMAIN events :
       events[i].kind \in AboutHead => events[i].head \in announced
  /\ \A i, j \in DOMAIN events :
       events[j].kind = "head" /\ events[i].head = events[j].head => j <= i

Counted == Named /\ Listed /\ Ordered

\* The last event of a kind about a head is right.
Superseded(i) ==
  \E j \in DOMAIN events :
    j > i /\ events[j].kind = events[i].kind /\ events[j].head = events[i].head

LastIsRight ==
  \A i \in DOMAIN events :
    /\ events[i].kind = "enabled" =>
         events[i].n = output[events[i].head].enabled \/ Superseded(i)
    /\ events[i].kind = "current_mode" =>
         /\ events[i].mode = output[events[i].head].mode \/ Superseded(i)
         /\ output[events[i].head].mode # NoMode

Shows(o) == o.enabled = 1 /\ o.mode # NoMode

\* A head that is announced is described.
Described ==
  \A i \in DOMAIN events : events[i].kind = "head" =>
    /\ About(events, "enabled", events[i].head)
    /\ Shows(output[events[i].head]) => About(events, "current_mode", events[i].head)

\* An entry is right, or will be corrected.
Copied ==
  \A i \in DOMAIN heads :
    LET hi == heads[i]
        o  == output[hi.head]
    IN  /\ hi.enabled = o.enabled \/ About(events, "enabled", hi.head)
        /\ Shows(o) => hi.current_mode = o.mode \/ About(events, "current_mode", hi.head)
        /\ o.mode = NoMode => hi.current_mode = NoMode

\* Once the configuration has succeeded, the client may read whatever it wants.
Seen == verdict = "none" => LastIsRight /\ Described /\ Copied

\* The client knows of no configuration that the compositor has not had, and of
\* none at all while it is told of the heads for the first time.
Serials ==
  /\ serial <= cserial /\ cserial >= 1
  /\ unannounced # {} =>
       /\ serial = 0 /\ ~Mentions(events, "done")
       /\ conf = NoConf /\ ~Mentions(requests, "apply")

\* Whatever it is told of a head, a newer serial follows.
Dones ==
  /\ \A i \in DOMAIN events :
       events[i].kind = "done" => serial < events[i].n /\ events[i].n <= cserial
  /\ \A i, j \in DOMAIN events :
       i < j /\ events[i].kind = "done" /\ events[j].kind = "done" => events[i].n < events[j].n
  /\ unannounced # {} \/ \A i \in DOMAIN events : events[i].kind \in AboutHead =>
       \E j \in DOMAIN events : j > i /\ events[j].kind = "done"

-----------------------------------------------------------------------------
(* What the compositor says. *)

Sends(q) == Send(q) \/ \E s \in Nat : Send(q \o <<Done(s)>>)

LEMMA Grows ==
  ASSUME Types, NEW q \in Seq(EventT), Sends(q)
  PROVE  /\ Len(events) \in Nat /\ DOMAIN events = 1..Len(events) /\ DOMAIN q = 1..Len(q)
         /\ \A i \in DOMAIN events : i \in DOMAIN events' /\ events'[i] = events[i]
         /\ \A j \in DOMAIN q :
              Len(events) + j \in DOMAIN events' /\ events'[Len(events) + j] = q[j]
         /\ \A i \in DOMAIN events' :
              \/ i \in DOMAIN events /\ events'[i] = events[i]
              \/ /\ i > Len(events) /\ i - Len(events) \in DOMAIN q
                 /\ events'[i] = q[i - Len(events)]
              \/ i > Len(events) /\ events'[i].kind = "done" /\ events'[i].head = NoHead
<1>1. CASE Send(q)
  BY <1>1, Sent
<1>2. ASSUME NEW s \in Nat, Send(q \o <<Done(s)>>)
      PROVE  /\ Len(events) \in Nat /\ DOMAIN events = 1..Len(events) /\ DOMAIN q = 1..Len(q)
             /\ \A i \in DOMAIN events : i \in DOMAIN events' /\ events'[i] = events[i]
             /\ \A j \in DOMAIN q :
                  Len(events) + j \in DOMAIN events' /\ events'[Len(events) + j] = q[j]
             /\ \A i \in DOMAIN events' :
                  \/ i \in DOMAIN events /\ events'[i] = events[i]
                  \/ /\ i > Len(events) /\ i - Len(events) \in DOMAIN q
                     /\ events'[i] = q[i - Len(events)]
                  \/ i > Len(events) /\ events'[i].kind = "done" /\ events'[i].head = NoHead
  <2> DEFINE last == Len(events) + Len(q) + 1
  <2>1. /\ Len(events) \in Nat /\ Len(q) \in Nat
        /\ DOMAIN events = 1..Len(events) /\ DOMAIN q = 1..Len(q)
        /\ \A i \in DOMAIN events : i \in DOMAIN events' /\ events'[i] = events[i]
        /\ \A j \in DOMAIN q :
             Len(events) + j \in DOMAIN events' /\ events'[Len(events) + j] = q[j]
        /\ last \in DOMAIN events' /\ events'[last] = Done(s)
        /\ \A i \in DOMAIN events' :
             \/ i \in DOMAIN events /\ events'[i] = events[i]
             \/ /\ i > Len(events) /\ i < last /\ i - Len(events) \in DOMAIN q
                /\ events'[i] = q[i - Len(events)]
             \/ i = last
    BY <1>2, SentThenDone
  <2>2. events'[last].kind = "done" /\ events'[last].head = NoHead
    BY <2>1, DoneOne
  <2>3. last > Len(events)
    BY <2>1
  <2> HIDE DEF last
  <2> QED BY <2>1, <2>2, <2>3
<1> QED BY <1>1, <1>2 DEF Sends

\* An event that is pending is one of the protocol, about a head or not.
LEMMA Here ==
  ASSUME Types, NEW i \in DOMAIN events
  PROVE  /\ events[i] \in EventT
         /\ events[i].head \in Heads <=> events[i].kind \in AboutHead
<1>1. events \in Seq(EventT)
  BY DEF Types, Connection
<1>2. events[i] \in EventT
  BY <1>1, ElementOfSeq
<1> QED BY <1>2 DEF EventT

\* What is pending stays so, and what is sent is.
LEMMA AboutGrows ==
  ASSUME Types, NEW q \in Seq(EventT), Sends(q), NEW k, NEW h
  PROVE  /\ About(events, k, h) => About(events', k, h)
         /\ About(q, k, h) => About(events', k, h)
         /\ About(events', k, h) /\ k # "done" => About(events, k, h) \/ About(q, k, h)
<1>1. ASSUME NEW i \in DOMAIN events, events[i].kind = k, events[i].head = h
      PROVE  About(events', k, h)
  <2>1. i \in DOMAIN events' /\ events'[i] = events[i]
    BY Grows
  <2> QED BY <1>1, <2>1 DEF About
<1>2. ASSUME NEW j \in DOMAIN q, q[j].kind = k, q[j].head = h
      PROVE  About(events', k, h)
  <2>1. Len(events) + j \in DOMAIN events' /\ events'[Len(events) + j] = q[j]
    BY Grows
  <2> QED BY <1>2, <2>1 DEF About
<1>3. ASSUME NEW i \in DOMAIN events', events'[i].kind = k, events'[i].head = h, k # "done"
      PROVE  About(events, k, h) \/ About(q, k, h)
  <2>1. \/ i \in DOMAIN events /\ events'[i] = events[i]
        \/ i - Len(events) \in DOMAIN q /\ events'[i] = q[i - Len(events)]
    BY <1>3, Grows
  <2> QED BY <1>3, <2>1 DEF About
<1> QED BY <1>1, <1>2, <1>3 DEF About

\* What is sent is right, and all that is needed after what changes.
Told(q) ==
  /\ \A j \in DOMAIN q :
       LET o == output'[q[j].head]
       IN  /\ q[j].kind = "enabled" => q[j].n = o.enabled
           /\ q[j].kind = "current_mode" => q[j].mode = o.mode
           /\ q[j].kind = "head" =>
                /\ About(q, "enabled", q[j].head)
                /\ Shows(o) => About(q, "current_mode", q[j].head)
  /\ \A h \in Heads :
       \/ output'[h] = output[h]
       \/ /\ h \in plugged
          /\ output'[h].enabled = output[h].enabled \/ About(q, "enabled", h)
          /\ output'[h].mode = output[h].mode \/ About(q, "current_mode", h)
          /\ Shows(output'[h]) => Shows(output[h]) \/ About(q, "current_mode", h)
          /\ output'[h].mode = NoMode <=> output[h].mode = NoMode

LEMMA LastSent ==
  ASSUME Types, LastIsRight, NEW q \in Seq(EventT), Sends(q), Told(q)
  PROVE  LastIsRight'
<1> SUFFICES ASSUME NEW i \in DOMAIN events'
             PROVE  /\ events'[i].kind = "enabled" =>
                         events'[i].n = output'[events'[i].head].enabled \/ Superseded(i)'
                    /\ events'[i].kind = "current_mode" =>
                         /\ events'[i].mode = output'[events'[i].head].mode \/ Superseded(i)'
                         /\ output'[events'[i].head].mode # NoMode
  BY DEF LastIsRight
<1> DEFINE e == events'[i]
           h == e.head
<1>1. CASE i \in DOMAIN events /\ events'[i] = events[i] /\ e.kind \in {"enabled", "current_mode"}
  <2>1. e \in EventT /\ h \in Heads
    BY <1>1, Here DEF AboutHead
  <2>2. Superseded(i) => Superseded(i)'
    <3>1. ASSUME NEW j \in DOMAIN events, j > i, events[j].kind = e.kind, events[j].head = h
          PROVE  Superseded(i)'
      <4>1. j \in DOMAIN events' /\ events'[j] = events[j]
        BY Grows
      <4> QED BY <3>1, <4>1 DEF Superseded
    <3> QED BY <1>1, <3>1 DEF Superseded
  <2>3. About(q, e.kind, h) => Superseded(i)'
    <3>1. ASSUME NEW j \in DOMAIN q, q[j].kind = e.kind, q[j].head = h
          PROVE  Superseded(i)'
      <4>1. Len(events) + j \in DOMAIN events' /\ events'[Len(events) + j] = q[j]
        BY Grows
      <4>2. Len(events) + j > i
        <5>1. i \in 1..Len(events) /\ j \in 1..Len(q) /\ Len(events) \in Nat
          BY <1>1, Grows
        <5> QED BY <5>1
      <4> QED BY <3>1, <4>1, <4>2 DEF Superseded
    <3> QED BY <3>1 DEF About
  <2>4. /\ e.kind = "enabled" => e.n = output[h].enabled \/ Superseded(i)
        /\ e.kind = "current_mode" =>
             (e.mode = output[h].mode \/ Superseded(i)) /\ output[h].mode # NoMode
    BY <1>1 DEF LastIsRight
  <2>5. \/ output'[h] = output[h]
        \/ /\ output'[h].enabled = output[h].enabled \/ About(q, "enabled", h)
           /\ output'[h].mode = output[h].mode \/ About(q, "current_mode", h)
           /\ output'[h].mode = NoMode <=> output[h].mode = NoMode
    BY <2>1 DEF Told
  <2> QED BY <2>2, <2>3, <2>4, <2>5
<1>2. CASE i - Len(events) \in DOMAIN q /\ events'[i] = q[i - Len(events)]
  <2>1. e \in EventT
    BY <1>2, ElementOfSeq
  <2>2. /\ e.kind = "enabled" => e.n = output'[h].enabled
        /\ e.kind = "current_mode" => e.mode = output'[h].mode
    BY <1>2 DEF Told
  <2>3. e.kind = "current_mode" => e.mode # NoMode
    BY <2>1, HeadsAssumption DEF EventT, ModeOf, AboutHead
  <2> QED BY <2>2, <2>3
<1>3. CASE e.kind = "done"
  BY <1>3
<1> QED BY <1>1, <1>2, <1>3, Grows

LEMMA DescribedSent ==
  ASSUME Types, Described, Ordered, NEW q \in Seq(EventT), Sends(q), Told(q)
  PROVE  Described'
<1> SUFFICES ASSUME NEW i \in DOMAIN events', events'[i].kind = "head"
             PROVE  /\ About(events', "enabled", events'[i].head)
                    /\ Shows(output'[events'[i].head]) =>
                         About(events', "current_mode", events'[i].head)
  BY DEF Described
<1> DEFINE h == events'[i].head
<1>1. CASE i \in DOMAIN events /\ events'[i] = events[i]
  <2>1. h \in Heads
    BY <1>1, Here DEF AboutHead
  <2>2. About(events, "enabled", h) /\ (Shows(output[h]) => About(events, "current_mode", h))
    BY <1>1 DEF Described
  <2>3. Shows(output'[h]) => Shows(output[h]) \/ About(q, "current_mode", h)
    BY <2>1 DEF Told
  <2> QED BY <2>2, <2>3, AboutGrows
<1>2. CASE i - Len(events) \in DOMAIN q /\ events'[i] = q[i - Len(events)]
  <2>1. /\ About(q, "enabled", h)
        /\ Shows(output'[h]) => About(q, "current_mode", h)
    BY <1>2 DEF Told
  <2> QED BY <2>1, AboutGrows
<1> QED BY <1>1, <1>2, Grows

LEMMA CopiedSent ==
  ASSUME Types, Copied, NEW q \in Seq(EventT), Sends(q), Told(q), UNCHANGED heads
  PROVE  Copied'
<1> SUFFICES ASSUME NEW i \in DOMAIN heads
             PROVE  LET hi == heads[i]
                        o  == output'[hi.head]
                    IN  /\ hi.enabled = o.enabled \/ About(events', "enabled", hi.head)
                        /\ Shows(o) => \/ hi.current_mode = o.mode
                                       \/ About(events', "current_mode", hi.head)
                        /\ o.mode = NoMode => hi.current_mode = NoMode
  BY DEF Copied
<1> DEFINE hi == heads[i]
           h  == hi.head
<1>1. h \in Heads
  BY ElementOfSeq DEF Types, Connection, Entry, HeadInfo
<1>2. /\ hi.enabled = output[h].enabled \/ About(events, "enabled", h)
      /\ Shows(output[h]) =>
           hi.current_mode = output[h].mode \/ About(events, "current_mode", h)
      /\ output[h].mode = NoMode => hi.current_mode = NoMode
  BY DEF Copied
<1>3. \/ output'[h] = output[h]
      \/ /\ output'[h].enabled = output[h].enabled \/ About(q, "enabled", h)
         /\ output'[h].mode = output[h].mode \/ About(q, "current_mode", h)
         /\ Shows(output'[h]) => Shows(output[h]) \/ About(q, "current_mode", h)
         /\ output'[h].mode = NoMode <=> output[h].mode = NoMode
  BY <1>1 DEF Told
<1>4. /\ hi.enabled = output'[h].enabled \/ About(events', "enabled", h)
  BY <1>2, <1>3, AboutGrows
<1>5. Shows(output'[h]) =>
        hi.current_mode = output'[h].mode \/ About(events', "current_mode", h)
  BY <1>2, <1>3, AboutGrows
<1>6. output'[h].mode = NoMode => hi.current_mode = NoMode
  BY <1>2, <1>3
<1> QED BY <1>4, <1>5, <1>6

\* What is said of a new head comes after the event that names it.
Introduces(q) ==
  /\ announced \subseteq announced'
  /\ \A j \in DOMAIN q : q[j].kind \in AboutHead => q[j].head \in announced'
  /\ \A j \in DOMAIN q : q[j].kind = "head" =>
       /\ q[j].head \notin announced
       /\ \A i \in DOMAIN q : q[i].head = q[j].head => j <= i
  /\ \A h \in announced' \ announced : About(q, "head", h)

LEMMA PlainTells ==
  ASSUME NEW q, Plain(q), UNCHANGED <<output, announced>>
  PROVE  Told(q) /\ Introduces(q)
<1>1. \A j \in DOMAIN q : q[j].kind \notin AboutHead
  BY DEF Plain, AboutNone, AboutHead
<1>2. Told(q)
  BY <1>1 DEF Told, AboutHead
<1>3. Introduces(q)
  BY <1>1 DEF Introduces, AboutHead
<1> QED BY <1>2, <1>3

LEMMA AnnouncementTells ==
  ASSUME NEW h \in Heads, NEW q, Announces(q, h), Mentions(q, "enabled"),
         Shows(output[h]) => Mentions(q, "current_mode"),
         output' = output, h \notin announced, announced' = announced \union {h}
  PROVE  Told(q) /\ Introduces(q)
<1>1. /\ 1 \in DOMAIN q /\ q[1].kind = "head" /\ q[1].head = h
      /\ \A j \in DOMAIN q : j # 1 => Tells(q[j], h)
      /\ q \in Seq(EventT)
  BY DEF Announces
<1>2. \A j \in DOMAIN q : q[j].head = h /\ j >= 1 /\ (q[j].kind = "head" => j = 1)
  <2>1. \A j \in DOMAIN q : j >= 1
    BY <1>1, LenProperties
  <2> QED BY <1>1, <2>1 DEF Tells
<1>3. About(q, "enabled", h) /\ (Shows(output[h]) => About(q, "current_mode", h))
  BY <1>2 DEF About, Mentions
<1>4. ASSUME NEW j \in DOMAIN q
      PROVE  LET o == output'[q[j].head]
             IN  /\ q[j].kind = "enabled" => q[j].n = o.enabled
                 /\ q[j].kind = "current_mode" => q[j].mode = o.mode
                 /\ q[j].kind = "head" =>
                      /\ About(q, "enabled", q[j].head)
                      /\ Shows(o) => About(q, "current_mode", q[j].head)
  <2>1. CASE j = 1
    BY <1>1, <1>3, <2>1
  <2>2. CASE j # 1
    BY <1>1, <1>2, <2>2 DEF Tells
  <2> QED BY <2>1, <2>2
<1>5. Told(q)
  BY <1>4 DEF Told
<1>6. About(q, "head", h)
  BY <1>1 DEF About
<1>7. Introduces(q)
  BY <1>2, <1>6 DEF Introduces
<1> QED BY <1>5, <1>7

LEMMA StateTells ==
  ASSUME Types, NEW h \in Heads, h \in plugged, h \in announced,
         NEW q \in Seq(EventT),
         \A i \in DOMAIN q : /\ q[i].head = h
                             /\ q[i].kind \in {"enabled", "current_mode", "head_finished"}
                             /\ q[i].kind = "enabled" => q[i].n = output'[h].enabled
                             /\ q[i].kind = "current_mode" => q[i].mode = output'[h].mode,
         output'[h].enabled = output[h].enabled \/ Mentions(q, "enabled"),
         output'[h].mode = output[h].mode \/ Mentions(q, "current_mode"),
         Shows(output'[h]) => Shows(output[h]) \/ Mentions(q, "current_mode"),
         output'[h].mode = NoMode <=> output[h].mode = NoMode,
         \A g \in Heads \ {h} : output'[g] = output[g],
         UNCHANGED announced
  PROVE  Told(q) /\ Introduces(q)
<1>1. \A k : Mentions(q, k) => About(q, k, h)
  BY DEF Mentions, About
<1>2. \A j \in DOMAIN q :
        LET o == output'[q[j].head]
        IN  /\ q[j].kind = "enabled" => q[j].n = o.enabled
            /\ q[j].kind = "current_mode" => q[j].mode = o.mode
            /\ q[j].kind # "head"
  OBVIOUS
<1>3. Told(q)
  BY <1>1, <1>2 DEF Told
<1>4. Introduces(q)
  BY <1>2 DEF Introduces
<1> QED BY <1>3, <1>4

\* Once the client has bound, every change of a screen is told.
LEMMA Reports ==
  ASSUME Types, Named, bound # 0, Compositor \/ Outside, ~Binds
  PROVE  /\ \E q \in Seq(EventT) :
              Sends(q) /\ Introduces(q) /\ (verdict' = "none" => Told(q))
         /\ Named'
<1>0. UNCHANGED bound
  BY StaysBound
<1>1. /\ plugged \subseteq announced \union unannounced
      /\ announced \intersect unannounced = {}
  BY DEF Named
<1> DEFINE Done1(q) == Sends(q) /\ Introduces(q) /\ (verdict' = "none" => Told(q))
<1>2. CASE Speaks
  <2>1. PICK q : Plain(q) /\ Send(q)
    BY <1>2, Spoken
  <2>2. UNCHANGED <<plugged, output, unannounced, announced>>
    BY <1>2, Spoken
  <2>3. q \in Seq(EventT) /\ Sends(q)
    BY <2>1 DEF Plain, Sends
  <2>4. Told(q) /\ Introduces(q)
    BY <2>1, <2>2, PlainTells
  <2> QED BY <1>0, <1>1, <2>2, <2>3, <2>4 DEF Named
<1>3. ASSUME NEW h \in Heads, AnnounceHead(h)
      PROVE  (\E q \in Seq(EventT) : Done1(q)) /\ Named'
  <2>1. /\ h \in unannounced /\ unannounced' = unannounced \ {h}
        /\ announced' = announced \union {h}
        /\ Announces(Announce(h), h) /\ Mentions(Announce(h), "enabled")
        /\ Shows(output[h]) => Mentions(Announce(h), "current_mode")
        /\ UNCHANGED <<plugged, output>>
    BY <1>3, Announced DEF Shows
  <2>2. Sends(Announce(h))
    <3>1. cserial \in Nat
      BY DEF Types, TypeOK
    <3> QED BY <1>3, <3>1, Announced DEF Sends
  <2>3. h \notin announced
    BY <1>1, <2>1
  <2>4. Told(Announce(h)) /\ Introduces(Announce(h))
    BY <2>1, <2>3, AnnouncementTells
  <2>5. Announce(h) \in Seq(EventT)
    BY <2>1 DEF Announces
  <2>6. Named'
    BY <1>0, <1>1, <2>1 DEF Named
  <2> QED BY <2>2, <2>4, <2>5, <2>6
<1>4. ASSUME NEW es \in Seq(EventT), Change(es)
      PROVE  Sends(es) /\ unannounced = {} /\ unannounced' = {}
  <2>1. cserial + 1 \in Nat
    BY DEF Types, TypeOK
  <2> QED BY <1>4, <2>1, Changed DEF Sends
<1>5. ASSUME NEW h \in Heads, Plug(h)
      PROVE  (\E q \in Seq(EventT) : Done1(q)) /\ Named'
  <2>1. /\ Change(Announce(h)) /\ h \notin announced
        /\ plugged' = plugged \union {h} /\ announced' = announced \union {h}
        /\ output' = output
        /\ Announce(h) \in Seq(EventT) /\ Announces(Announce(h), h)
        /\ Mentions(Announce(h), "enabled")
        /\ Shows(output[h]) => Mentions(Announce(h), "current_mode")
    BY <1>5, Plugged DEF Shows
  <2>2. Told(Announce(h)) /\ Introduces(Announce(h))
    BY <2>1, AnnouncementTells
  <2>3. Sends(Announce(h)) /\ unannounced = {} /\ unannounced' = {}
    BY <1>4, <2>1
  <2>4. Named'
    BY <1>0, <1>1, <2>1, <2>3 DEF Named
  <2> QED BY <2>1, <2>2, <2>3, <2>4
<1>6. ASSUME NEW h \in Heads, Unplug(h)
      PROVE  (\E q \in Seq(EventT) : Done1(q)) /\ Named'
  <2>1. PICK e \in EventT : e.kind = "head_finished" /\ e.head = h /\ Change(<<e>>)
    BY <1>6, Unplugged
  <2>2. h \in plugged /\ plugged' = plugged \ {h} /\ UNCHANGED <<output, announced>>
    BY <1>6, Unplugged
  <2> DEFINE q == <<e>>
  <2>3. q \in Seq(EventT) /\ \A i \in DOMAIN q : q[i] = e
    BY One
  <2>4. Change(q)
    BY <2>1
  <2> HIDE DEF q
  <2>5. Sends(q) /\ unannounced = {} /\ unannounced' = {}
    BY <1>4, <2>3, <2>4
  <2>6. Told(q) /\ Introduces(q)
    BY <1>1, <2>1, <2>2, <2>3, <2>5, StateTells
  <2>7. Named'
    BY <1>0, <1>1, <2>2, <2>5 DEF Named
  <2> QED BY <2>3, <2>5, <2>6, <2>7
<1>7. ASSUME NEW h \in Heads, Toggle(h)
      PROVE  (\E q \in Seq(EventT) : Done1(q)) /\ Named'
  <2>1. PICK q \in Seq(EventT) : Change(q) /\ TellsState(q, h, output'[h])
    BY <1>7, Toggled
  <2>2. /\ h \in plugged /\ output'[h].mode = output[h].mode
        /\ \A g \in Heads \ {h} : output'[g] = output[g]
        /\ UNCHANGED <<plugged, announced>>
    BY <1>7, Toggled
  <2>3. Sends(q) /\ unannounced = {} /\ unannounced' = {}
    BY <1>4, <2>1
  <2>4. /\ \A i \in DOMAIN q : /\ q[i].head = h
                               /\ q[i].kind \in {"enabled", "current_mode", "head_finished"}
                               /\ q[i].kind = "enabled" => q[i].n = output'[h].enabled
                               /\ q[i].kind = "current_mode" => q[i].mode = output'[h].mode
        /\ Mentions(q, "enabled")
        /\ Shows(output'[h]) => Mentions(q, "current_mode")
    BY <2>1 DEF TellsState, Shows
  <2>5. Told(q) /\ Introduces(q)
    BY <1>1, <2>2, <2>3, <2>4, StateTells
  <2>6. Named'
    BY <1>0, <1>1, <2>2, <2>3 DEF Named
  <2> QED BY <2>3, <2>5, <2>6
<1>8. ASSUME NEW h \in Heads, NEW m \in Modes, SwitchMode(h, m)
      PROVE  (\E q \in Seq(EventT) : Done1(q)) /\ Named'
  <2>1. PICK e \in EventT :
           /\ Change(<<e>>) /\ h \in plugged
           /\ e.kind = "current_mode" /\ e.head = h /\ e.mode = output'[h].mode
           /\ output'[h].enabled = output[h].enabled
           /\ output'[h].mode \in ModeOf(h)
           /\ output' \in [Heads -> Output]
           /\ \A g \in Heads \ {h} : output'[g] = output[g]
           /\ UNCHANGED <<plugged, announced>>
    BY <1>8, Switched
  <2>2. output[h].mode # NoMode /\ output'[h].mode # NoMode
    BY <1>8, <2>1, HeadsAssumption DEF SwitchMode, ModeOf
  <2> DEFINE q == <<e>>
  <2>3. q \in Seq(EventT) /\ 1 \in DOMAIN q /\ \A i \in DOMAIN q : q[i] = e
    BY One
  <2>4. Change(q)
    BY <2>1
  <2> HIDE DEF q
  <2>5. Sends(q) /\ unannounced = {} /\ unannounced' = {}
    BY <1>4, <2>3, <2>4
  <2>6. Mentions(q, "current_mode")
    BY <2>1, <2>3 DEF Mentions
  <2>7. \A i \in DOMAIN q : /\ q[i].head = h
                            /\ q[i].kind \in {"enabled", "current_mode", "head_finished"}
                            /\ q[i].kind = "enabled" => q[i].n = output'[h].enabled
                            /\ q[i].kind = "current_mode" => q[i].mode = output'[h].mode
    BY <2>1, <2>3
  <2>8. h \in plugged /\ h \in announced /\ UNCHANGED <<announced, plugged>>
        /\ output'[h].enabled = output[h].enabled
        /\ \A g \in Heads \ {h} : output'[g] = output[g]
    BY <1>1, <2>1, <2>5
  <2>9. Told(q) /\ Introduces(q)
    BY <2>2, <2>3, <2>6, <2>7, <2>8, StateTells
  <2>10. Named'
    BY <1>0, <1>1, <2>5, <2>8 DEF Named
  <2> QED BY <2>3, <2>5, <2>9, <2>10
<1>9. ASSUME NEW m \in Modes, Succeed(m)
      PROVE  (\E q \in Seq(EventT) : Done1(q)) /\ Named'
  <2>1. /\ verdict' = "succeeded"
        /\ \/ Send(<<Event("succeeded")>>)
           \/ Send(<<Event("succeeded")>> \o <<Done(cserial + 1)>>)
        /\ UNCHANGED <<plugged, unannounced, announced>>
    BY <1>9, Succeeded
  <2> DEFINE q == <<Event("succeeded")>>
  <2>2. Plain(q)
    BY PlainOne DEF AboutNone
  <2>3. cserial + 1 \in Nat
    BY DEF Types, TypeOK
  <2>4. Sends(q)
    BY <2>1, <2>3 DEF Sends
  <2> HIDE DEF q
  <2>5. q \in Seq(EventT) /\ \A j \in DOMAIN q : q[j].kind \notin AboutHead
    BY <2>2 DEF Plain, AboutNone, AboutHead
  <2>6. Introduces(q)
    BY <2>1, <2>5 DEF Introduces, AboutHead
  <2>7. Named'
    BY <1>0, <1>1, <2>1 DEF Named
  <2> QED BY <2>1, <2>4, <2>5, <2>6, <2>7
<1> QED BY <1>2, <1>3, <1>5, <1>6, <1>7, <1>8, <1>9, Kinds

-----------------------------------------------------------------------------
(* The events about the heads, and S.heads. *)

LEMMA IndexOfSent ==
  ASSUME Types, NEW q \in Seq(EventT), Sends(q)
  PROVE  DOMAIN events' \subseteq Int
<1>1. events \in Seq(EventT)
  BY DEF Types, Connection
<1>2. CASE Send(q)
  <2>1. events' \in Seq(EventT)
    BY <1>1, <1>2, SendType
  <2> QED BY <2>1, LenProperties
<1>3. ASSUME NEW s \in Nat, Send(q \o <<Done(s)>>)
      PROVE  DOMAIN events' \subseteq Int
  <2>1. <<Done(s)>> \in Seq(EventT)
    BY DoneOne
  <2>2. q \o <<Done(s)>> \in Seq(EventT)
    BY <2>1, JoinOf
  <2>3. events' \in Seq(EventT)
    BY <1>1, <1>3, <2>2, SendType
  <2> QED BY <2>3, LenProperties
<1> QED BY <1>2, <1>3 DEF Sends

LEMMA CountedSent ==
  ASSUME Types, IsFiniteSet(announced'), Listed, Ordered, UNCHANGED heads,
         NEW q \in Seq(EventT), Sends(q), Introduces(q)
  PROVE  Listed' /\ Ordered'
<1>1. /\ announced \subseteq announced'
      /\ \A h \in announced' \ announced : About(q, "head", h)
  BY DEF Introduces
<1>2. ASSUME NEW i \in DOMAIN events', events'[i].kind \in AboutHead
      PROVE  events'[i].head \in announced' /\ events'[i].head # NoHead
  <2>1. CASE i \in DOMAIN events /\ events'[i] = events[i]
    <3>1. events[i].head \in announced
      BY <1>2, <2>1 DEF Ordered
    <3>2. announced \subseteq Heads
      BY DEF Types, TypeOK
    <3> QED BY <1>1, <2>1, <3>1, <3>2, HeadsAssumption
  <2>2. CASE i - Len(events) \in DOMAIN q /\ events'[i] = q[i - Len(events)]
    <3>1. events'[i] \in EventT
      BY <2>2, ElementOfSeq
    <3>2. events'[i].head # NoHead
      BY <1>2, <3>1, HeadsAssumption DEF EventT
    <3> QED BY <1>2, <2>2, <3>2 DEF Introduces
  <2>3. CASE events'[i].kind = "done"
    BY <1>2, <2>3 DEF AboutHead
  <2> QED BY <2>1, <2>2, <2>3, Grows
<1>3. ASSUME NEW i \in DOMAIN events', NEW j \in DOMAIN events',
             events'[j].kind = "head", events'[i].head = events'[j].head
      PROVE  j <= i
  <2>1. events'[j].head # NoHead
    BY <1>2, <1>3 DEF AboutHead
  <2>2. Len(events) \in Nat /\ DOMAIN events = 1..Len(events)
    BY Grows
  <2>3. CASE j \in DOMAIN events /\ events'[j] = events[j]
    <3>1. CASE i \in DOMAIN events /\ events'[i] = events[i]
      BY <1>3, <2>3, <3>1 DEF Ordered
    <3>2. CASE i > Len(events)
      <4>1. i \in Int
        BY IndexOfSent
      <4> QED BY <2>2, <2>3, <3>2, <4>1
    <3> QED BY <3>1, <3>2, Grows
  <2>4. CASE j - Len(events) \in DOMAIN q /\ events'[j] = q[j - Len(events)]
    <3>1. /\ q[j - Len(events)].head \notin announced
          /\ \A x \in DOMAIN q : q[x].head = q[j - Len(events)].head => j - Len(events) <= x
      BY <1>3, <2>4 DEF Introduces
    <3>2. CASE i \in DOMAIN events /\ events'[i] = events[i]
      <4>1. events'[i].head \in Heads
        <5>1. q[j - Len(events)] \in EventT
          BY <2>4, ElementOfSeq
        <5> QED BY <1>3, <2>4, <5>1 DEF EventT, AboutHead
      <4>2. events[i].kind \in AboutHead
        BY <3>2, <4>1, Here
      <4>3. events[i].head \in announced
        BY <3>2, <4>2 DEF Ordered
      <4> QED BY <1>3, <2>4, <3>1, <3>2, <4>3
    <3>3. CASE i - Len(events) \in DOMAIN q /\ events'[i] = q[i - Len(events)]
      <4>1. j - Len(events) <= i - Len(events)
        BY <1>3, <2>4, <3>1, <3>3
      <4>2. i \in Int /\ j \in Int
        BY IndexOfSent
      <4> QED BY <2>2, <4>1, <4>2
    <3>4. CASE events'[i].head = NoHead
      BY <1>3, <2>1, <3>4
    <3> QED BY <3>2, <3>3, <3>4, Grows
  <2>5. CASE events'[j].kind = "done"
    BY <1>3, <2>5
  <2> QED BY <2>3, <2>4, <2>5, Grows
<1>4. Ordered'
  BY <1>2, <1>3 DEF Ordered
<1>5. ASSUME NEW i \in DOMAIN heads
      PROVE  heads[i].head \in announced' /\ ~About(events', "head", heads[i].head)
  <2>1. heads[i].head \in announced /\ ~About(events, "head", heads[i].head)
    BY DEF Listed
  <2>2. ~About(q, "head", heads[i].head)
    BY <2>1 DEF Introduces, About
  <2> QED BY <1>1, <2>1, <2>2, AboutGrows
<1>6. Overflow => Overflow'
  <2>1. Cardinality(announced) <= Cardinality(announced')
    BY <1>1, FS_Subset
  <2>2. IsFiniteSet(announced)
    BY <1>1, FS_Subset
  <2>3. Cardinality(announced) \in Nat /\ Cardinality(announced') \in Nat
    BY <2>2, FS_CardinalityType
  <2> QED BY <2>1, <2>3, BoundsAssumption DEF Overflow
<1>7. ASSUME ~Overflow', NEW h \in announced'
      PROVE  About(events', "head", h) \/ \E i \in DOMAIN heads : heads[i].head = h
  <2>1. CASE h \in announced
    <3>1. About(events, "head", h) \/ \E i \in DOMAIN heads : heads[i].head = h
      BY <1>6, <1>7, <2>1 DEF Listed
    <3> QED BY <3>1, AboutGrows
  <2>2. CASE h \notin announced
    BY <1>1, <1>7, <2>2, AboutGrows
  <2> QED BY <2>1, <2>2
<1>8. Listed'
  <2>1. \A i, j \in DOMAIN heads : heads[i].head = heads[j].head => i = j
    BY DEF Listed
  <2> QED BY <1>5, <1>7, <2>1 DEF Listed
<1> QED BY <1>4, <1>8

\* What the reading of one event makes of the table.
LEMMA TableRead ==
  ASSUME Types, Dispatch
  PROVE  /\ \A i \in DOMAIN heads :
              /\ i \in DOMAIN heads' /\ heads'[i].head = heads[i].head
              /\ heads'[i].enabled =
                   IF heads[i].head = Head(events).head /\ Head(events).kind = "enabled"
                   THEN Head(events).n ELSE heads[i].enabled
              /\ heads'[i].current_mode =
                   IF heads[i].head = Head(events).head /\ Head(events).kind = "current_mode"
                   THEN Head(events).mode ELSE heads[i].current_mode
         /\ \A i \in DOMAIN heads' \ DOMAIN heads :
              /\ Head(events).kind = "head" /\ i = Len(heads) + 1
              /\ heads'[i] = NewEntry(Head(events).head)
         /\ Head(events).kind = "head" =>
              \/ Len(heads) >= MAX_HEADS
              \/ \E i \in DOMAIN heads' : heads'[i].head = Head(events).head
<1> DEFINE e == Head(events)
<1>1. heads \in Seq(Entry) /\ Len(heads) \in Nat /\ DOMAIN heads = 1..Len(heads)
  BY LenProperties DEF Types, Connection
<1>2. CASE e.kind \in {"mode", "enabled", "current_mode"}
  BY <1>2, EntriesRead
<1>3. CASE e.kind = "head"
  <2>1. heads' = IF Len(heads) >= MAX_HEADS THEN heads ELSE Append(heads, NewEntry(e.head))
    BY <1>3, ReadsWhat DEF mgr_head, NewEntry
  <2>2. CASE Len(heads) >= MAX_HEADS
    <3>1. heads' = heads
      BY <2>1, <2>2
    <3> QED BY <1>3, <2>2, <3>1
  <2>3. CASE ~(Len(heads) >= MAX_HEADS)
    <3>1. heads' = Append(heads, NewEntry(e.head))
      BY <2>1, <2>3
    <3>2. e.head \in Heads
      <4>1. e \in EventT
        BY Read
      <4> QED BY <1>3, <4>1 DEF EventT, AboutHead
    <3>3. NewEntry(e.head) \in Entry /\ NewEntry(e.head).head = e.head
      BY <3>2, BoundsAssumption DEF NewEntry, Entry, HeadInfo
    <3>4. /\ heads' \in Seq(Entry) /\ Len(heads') = Len(heads) + 1
          /\ \A i \in 1..Len(heads) : heads'[i] = heads[i]
          /\ heads'[Len(heads) + 1] = NewEntry(e.head)
      BY <1>1, <3>1, <3>3, AppendProperties
    <3>5. DOMAIN heads' = 1..(Len(heads) + 1)
      BY <3>4, LenProperties
    <3>6. \A i \in DOMAIN heads : i \in DOMAIN heads' /\ heads'[i] = heads[i]
      BY <1>1, <3>4, <3>5
    <3>7. \A i \in DOMAIN heads' \ DOMAIN heads : i = Len(heads) + 1
      BY <1>1, <3>5
    <3>8. Len(heads) + 1 \in DOMAIN heads'
      BY <1>1, <3>5
    <3> QED BY <1>3, <3>3, <3>4, <3>6, <3>7, <3>8
  <2> QED BY <2>2, <2>3
<1>4. CASE e.kind \notin {"head", "mode", "enabled", "current_mode"}
  <2>1. heads' = heads
    BY <1>4, Reads
  <2> QED BY <1>4, <2>1
<1> QED BY <1>2, <1>3, <1>4

LEMMA AboutRead ==
  ASSUME Types, Dispatch, NEW k, NEW h
  PROVE  /\ About(events', k, h) => About(events, k, h)
         /\ About(events, k, h) =>
              About(events', k, h) \/ (Head(events).kind = k /\ Head(events).head = h)
<1>1. ASSUME NEW i \in DOMAIN events', events'[i].kind = k, events'[i].head = h
      PROVE  About(events, k, h)
  <2>1. i + 1 \in DOMAIN events /\ events'[i] = events[i + 1]
    BY Read
  <2> QED BY <1>1, <2>1 DEF About
<1>2. ASSUME NEW i \in DOMAIN events, events[i].kind = k, events[i].head = h, i # 1
      PROVE  About(events', k, h)
  <2>1. i - 1 \in DOMAIN events' /\ events'[i - 1] = events[i]
    BY <1>2, Read
  <2> QED BY <1>2, <2>1 DEF About
<1>3. Head(events) = events[1]
  BY Read
<1> QED BY <1>1, <1>2, <1>3 DEF About

\* A head that has no entry in a full table is one too many.
LEMMA FullIsOverflow ==
  ASSUME Types, Listed, NEW h \in announced, \A i \in DOMAIN heads : heads[i].head # h,
         Len(heads) >= MAX_HEADS
  PROVE  Overflow
<1> DEFINE n == Len(heads)
           T == announced \ {h}
           f == [i \in 1..n |-> heads[i].head]
<1>1. n \in Nat /\ DOMAIN heads = 1..n /\ MAX_HEADS \in Nat
  BY LenProperties, BoundsAssumption DEF Types, Connection
<1>2. /\ \A i \in DOMAIN heads : heads[i].head \in announced
      /\ \A i, j \in DOMAIN heads : heads[i].head = heads[j].head => i = j
  BY DEF Listed
<1>3. f \in [1..n -> T]
  BY <1>1, <1>2
<1>4. IsFiniteSet(announced)
  BY DEF Types, Connection
<1>5. /\ IsFiniteSet(T) /\ Cardinality(T) \in Nat /\ Cardinality(announced) \in Nat
      /\ Cardinality(T) = Cardinality(announced) - 1
  BY <1>4, FS_RemoveElement, FS_CardinalityType
<1>6. IsFiniteSet(1..n) /\ Cardinality(1..n) = n
  <2>1. n \in Int /\ 1 \in Int /\ n >= 0
    BY <1>1
  <2> HIDE DEF n
  <2>2. IsFiniteSet(1..n) /\ Cardinality(1..n) = IF 1 > n THEN 0 ELSE n - 1 + 1
    BY <2>1, FS_Interval
  <2>3. (IF 1 > n THEN 0 ELSE n - 1 + 1) = n
    BY <2>1
  <2> QED BY <2>2, <2>3
<1>7. ~ \E x, y \in 1..n : x # y /\ f[x] = f[y]
  BY <1>1, <1>2
<1> HIDE DEF f, T, n
<1>8. ~(Cardinality(T) < Cardinality(1..n))
  BY <1>3, <1>5, <1>6, <1>7, FS_PigeonHole
<1> QED BY <1>1, <1>5, <1>6, <1>8 DEF Overflow, n

LEMMA OrderedRead ==
  ASSUME Types, Ordered, Dispatch
  PROVE  /\ Ordered'
         /\ Head(events).kind = "head" =>
              ~About(events', "head", Head(events).head) /\ Head(events).head \in announced
         /\ Head(events).kind \in AboutHead =>
              ~About(events', "head", Head(events).head)
<1>1. announced' = announced
  BY Reads
<1>2. ASSUME NEW i \in DOMAIN events', events'[i].kind \in AboutHead
      PROVE  events'[i].head \in announced
  BY <1>2, Read DEF Ordered
<1>3. ASSUME NEW i \in DOMAIN events', NEW j \in DOMAIN events',
             events'[j].kind = "head", events'[i].head = events'[j].head
      PROVE  j <= i
  <2>1. j + 1 <= i + 1
    BY <1>3, Read DEF Ordered
  <2>2. i \in Int /\ j \in Int
    BY Read
  <2> QED BY <2>1, <2>2
<1>4. Ordered'
  BY <1>1, <1>2, <1>3 DEF Ordered
<1>5. ASSUME NEW j \in DOMAIN events', events'[j].kind = "head",
             events'[j].head = Head(events).head
      PROVE  FALSE
  <2>1. /\ j + 1 \in DOMAIN events /\ events[j + 1].kind = "head"
        /\ events[1].head = events[j + 1].head /\ 1 \in DOMAIN events
    BY <1>5, Read
  <2>2. j + 1 <= 1
    BY <2>1 DEF Ordered
  <2>3. j \in Int /\ j >= 1
    <3>1. events \in Seq(EventT) /\ events # <<>> /\ events' = Tail(events)
      BY Reads DEF Types, Connection
    <3>2. events' \in Seq(EventT)
      BY <3>1, RestOf
    <3> QED BY <3>2, LenProperties
  <2> QED BY <2>2, <2>3
<1>6. Head(events).kind = "head" => Head(events).head \in announced
  BY Read DEF Ordered, AboutHead
<1> QED BY <1>4, <1>5, <1>6 DEF About

LEMMA ListedRead ==
  ASSUME Types, Listed, Ordered, Dispatch
  PROVE  Listed'
<1> DEFINE e == Head(events)
           h == e.head
<1>1. announced' = announced
  BY Reads
<1>2. /\ \A i \in DOMAIN heads :
           heads[i].head \in announced /\ ~About(events, "head", heads[i].head)
      /\ \A i, j \in DOMAIN heads : heads[i].head = heads[j].head => i = j
  BY DEF Listed
<1>3. e.kind = "head" => \A i \in DOMAIN heads : heads[i].head # h
  BY <1>2, Read DEF About
<1>4. ASSUME NEW i \in DOMAIN heads'
      PROVE  heads'[i].head \in announced /\ ~About(events', "head", heads'[i].head)
  <2>1. CASE i \in DOMAIN heads
    <3>1. heads'[i].head = heads[i].head
      BY <2>1, TableRead
    <3> QED BY <1>2, <2>1, <3>1, AboutRead
  <2>2. CASE i \notin DOMAIN heads
    <3>1. e.kind = "head" /\ heads'[i] = NewEntry(h)
      BY <2>2, TableRead
    <3> QED BY <3>1, OrderedRead DEF NewEntry
  <2> QED BY <2>1, <2>2
<1>5. ASSUME NEW i \in DOMAIN heads', NEW j \in DOMAIN heads',
             heads'[i].head = heads'[j].head
      PROVE  i = j
  <2>1. CASE i \in DOMAIN heads /\ j \in DOMAIN heads
    BY <1>2, <1>5, <2>1, TableRead
  <2>2. CASE i \notin DOMAIN heads /\ j \notin DOMAIN heads
    BY <2>2, TableRead
  <2>3. ASSUME NEW x \in DOMAIN heads, NEW y \in DOMAIN heads' \ DOMAIN heads,
               heads'[x].head = heads'[y].head
        PROVE  FALSE
    <3>1. heads'[x].head = heads[x].head
      BY TableRead
    <3>2. e.kind = "head" /\ heads'[y] = NewEntry(h)
      BY TableRead
    <3>3. NewEntry(h).head = h
      BY DEF NewEntry
    <3>4. heads[x].head = h /\ x \in DOMAIN heads
      BY <2>3, <3>1, <3>2, <3>3
    <3> QED BY <1>3, <3>2, <3>4
  <2> QED BY <1>5, <2>1, <2>2, <2>3
<1>6. ASSUME ~Overflow', NEW g \in announced
      PROVE  About(events', "head", g) \/ \E i \in DOMAIN heads' : heads'[i].head = g
  <2>0. ~Overflow
    BY <1>1, <1>6 DEF Overflow
  <2>1. CASE \E i \in DOMAIN heads : heads[i].head = g
    BY <2>1, TableRead
  <2>2. CASE About(events, "head", g) /\ ~About(events', "head", g)
    <3>1. e.kind = "head" /\ h = g
      BY <2>2, AboutRead
    <3>2. ~(Len(heads) >= MAX_HEADS)
      BY <1>3, <1>6, <2>0, <3>1, FullIsOverflow
    <3> QED BY <3>1, <3>2, TableRead
  <2>3. About(events, "head", g) \/ \E i \in DOMAIN heads : heads[i].head = g
    BY <1>6, <2>0 DEF Listed
  <2> QED BY <2>1, <2>2, <2>3
<1> QED BY <1>1, <1>4, <1>5, <1>6 DEF Listed

LEMMA LastRead ==
  ASSUME Types, LastIsRight, Dispatch
  PROVE  LastIsRight'
<1> SUFFICES ASSUME NEW i \in DOMAIN events'
             PROVE  /\ events'[i].kind = "enabled" =>
                         events'[i].n = output[events'[i].head].enabled \/ Superseded(i)'
                    /\ events'[i].kind = "current_mode" =>
                         /\ events'[i].mode = output[events'[i].head].mode \/ Superseded(i)'
                         /\ output[events'[i].head].mode # NoMode
  BY Reads DEF LastIsRight
<1>1. i + 1 \in DOMAIN events /\ events'[i] = events[i + 1] /\ i \in Int
  BY Read
<1>2. Superseded(i + 1) => Superseded(i)'
  <2>1. ASSUME NEW j \in DOMAIN events, j > i + 1, events[j].kind = events[i + 1].kind,
               events[j].head = events[i + 1].head
        PROVE  Superseded(i)'
    <3>1. j \in Int /\ i >= 1
      <4>1. events \in Seq(EventT) /\ events # <<>> /\ events' = Tail(events)
        BY Reads DEF Types, Connection
      <4>2. events' \in Seq(EventT)
        BY <4>1, RestOf
      <4> QED BY <4>1, <4>2, LenProperties
    <3>2. j # 1 /\ j - 1 > i
      BY <1>1, <2>1, <3>1
    <3>3. j - 1 \in DOMAIN events' /\ events'[j - 1] = events[j]
      BY <3>2, Read
    <3> QED BY <1>1, <2>1, <3>2, <3>3 DEF Superseded
  <2> QED BY <2>1 DEF Superseded
<1>3. /\ events[i + 1].kind = "enabled" =>
           events[i + 1].n = output[events[i + 1].head].enabled \/ Superseded(i + 1)
      /\ events[i + 1].kind = "current_mode" =>
           /\ events[i + 1].mode = output[events[i + 1].head].mode \/ Superseded(i + 1)
           /\ output[events[i + 1].head].mode # NoMode
  BY <1>1 DEF LastIsRight
<1> QED BY <1>1, <1>2, <1>3

LEMMA DescribedRead ==
  ASSUME Types, Described, Ordered, Dispatch
  PROVE  Described'
<1> DEFINE e == Head(events)
<1> SUFFICES ASSUME NEW i \in DOMAIN events', events'[i].kind = "head"
             PROVE  /\ About(events', "enabled", events'[i].head)
                    /\ Shows(output[events'[i].head]) =>
                         About(events', "current_mode", events'[i].head)
  BY Reads DEF Described
<1> DEFINE h == events'[i].head
<1>1. /\ About(events, "enabled", h)
      /\ Shows(output[h]) => About(events, "current_mode", h)
  BY Read DEF Described
<1>2. About(events', "head", h)
  BY DEF About
<1>3. e.kind \in AboutHead => e.head # h
  BY <1>2, OrderedRead
<1>4. About(events, "enabled", h) => About(events', "enabled", h)
  <2>1. ~(e.kind = "enabled" /\ e.head = h)
    BY <1>3 DEF AboutHead
  <2> QED BY <2>1, AboutRead
<1>5. About(events, "current_mode", h) => About(events', "current_mode", h)
  <2>1. ~(e.kind = "current_mode" /\ e.head = h)
    BY <1>3 DEF AboutHead
  <2> QED BY <2>1, AboutRead
<1> QED BY <1>1, <1>4, <1>5

LEMMA CopiedRead ==
  ASSUME Types, LastIsRight, Described, Copied, Dispatch
  PROVE  Copied'
<1> DEFINE e == Head(events)
<1> SUFFICES ASSUME NEW i \in DOMAIN heads'
             PROVE  LET hi == heads'[i]
                        o  == output[hi.head]
                    IN  /\ hi.enabled = o.enabled \/ About(events', "enabled", hi.head)
                        /\ Shows(o) => \/ hi.current_mode = o.mode
                                       \/ About(events', "current_mode", hi.head)
                        /\ o.mode = NoMode => hi.current_mode = NoMode
  BY Reads DEF Copied
<1> DEFINE h == heads'[i].head
<1>1. Superseded(1) => About(events', e.kind, e.head)
  <2>1. ASSUME NEW j \in DOMAIN events, j > 1, events[j].kind = e.kind, events[j].head = e.head
        PROVE  About(events', e.kind, e.head)
    <3>1. j # 1
      BY <2>1
    <3>2. j - 1 \in DOMAIN events' /\ events'[j - 1] = events[j]
      BY <3>1, Read
    <3> QED BY <2>1, <3>2 DEF About
  <2> QED BY <2>1, Read DEF Superseded
<1>2. /\ e.kind = "enabled" => e.n = output[e.head].enabled \/ Superseded(1)
      /\ e.kind = "current_mode" =>
           (e.mode = output[e.head].mode \/ Superseded(1)) /\ output[e.head].mode # NoMode
  BY Read DEF LastIsRight
<1>3. CASE i \in DOMAIN heads
  <2>1. /\ heads[i].head = h
        /\ heads'[i].enabled = IF h = e.head /\ e.kind = "enabled"
                               THEN e.n ELSE heads[i].enabled
        /\ heads'[i].current_mode = IF h = e.head /\ e.kind = "current_mode"
                                    THEN e.mode ELSE heads[i].current_mode
    BY <1>3, TableRead
  <2>2. /\ heads[i].enabled = output[h].enabled \/ About(events, "enabled", h)
        /\ Shows(output[h]) =>
             heads[i].current_mode = output[h].mode \/ About(events, "current_mode", h)
        /\ output[h].mode = NoMode => heads[i].current_mode = NoMode
    BY <1>3, <2>1 DEF Copied
  <2>3. heads'[i].enabled = output[h].enabled \/ About(events', "enabled", h)
    <3>1. CASE h = e.head /\ e.kind = "enabled"
      BY <1>1, <1>2, <2>1, <3>1
    <3>2. CASE ~(h = e.head /\ e.kind = "enabled")
      BY <2>1, <2>2, <3>2, AboutRead
    <3> QED BY <3>1, <3>2
  <2>4. Shows(output[h]) =>
          heads'[i].current_mode = output[h].mode \/ About(events', "current_mode", h)
    <3>1. CASE h = e.head /\ e.kind = "current_mode"
      BY <1>1, <1>2, <2>1, <3>1
    <3>2. CASE ~(h = e.head /\ e.kind = "current_mode")
      BY <2>1, <2>2, <3>2, AboutRead
    <3> QED BY <3>1, <3>2
  <2>5. output[h].mode = NoMode => heads'[i].current_mode = NoMode
    BY <1>2, <2>1, <2>2
  <2> QED BY <2>3, <2>4, <2>5
<1>4. CASE i \notin DOMAIN heads
  <2>1. e.kind = "head" /\ heads'[i] = NewEntry(e.head)
    BY <1>4, TableRead
  <2>2. h = e.head /\ heads'[i].current_mode = NoMode
    BY <2>1 DEF NewEntry
  <2>3. /\ About(events, "enabled", h)
        /\ Shows(output[h]) => About(events, "current_mode", h)
    BY <2>1, <2>2, Read DEF Described
  <2>4. /\ About(events', "enabled", h)
        /\ Shows(output[h]) => About(events', "current_mode", h)
    BY <2>1, <2>3, AboutRead
  <2> QED BY <2>2, <2>4
<1> QED BY <1>3, <1>4

-----------------------------------------------------------------------------
(* Before and after the manager is bound. *)

\* A request that is served is one that was asked.
LEMMA Asked ==
  ASSUME Types, requests # <<>>
  PROVE  Mentions(requests, Head(requests).kind) /\ Head(requests) \in RequestT
<1>1. requests \in Seq(RequestT)
  BY DEF Types, Connection
<1> QED BY <1>1, MentionsRest, RestOf

LEMMA BindsOnce ==
  ASSUME Types, Tokens, Binds
  PROVE  bound = 0 /\ bound' # 0
<1>1. /\ requests # <<>> /\ Head(requests).kind = "bind" /\ bound' = Head(requests).n
  BY Bound
<1>2. Mentions(requests, "bind")
  BY <1>1, Asked
<1>3. bound = 0 /\ manager # 0
  BY <1>2 DEF Tokens
<1>4. 1 \in DOMAIN requests /\ Head(requests) = requests[1]
  <2>1. requests \in Seq(RequestT)
    BY DEF Types, Connection
  <2> QED BY <1>1, <2>1, RestOf
<1>5. Head(requests).n = manager
  BY <1>1, <1>4 DEF Tokens
<1> QED BY <1>1, <1>3, <1>5

\* The ways in which the compositor takes a step.
LEMMA Changes ==
  ASSUME Types, Compositor \/ Outside
  PROVE  \/ Speaks \/ Binds
         \/ \E h \in Heads : AnnounceHead(h)
         \/ \E m \in Modes : Succeed(m)
         \/ /\ \E q \in Seq(EventT) : Change(q) /\ ~Mentions(q, "done")
            /\ bound = 0 => UNCHANGED announced
<1> DEFINE Good == /\ \E q \in Seq(EventT) : Change(q) /\ ~Mentions(q, "done")
                   /\ bound = 0 => UNCHANGED announced
<1>1. ASSUME NEW h \in Heads, Plug(h)
      PROVE  Good
  <2>1. /\ Change(Announce(h)) /\ Announce(h) \in Seq(EventT) /\ Announces(Announce(h), h)
        /\ bound = 0 => UNCHANGED announced
    BY <1>1, Plugged
  <2>2. ~Mentions(Announce(h), "done")
    BY <2>1 DEF Announces, Mentions, Tells
  <2> QED BY <2>1, <2>2
<1>2. ASSUME NEW h \in Heads, Unplug(h)
      PROVE  Good
  <2>1. PICK e \in EventT : e.kind = "head_finished" /\ e.head = h /\ Change(<<e>>)
    BY <1>2, Unplugged
  <2>2. <<e>> \in Seq(EventT) /\ ~Mentions(<<e>>, "done")
    BY <2>1, One, MentionsOne
  <2>3. UNCHANGED announced
    BY <1>2, Unplugged
  <2> QED BY <2>1, <2>2, <2>3
<1>3. ASSUME NEW h \in Heads, Toggle(h)
      PROVE  Good
  <2>1. PICK q \in Seq(EventT) : Change(q) /\ TellsState(q, h, output'[h])
    BY <1>3, Toggled
  <2>2. ~Mentions(q, "done")
    BY <2>1 DEF TellsState, Mentions
  <2>3. UNCHANGED announced
    BY <1>3, Toggled
  <2> QED BY <2>1, <2>2, <2>3
<1>4. ASSUME NEW h \in Heads, NEW m \in Modes, SwitchMode(h, m)
      PROVE  Good
  <2>1. PICK e \in EventT : Change(<<e>>) /\ e.kind = "current_mode" /\ UNCHANGED announced
    BY <1>4, Switched
  <2>2. <<e>> \in Seq(EventT) /\ ~Mentions(<<e>>, "done")
    BY <2>1, One, MentionsOne
  <2> QED BY <2>1, <2>2
<1> QED BY <1>1, <1>2, <1>3, <1>4, Kinds

LEMMA FreshInit == Init => Fresh
<1> SUFFICES ASSUME Init PROVE Fresh
  OBVIOUS
<1>1. events = <<>> /\ requests = <<>> /\ heads = <<>> /\ serial = 0 /\ announced = {}
      /\ unannounced = {} /\ conf = NoConf
  BY DEF Init
<1> QED BY <1>1 DEF Fresh, Mentions

LEMMA FreshServe ==
  ASSUME Types, Tokens, Fresh, Compositor \/ Outside
  PROVE  Fresh'
<1> SUFFICES ASSUME bound' = 0
             PROVE  /\ serial' = 0 /\ heads' = <<>> /\ announced' = {} /\ unannounced' = {}
                    /\ conf' = NoConf /\ ~Mentions(requests', "apply")
                    /\ \A i \in DOMAIN events' :
                         events'[i].kind \notin AboutHead \union {"done"}
  BY DEF Fresh
<1>1. ~Binds
  BY BindsOnce
<1>2. bound = 0
  BY <1>1, StaysBound
<1>3. /\ serial = 0 /\ heads = <<>> /\ announced = {} /\ unannounced = {}
      /\ conf = NoConf /\ ~Mentions(requests, "apply")
      /\ \A i \in DOMAIN events : events[i].kind \notin AboutHead \union {"done"}
  BY <1>2 DEF Fresh
<1>4. serial' = 0 /\ heads' = <<>>
  BY <1>3, Serves
<1>5. ~Mentions(requests', "apply")
  <2>1. requests \in Seq(RequestT)
    BY DEF Types, Connection
  <2> QED BY <1>3, <2>1, Takes, MentionsRest
<1>6. conf' = NoConf
  <2>1. ~(requests # <<>> /\ Head(requests).kind = "apply")
    BY <1>3, Asked
  <2> QED BY <1>3, <2>1, Judges
<1>7. CASE Speaks
  <2>1. PICK q : Plain(q) /\ Send(q)
    BY <1>7, Spoken
  <2>2. UNCHANGED <<unannounced, announced>>
    BY <1>7, Spoken
  <2>3. q \in Seq(EventT) /\ \A i \in DOMAIN q : q[i].kind \notin AboutHead \union {"done"}
    BY <2>1 DEF Plain, AboutNone, AboutHead
  <2>4. \A i \in DOMAIN events' : events'[i].kind \notin AboutHead \union {"done"}
    BY <1>3, <2>1, <2>3, Sent
  <2> QED BY <1>3, <1>4, <1>5, <1>6, <2>2, <2>4
<1>8. ASSUME NEW h \in Heads, AnnounceHead(h)
      PROVE  FALSE
  BY <1>3, <1>8, Announced
<1>9. ASSUME NEW m \in Modes, Succeed(m)
      PROVE  FALSE
  BY <1>3, <1>9, Succeeded
<1>10. CASE /\ \E q \in Seq(EventT) : Change(q) /\ ~Mentions(q, "done")
            /\ bound = 0 => UNCHANGED announced
  <2>1. events' = events /\ UNCHANGED <<unannounced, announced>>
    BY <1>2, <1>10, Changed
  <2> QED BY <1>3, <1>4, <1>5, <1>6, <2>1
<1> QED BY <1>1, <1>7, <1>8, <1>9, <1>10, Changes

LEMMA FreshCall ==
  ASSUME Types, Fresh, configure_output_scale
  PROVE  Fresh'
<1>1. UNCHANGED <<serial, heads, announced, unannounced, conf, bound, events>>
  BY CallsLeave
<1>2. bound = 0 /\ ~Mentions(requests, "apply") => ~Mentions(requests', "apply")
  <2> SUFFICES ASSUME bound = 0, ~Mentions(requests, "apply")
               PROVE  ~Mentions(requests', "apply")
    OBVIOUS
  <2>1. ~SendConfiguration
    <3>1. serial = 0
      BY DEF Fresh
    <3> QED BY <3>1 DEF SendConfiguration
  <2>2. CASE UNCHANGED requests
    BY <2>2
  <2>3. ASSUME NEW q \in Seq(RequestT), requests' = requests \o q,
               \A i \in DOMAIN q :
                 q[i].kind = "apply" => SendConfiguration /\ q[i] = Configuration
        PROVE  ~Mentions(requests', "apply")
    <3>1. ~Mentions(q, "apply")
      BY <2>1, <2>3 DEF Mentions
    <3>2. requests \in Seq(RequestT)
      BY DEF Types, Connection
    <3> QED BY <2>3, <3>1, <3>2, MentionsMore
  <2> QED BY <2>2, <2>3, Requested
<1> QED BY <1>1, <1>2 DEF Fresh

\* A handler asks for nothing but the manager.
LEMMA PostsNoApply ==
  ASSUME Types, Dispatch
  PROVE  /\ Mentions(requests', "apply") => Mentions(requests, "apply")
         /\ \A i \in DOMAIN requests' :
              requests'[i].kind = "apply" => i \in DOMAIN requests /\ requests'[i] = requests[i]
<1> DEFINE e == Head(events)
<1>1. CASE e.kind # "global"
  <2>1. requests' = requests
    BY <1>1, Reads
  <2> QED BY <2>1 DEF Mentions
<1>2. CASE e.kind = "global"
  <2> DEFINE v == Version(e.n)
             r == [Request("bind") EXCEPT !.n = v]
             q == <<r>>
  <2>1. reg_global
    BY <1>2, ReadsWhat
  <2>2. requests' = requests \o q
    BY <2>1 DEF reg_global, Post, Dispatching
  <2>3. v \in Nat
    <3>1. e.n \in Nat
      BY Read DEF EventT
    <3> QED BY <3>1 DEF Version
  <2> HIDE DEF v
  <2>4. r \in RequestT /\ r.kind = "bind"
    BY <2>3, BindType
  <2> HIDE DEF r
  <2>5. q \in Seq(RequestT) /\ \A i \in DOMAIN q : q[i] = r
    BY <2>4, One
  <2> HIDE DEF q
  <2>6. requests \in Seq(RequestT)
    BY DEF Types, Connection
  <2>7. ASSUME NEW i \in DOMAIN requests', requests'[i].kind = "apply"
        PROVE  i \in DOMAIN requests /\ requests'[i] = requests[i]
    <3>1. \/ i \in DOMAIN requests /\ requests'[i] = requests[i]
          \/ i - Len(requests) \in DOMAIN q /\ requests'[i] = q[i - Len(requests)]
      BY <2>2, <2>5, <2>6, JoinOf
    <3> QED BY <2>4, <2>5, <2>7, <3>1
  <2>8. Mentions(requests', "apply") => Mentions(requests, "apply")
    BY <2>7 DEF Mentions
  <2> QED BY <2>7, <2>8
<1> QED BY <1>1, <1>2

LEMMA FreshRead ==
  ASSUME Types, Fresh, Dispatch
  PROVE  Fresh'
<1> SUFFICES ASSUME bound = 0
             PROVE  /\ serial' = 0 /\ heads' = <<>> /\ announced' = {} /\ unannounced' = {}
                    /\ conf' = NoConf /\ ~Mentions(requests', "apply")
                    /\ \A i \in DOMAIN events' :
                         events'[i].kind \notin AboutHead \union {"done"}
  BY Reads DEF Fresh
<1> DEFINE e == Head(events)
<1>1. /\ serial = 0 /\ heads = <<>> /\ announced = {} /\ unannounced = {}
      /\ conf = NoConf /\ ~Mentions(requests, "apply")
      /\ \A i \in DOMAIN events : events[i].kind \notin AboutHead \union {"done"}
  BY DEF Fresh
<1>2. e.kind \notin AboutHead \union {"done"}
  BY <1>1, Read
<1>3. UNCHANGED <<serial, heads, announced, unannounced, conf>>
  BY <1>2, Reads DEF AboutHead
<1>4. \A i \in DOMAIN events' : events'[i].kind \notin AboutHead \union {"done"}
  BY <1>1, Read
<1>5. ~Mentions(requests', "apply")
  BY <1>1, PostsNoApply
<1> QED BY <1>1, <1>3, <1>4, <1>5

-----------------------------------------------------------------------------
(* The heads as the client knows them. *)

\* A client that has been told of no head.
LEMMA NothingYet ==
  ASSUME heads' = <<>>, announced' = {},
         \A i \in DOMAIN events' : events'[i].kind \notin AboutHead
  PROVE  Listed' /\ Ordered' /\ LastIsRight' /\ Described' /\ Copied'
<1>1. DOMAIN heads' = {}
  OBVIOUS
<1>2. Listed'
  BY <1>1 DEF Listed
<1>3. Ordered'
  BY DEF Ordered, AboutHead
<1>4. LastIsRight'
  BY DEF LastIsRight, AboutHead
<1>5. Described'
  BY DEF Described, AboutHead
<1>6. Copied'
  BY <1>1 DEF Copied
<1> QED BY <1>2, <1>3, <1>4, <1>5, <1>6

LEMMA CountedInit == Init => Counted /\ Seen
<1> SUFFICES ASSUME Init PROVE Counted /\ Seen
  OBVIOUS
<1>1. events = <<>> /\ heads = <<>> /\ announced = {} /\ unannounced = {} /\ bound = 0
  BY DEF Init
<1>2. DOMAIN events = {} /\ DOMAIN heads = {}
  BY <1>1
<1>3. Counted
  BY <1>1, <1>2 DEF Counted, Named, Listed, Ordered
<1>4. Seen
  BY <1>2 DEF Seen, LastIsRight, Described, Copied
<1> QED BY <1>3, <1>4

LEMMA CountedCall ==
  ASSUME Counted, Seen,
         UNCHANGED <<heads, events, output, plugged, announced, unannounced, bound, verdict>>
  PROVE  Counted' /\ Seen'
<1>1. Counted'
  BY DEF Counted, Named, Listed, Ordered, Overflow, About
<1>2. LastIsRight => LastIsRight'
  BY DEF LastIsRight, Superseded
<1>3. Described => Described'
  BY DEF Described, About
<1>4. Copied => Copied'
  BY DEF Copied, About
<1> QED BY <1>1, <1>2, <1>3, <1>4 DEF Seen

LEMMA CountedRead ==
  ASSUME Types, Counted, Seen, Dispatch
  PROVE  Counted' /\ Seen'
<1>1. UNCHANGED <<bound, plugged, announced, unannounced, verdict>>
  BY Reads
<1>2. Named'
  BY <1>1 DEF Counted, Named
<1>3. Listed' /\ Ordered'
  BY ListedRead, OrderedRead DEF Counted
<1>4. Ordered
  BY DEF Counted
<1>5. Seen'
  BY <1>1, <1>4, LastRead, DescribedRead, CopiedRead DEF Seen
<1> QED BY <1>2, <1>3, <1>5 DEF Counted

LEMMA CountedServe ==
  ASSUME Types, Types', Tokens, Fresh, Fresh', Counted, Seen, Compositor \/ Outside
  PROVE  Counted' /\ Seen'
<1>1. UNCHANGED heads /\ IsFiniteSet(announced')
  BY Serves DEF Types, Connection
<1>2. verdict' = "none" => verdict = "none"
  BY Judges
<1>3. CASE Binds
  <2>1. bound = 0
    BY <1>3, BindsOnce
  <2>2. /\ heads = <<>> /\ announced = {}
        /\ \A i \in DOMAIN events : events[i].kind \notin AboutHead
    BY <2>1 DEF Fresh
  <2>3. /\ unannounced' = plugged /\ UNCHANGED <<plugged, announced>>
        /\ plugged # {} => events' = events
        /\ plugged = {} => Send(<<Done(cserial)>>)
    BY <1>3, Bound
  <2>4. \A i \in DOMAIN events' : events'[i].kind \notin AboutHead
    <3>1. CASE plugged # {}
      BY <2>2, <2>3, <3>1
    <3>2. CASE plugged = {}
      <4> DEFINE q == <<Done(cserial)>>
      <4>1. cserial \in Nat
        BY DEF Types, TypeOK
      <4>2. Done(cserial) \in EventT /\ Done(cserial).kind = "done"
        BY <4>1, DoneOne
      <4>3. q \in Seq(EventT) /\ \A i \in DOMAIN q : q[i].kind = "done"
        BY <4>2, One
      <4>4. Send(q)
        BY <2>3, <3>2
      <4> HIDE DEF q
      <4> QED BY <2>2, <4>3, <4>4, Sent DEF AboutHead
    <3> QED BY <3>1, <3>2
  <2>5. Listed' /\ Ordered' /\ LastIsRight' /\ Described' /\ Copied'
    BY <1>1, <2>2, <2>3, <2>4, NothingYet
  <2>6. Named'
    BY <2>2, <2>3 DEF Named
  <2> QED BY <2>5, <2>6 DEF Counted, Seen
<1>4. CASE ~Binds /\ bound = 0
  <2>1. bound' = 0
    BY <1>4, StaysBound
  <2>2. /\ heads' = <<>> /\ announced' = {} /\ unannounced' = {}
        /\ \A i \in DOMAIN events' : events'[i].kind \notin AboutHead
    BY <2>1 DEF Fresh
  <2>3. Listed' /\ Ordered' /\ LastIsRight' /\ Described' /\ Copied'
    BY <2>2, NothingYet
  <2>4. Named'
    BY <2>1, <2>2 DEF Named
  <2> QED BY <2>3, <2>4 DEF Counted, Seen
<1>5. CASE ~Binds /\ bound # 0
  <2>1. Named /\ Listed /\ Ordered
    BY DEF Counted
  <2>2. PICK q \in Seq(EventT) :
           Sends(q) /\ Introduces(q) /\ (verdict' = "none" => Told(q))
    BY <1>5, <2>1, Reports
  <2>3. Named'
    BY <1>5, <2>1, Reports
  <2>4. Listed' /\ Ordered'
    BY <1>1, <2>1, <2>2, CountedSent
  <2>5. Seen'
    <3> SUFFICES ASSUME verdict' = "none"
                 PROVE  LastIsRight' /\ Described' /\ Copied'
      BY DEF Seen
    <3>1. Told(q) /\ LastIsRight /\ Described /\ Copied
      BY <1>2, <2>2 DEF Seen
    <3> QED BY <1>1, <2>1, <2>2, <3>1, LastSent, DescribedSent, CopiedSent
  <2> QED BY <2>3, <2>4, <2>5 DEF Counted
<1> QED BY <1>3, <1>4, <1>5

-----------------------------------------------------------------------------
(* The serials. *)

LEMMA DonesSent ==
  ASSUME Types, Dones, NEW q \in Seq(EventT), Send(q), ~Mentions(q, "done"),
         \/ unannounced' # {}
         \/ /\ UNCHANGED unannounced
            /\ \A i \in DOMAIN q : q[i].kind \notin AboutHead,
         serial' = serial, cserial' = cserial
  PROVE  Dones'
<1>1. \A i \in DOMAIN q : q[i].kind # "done"
  BY DEF Mentions
<1>2. ASSUME NEW i \in DOMAIN events', events'[i].kind = "done"
      PROVE  i \in DOMAIN events /\ events'[i] = events[i]
  BY <1>1, <1>2, Sent
<1>3. ASSUME NEW i \in DOMAIN events', events'[i].kind = "done"
      PROVE  serial < events'[i].n /\ events'[i].n <= cserial
  BY <1>2, <1>3 DEF Dones
<1>4. ASSUME NEW i \in DOMAIN events', NEW j \in DOMAIN events', i < j,
             events'[i].kind = "done", events'[j].kind = "done"
      PROVE  events'[i].n < events'[j].n
  BY <1>2, <1>4 DEF Dones
<1>5. ASSUME unannounced' = {}, NEW i \in DOMAIN events', events'[i].kind \in AboutHead
      PROVE  \E j \in DOMAIN events' : j > i /\ events'[j].kind = "done"
  <2>1. i \in DOMAIN events /\ events'[i] = events[i]
    BY <1>5, Sent
  <2>2. PICK j \in DOMAIN events : j > i /\ events[j].kind = "done"
    BY <1>5, <2>1 DEF Dones
  <2>3. j \in DOMAIN events' /\ events'[j] = events[j]
    BY Sent
  <2> QED BY <2>2, <2>3
<1> QED BY <1>3, <1>4, <1>5 DEF Dones

\* A done is sent, and is the last thing sent.
LEMMA DonesThenDone ==
  ASSUME Types, Dones, NEW q \in Seq(EventT), ~Mentions(q, "done"),
         NEW s \in Nat, Send(q \o <<Done(s)>>),
         serial < s, s <= cserial', cserial <= cserial', cserial' \in Nat,
         \A i \in DOMAIN events : events[i].kind = "done" => events[i].n < s,
         serial' = serial
  PROVE  Dones'
<1> DEFINE last == Len(events) + Len(q) + 1
<1>1. /\ Len(events) \in Nat /\ Len(q) \in Nat
      /\ DOMAIN events = 1..Len(events)
      /\ last \in DOMAIN events' /\ events'[last] = Done(s)
      /\ \A i \in DOMAIN events' :
           \/ i \in DOMAIN events /\ events'[i] = events[i]
           \/ /\ i > Len(events) /\ i < last /\ i - Len(events) \in DOMAIN q
              /\ events'[i] = q[i - Len(events)]
           \/ i = last
  BY SentThenDone
<1>2. last \in Int /\ \A i \in DOMAIN events : i < last
  BY <1>1
<1>3. events'[last].kind = "done" /\ events'[last].n = s
  BY <1>1, DoneOne
<1> HIDE DEF last
<1>4. ASSUME NEW i \in DOMAIN events', events'[i].kind = "done"
      PROVE  (i \in DOMAIN events /\ events'[i] = events[i]) \/ i = last
  BY <1>1, <1>4 DEF Mentions
<1>5. ASSUME NEW i \in DOMAIN events', events'[i].kind = "done"
      PROVE  serial < events'[i].n /\ events'[i].n <= cserial'
  <2>1. CASE i \in DOMAIN events /\ events'[i] = events[i]
    <3>1. serial < events[i].n /\ events[i].n <= cserial /\ cserial \in Nat
      BY <1>5, <2>1 DEF Dones, Types, TypeOK
    <3>2. events[i].n \in Nat
      BY <2>1, Here DEF EventT
    <3> QED BY <2>1, <3>1, <3>2
  <2>2. CASE i = last
    BY <1>3, <2>2
  <2> QED BY <1>4, <1>5, <2>1, <2>2
<1>6. ASSUME NEW i \in DOMAIN events', NEW j \in DOMAIN events', i < j,
             events'[i].kind = "done", events'[j].kind = "done"
      PROVE  events'[i].n < events'[j].n
  <2>1. CASE i = last
    <3>1. j \in DOMAIN events
      BY <1>2, <1>4, <1>6, <2>1
    <3> QED BY <1>2, <1>6, <2>1, <3>1, <1>1
  <2>2. CASE i \in DOMAIN events /\ events'[i] = events[i] /\ j = last
    BY <1>3, <1>6, <2>2
  <2>3. CASE /\ i \in DOMAIN events /\ events'[i] = events[i]
             /\ j \in DOMAIN events /\ events'[j] = events[j]
    BY <1>6, <2>3 DEF Dones
  <2> QED BY <1>4, <1>6, <2>1, <2>2, <2>3
<1>7. ASSUME NEW i \in DOMAIN events', events'[i].kind \in AboutHead
      PROVE  \E j \in DOMAIN events' : j > i /\ events'[j].kind = "done"
  <2>1. i # last
    BY <1>3, <1>7 DEF AboutHead
  <2>2. i < last
    BY <1>1, <1>2, <2>1
  <2> QED BY <1>1, <1>2, <1>3, <2>2
<1> QED BY <1>5, <1>6, <1>7 DEF Dones

LEMMA SerialsInit == Init => Serials /\ Dones
<1> SUFFICES ASSUME Init PROVE Serials /\ Dones
  OBVIOUS
<1>1. events = <<>> /\ unannounced = {} /\ serial = 0 /\ cserial = 1
  BY DEF Init
<1>2. DOMAIN events = {}
  BY <1>1
<1>3. Serials
  BY <1>1 DEF Serials
<1>4. Dones
  BY <1>2 DEF Dones
<1> QED BY <1>3, <1>4

LEMMA SerialsServe ==
  ASSUME Types, Types', Tokens, Fresh, Serials, Dones, Compositor \/ Outside
  PROVE  Serials' /\ Dones'
<1>1. /\ serial \in Nat /\ cserial \in Nat /\ cserial' \in Nat /\ serial' = serial
      /\ serial <= cserial /\ cserial >= 1
  BY Serves DEF Types, TypeOK, Serials
<1>2. Mentions(requests', "apply") => Mentions(requests, "apply")
  <2>1. requests \in Seq(RequestT)
    BY DEF Types, Connection
  <2> QED BY <2>1, Takes, MentionsRest
<1>3. \A i \in DOMAIN events : events[i].kind = "done" => events[i].n <= cserial
  BY DEF Dones
<1>4. CASE Speaks
  <2>1. PICK q : Plain(q) /\ Send(q)
    BY <1>4, Spoken
  <2>2. UNCHANGED <<cserial, unannounced>>
    BY <1>4, Spoken
  <2>3. /\ q \in Seq(EventT) /\ ~Mentions(q, "done")
        /\ \A i \in DOMAIN q : q[i].kind \notin AboutHead
    BY <2>1 DEF Plain, AboutNone, AboutHead, Mentions
  <2>4. Dones'
    BY <1>1, <2>1, <2>2, <2>3, DonesSent
  <2>5. ASSUME unannounced # {}
        PROVE  serial = 0 /\ ~Mentions(events', "done") /\ conf' = NoConf
               /\ ~Mentions(requests', "apply")
    <3>1. serial = 0 /\ ~Mentions(events, "done") /\ conf = NoConf /\ ~Mentions(requests, "apply")
      BY <2>5 DEF Serials
    <3>2. ~Mentions(events', "done")
      BY <2>1, <2>3, <3>1, Sent
    <3>3. conf' = conf
      BY <2>5, Judges
    <3> QED BY <1>2, <3>1, <3>2, <3>3
  <2> QED BY <1>1, <2>2, <2>4, <2>5 DEF Serials
<1>5. CASE Binds
  <2>1. bound = 0
    BY <1>5, BindsOnce
  <2>2. /\ serial = 0 /\ conf = NoConf /\ ~Mentions(requests, "apply")
        /\ \A i \in DOMAIN events : events[i].kind \notin AboutHead \union {"done"}
    BY <2>1 DEF Fresh
  <2>3. /\ unannounced = {} /\ unannounced' = plugged
        /\ plugged # {} => events' = events
        /\ plugged = {} => Send(<<Done(cserial)>>)
        /\ UNCHANGED <<cserial, conf>>
    BY <1>5, Bound
  <2>4. CASE plugged # {}
    <3>1. events' = events
      BY <2>3, <2>4
    <3>2. Serials'
      BY <1>1, <1>2, <2>2, <2>3, <3>1 DEF Serials, Mentions
    <3>3. Dones'
      BY <2>2, <2>3, <2>4, <3>1 DEF Dones
    <3> QED BY <3>2, <3>3
  <2>5. CASE plugged = {}
    <3> DEFINE q == <<>>
    <3>1. q \in Seq(EventT) /\ ~Mentions(q, "done")
      BY DEF Mentions
    <3>2. <<>> \o <<Done(cserial)>> = <<Done(cserial)>>
      <4>1. <<Done(cserial)>> \in Seq(EventT)
        BY <1>1, DoneOne
      <4> QED BY <4>1, ConcatEmptySeq
    <3>3. Send(q \o <<Done(cserial)>>)
      BY <2>3, <2>5, <3>2
    <3> HIDE DEF q
    <3>4. serial < cserial
      BY <1>1, <2>2
    <3>5. \A i \in DOMAIN events : events[i].kind = "done" => events[i].n < cserial
      BY <2>2
    <3>6. cserial <= cserial'
      BY <1>1, <2>3
    <3>7. Dones'
      BY <1>1, <3>1, <3>3, <3>4, <3>5, <3>6, DonesThenDone
    <3>8. Serials'
      BY <1>1, <2>3, <2>5 DEF Serials
    <3> QED BY <3>7, <3>8
  <2> QED BY <2>4, <2>5
<1>6. ASSUME NEW h \in Heads, AnnounceHead(h)
      PROVE  Serials' /\ Dones'
  <2> DEFINE q == Announce(h)
  <2>1. /\ h \in unannounced /\ unannounced' = unannounced \ {h}
        /\ Announces(q, h)
        /\ unannounced = {h} => Send(q \o <<Done(cserial)>>)
        /\ unannounced # {h} => Send(q)
        /\ UNCHANGED <<requests, cserial, conf>>
    BY <1>6, Announced
  <2> HIDE DEF q
  <2>2. q \in Seq(EventT) /\ ~Mentions(q, "done")
    BY <2>1 DEF Announces, Mentions, Tells
  <2>3. serial = 0 /\ ~Mentions(events, "done") /\ conf = NoConf /\ ~Mentions(requests, "apply")
    BY <2>1 DEF Serials
  <2>4. CASE unannounced = {h}
    <3>1. unannounced' = {} /\ Send(q \o <<Done(cserial)>>)
      BY <2>1, <2>4
    <3>2. serial < cserial /\ cserial <= cserial'
      BY <1>1, <2>1, <2>3
    <3>3. \A i \in DOMAIN events : events[i].kind = "done" => events[i].n < cserial
      BY <2>3 DEF Mentions
    <3>4. Dones'
      BY <1>1, <2>2, <3>1, <3>2, <3>3, DonesThenDone
    <3>5. Serials'
      BY <1>1, <2>1, <3>1 DEF Serials
    <3> QED BY <3>4, <3>5
  <2>5. CASE unannounced # {h}
    <3>1. unannounced' # {} /\ Send(q)
      BY <2>1, <2>5
    <3>2. Dones'
      BY <1>1, <2>1, <2>2, <3>1, DonesSent
    <3>3. ~Mentions(events', "done")
      BY <2>2, <2>3, <3>1, Sent
    <3>4. Serials'
      BY <1>1, <1>2, <2>1, <2>3, <3>3 DEF Serials
    <3> QED BY <3>2, <3>4
  <2> QED BY <2>4, <2>5
<1>7. ASSUME NEW m \in Modes, Succeed(m)
      PROVE  Serials' /\ Dones'
  <2> DEFINE q == <<Event("succeeded")>>
  <2>1. /\ unannounced = {} /\ unannounced' = {}
        /\ \/ Send(q) /\ UNCHANGED cserial
           \/ Send(q \o <<Done(cserial + 1)>>) /\ cserial' = cserial + 1
    BY <1>7, Succeeded
  <2>2. Plain(q)
    BY PlainOne DEF AboutNone
  <2> HIDE DEF q
  <2>3. /\ q \in Seq(EventT) /\ ~Mentions(q, "done")
        /\ \A i \in DOMAIN q : q[i].kind \notin AboutHead
    BY <2>2 DEF Plain, AboutNone, AboutHead, Mentions
  <2>4. CASE Send(q) /\ UNCHANGED cserial
    <3>1. Dones'
      BY <1>1, <2>1, <2>3, <2>4, DonesSent
    <3> QED BY <1>1, <2>1, <2>4, <3>1 DEF Serials
  <2>5. CASE Send(q \o <<Done(cserial + 1)>>) /\ cserial' = cserial + 1
    <3>1. /\ serial < cserial + 1 /\ cserial + 1 <= cserial' /\ cserial <= cserial'
          /\ cserial + 1 \in Nat
      BY <1>1, <2>5
    <3>2. \A i \in DOMAIN events : events[i].kind = "done" => events[i].n < cserial + 1
      <4>1. \A i \in DOMAIN events : events[i].n \in Nat
        BY Here DEF EventT
      <4> QED BY <1>1, <1>3, <4>1
    <3>3. Dones'
      BY <1>1, <2>3, <2>5, <3>1, <3>2, DonesThenDone
    <3>4. Serials'
      BY <1>1, <2>1, <2>5 DEF Serials
    <3> QED BY <3>3, <3>4
  <2> QED BY <2>1, <2>4, <2>5
<1>8. ASSUME NEW q \in Seq(EventT), Change(q), ~Mentions(q, "done")
      PROVE  Serials' /\ Dones'
  <2>1. /\ unannounced = {} /\ unannounced' = {} /\ cserial' = cserial + 1
        /\ bound = 0 => events' = events
        /\ bound # 0 => Send(q \o <<Done(cserial + 1)>>)
    BY <1>8, Changed
  <2>2. Serials'
    BY <1>1, <2>1 DEF Serials
  <2>3. CASE bound = 0
    <3>1. \A i \in DOMAIN events : events[i].kind \notin AboutHead \union {"done"}
      BY <2>3 DEF Fresh
    <3>2. Dones'
      BY <2>1, <2>3, <3>1 DEF Dones
    <3> QED BY <2>2, <3>2
  <2>4. CASE bound # 0
    <3>1. /\ serial < cserial + 1 /\ cserial + 1 <= cserial' /\ cserial <= cserial'
          /\ cserial + 1 \in Nat
      BY <1>1, <2>1
    <3>2. \A i \in DOMAIN events : events[i].kind = "done" => events[i].n < cserial + 1
      <4>1. \A i \in DOMAIN events : events[i].n \in Nat
        BY Here DEF EventT
      <4> QED BY <1>1, <1>3, <4>1
    <3>3. Send(q \o <<Done(cserial + 1)>>)
      BY <2>1, <2>4
    <3>4. Dones'
      BY <1>1, <1>8, <3>1, <3>2, <3>3, DonesThenDone
    <3> QED BY <2>2, <3>4
  <2> QED BY <2>3, <2>4
<1> QED BY <1>4, <1>5, <1>6, <1>7, <1>8, Changes

LEMMA SerialsRead ==
  ASSUME Types, Serials, Dones, Dispatch
  PROVE  Serials' /\ Dones'
<1> DEFINE e == Head(events)
<1>1. UNCHANGED <<cserial, unannounced, conf>>
  BY Reads
<1>2. serial \in Nat /\ cserial \in Nat /\ serial <= cserial /\ cserial >= 1
  BY DEF Types, TypeOK, Serials
<1>3. e.kind = "done" => serial' = e.n
  BY ReadsWhat DEF mgr_done
<1>4. e.kind # "done" => serial' = serial
  BY Reads
<1>5. events[1] = e /\ 1 \in DOMAIN events /\ DOMAIN events' \subseteq Int
      /\ \A i \in DOMAIN events' : i + 1 \in DOMAIN events /\ events'[i] = events[i + 1]
                                   /\ i >= 1
  <2>1. events \in Seq(EventT) /\ events # <<>> /\ events' = Tail(events)
    BY Reads DEF Types, Connection
  <2>2. events' \in Seq(EventT)
    BY <2>1, RestOf
  <2>3. \A i \in DOMAIN events' : i >= 1
    BY <2>2, LenProperties
  <2> QED BY <2>3, Read
<1>6. e.kind = "done" => serial < e.n /\ e.n <= cserial
  BY <1>5 DEF Dones
<1>7. serial' <= cserial
  BY <1>2, <1>3, <1>4, <1>6
<1>8. ASSUME unannounced # {}
      PROVE  serial' = 0 /\ ~Mentions(events', "done") /\ ~Mentions(requests', "apply")
             /\ conf = NoConf
  <2>1. serial = 0 /\ ~Mentions(events, "done") /\ conf = NoConf /\ ~Mentions(requests, "apply")
    BY <1>8 DEF Serials
  <2> QED BY <1>4, <2>1, Read, PostsNoApply
<1>9. Serials'
  BY <1>1, <1>2, <1>7, <1>8 DEF Serials
<1>10. ASSUME NEW i \in DOMAIN events', events'[i].kind = "done"
       PROVE  serial' < events'[i].n /\ events'[i].n <= cserial
  <2>1. i + 1 \in DOMAIN events /\ events'[i] = events[i + 1] /\ i \in Int /\ i >= 1
    BY <1>5
  <2>2. serial < events[i + 1].n /\ events[i + 1].n <= cserial
    BY <1>10, <2>1 DEF Dones
  <2>3. CASE e.kind = "done"
    <3>1. 1 < i + 1
      BY <2>1
    <3>2. events[1].n < events[i + 1].n
      BY <1>5, <1>10, <2>1, <2>3, <3>1 DEF Dones
    <3> QED BY <1>3, <1>5, <2>1, <2>2, <2>3, <3>2
  <2>4. CASE e.kind # "done"
    BY <1>4, <2>1, <2>2, <2>4
  <2> QED BY <2>3, <2>4
<1>11. ASSUME NEW i \in DOMAIN events', NEW j \in DOMAIN events', i < j,
              events'[i].kind = "done", events'[j].kind = "done"
       PROVE  events'[i].n < events'[j].n
  <2>1. /\ i + 1 \in DOMAIN events /\ events'[i] = events[i + 1] /\ i \in Int
        /\ j + 1 \in DOMAIN events /\ events'[j] = events[j + 1] /\ j \in Int
    BY <1>5
  <2>2. i + 1 < j + 1
    BY <1>11, <2>1
  <2> QED BY <1>11, <2>1, <2>2 DEF Dones
<1>12. ASSUME unannounced = {}, NEW i \in DOMAIN events', events'[i].kind \in AboutHead
       PROVE  \E j \in DOMAIN events' : j > i /\ events'[j].kind = "done"
  <2>1. i + 1 \in DOMAIN events /\ events'[i] = events[i + 1] /\ i \in Int /\ i >= 1
    BY <1>5
  <2>2. PICK j \in DOMAIN events : j > i + 1 /\ events[j].kind = "done"
    BY <1>12, <2>1 DEF Dones
  <2>3. j \in Int
    BY Read
  <2>4. j # 1 /\ j - 1 > i
    BY <2>1, <2>2, <2>3
  <2>5. j - 1 \in DOMAIN events' /\ events'[j - 1] = events[j]
    BY <2>4, Read
  <2> QED BY <2>2, <2>4, <2>5
<1>13. Dones'
  BY <1>1, <1>10, <1>11, <1>12 DEF Dones
<1> QED BY <1>9, <1>13

LEMMA SerialsCall ==
  ASSUME Types, Serials, Dones, configure_output_scale
  PROVE  Serials' /\ Dones'
<1>1. UNCHANGED <<serial, cserial, unannounced, conf, events>>
  BY CallsLeave
<1>2. ASSUME unannounced # {}, ~Mentions(requests, "apply"), serial = 0
      PROVE  ~Mentions(requests', "apply")
  <2>1. ~SendConfiguration
    BY <1>2 DEF SendConfiguration
  <2>2. CASE UNCHANGED requests
    BY <1>2, <2>2
  <2>3. ASSUME NEW q \in Seq(RequestT), requests' = requests \o q,
               \A i \in DOMAIN q :
                 q[i].kind = "apply" => SendConfiguration /\ q[i] = Configuration
        PROVE  ~Mentions(requests', "apply")
    <3>1. ~Mentions(q, "apply")
      BY <2>1, <2>3 DEF Mentions
    <3>2. requests \in Seq(RequestT)
      BY DEF Types, Connection
    <3> QED BY <1>2, <2>3, <3>1, <3>2, MentionsMore
  <2> QED BY <2>2, <2>3, Requested
<1>3. Serials'
  BY <1>1, <1>2 DEF Serials
<1>4. Dones'
  BY <1>1 DEF Dones
<1> QED BY <1>3, <1>4

-----------------------------------------------------------------------------
(* The configuration that is asked for. *)

\* What a configuration says of the screens is what they are.
Accurate(c) ==
  /\ \A i \in DOMAIN c.heads :
       /\ c.heads[i].enabled = output[c.heads[i].head].enabled
       /\ c.heads[i].enabled = 1 => c.heads[i].mode = output[c.heads[i].head].mode
  /\ ~Overflow => \A h \in plugged : \E i \in DOMAIN c.heads : c.heads[i].head = h

\* A configuration that carries the current serial is accurate.
Fits(c) ==
  /\ \A i, j \in DOMAIN c.heads : c.heads[i].head = c.heads[j].head => i = j
  /\ \A i \in DOMAIN c.heads :
       c.heads[i].scale = IF c.heads[i].enabled = 0 THEN NoScale ELSE WlFixed(scale)
  /\ c.n <= cserial
  /\ c.n = cserial /\ verdict = "none" => Accurate(c)

Configs ==
  /\ \A i \in DOMAIN requests : requests[i].kind = "apply" => Fits(requests[i])
  /\ conf # NoConf => Fits(conf)
  /\ pc \notin {"start", "returned"} \/ Mentions(requests, "apply") \/ conf # NoConf =>
       scale > 0

LEMMA OverflowStays ==
  ASSUME IsFiniteSet(announced'), announced \subseteq announced'
  PROVE  Overflow => Overflow'
<1>1. Cardinality(announced) <= Cardinality(announced')
  BY FS_Subset
<1>2. IsFiniteSet(announced)
  BY FS_Subset
<1>3. Cardinality(announced) \in Nat /\ Cardinality(announced') \in Nat
  BY <1>2, FS_CardinalityType
<1> QED BY <1>1, <1>3, BoundsAssumption DEF Overflow

\* The screens change with the serial only, or with the answer to the client.
Steady ==
  \/ cserial < cserial'
  \/ verdict' # "none" /\ cserial <= cserial'
  \/ /\ UNCHANGED <<cserial, output, plugged>>
     /\ Overflow => Overflow'
     /\ verdict' = "none" => verdict = "none"

LEMMA SteadyServe ==
  ASSUME Types, Types', Compositor \/ Outside
  PROVE  Steady
<1>1. /\ cserial \in Nat /\ cserial' \in Nat /\ IsFiniteSet(announced')
      /\ verdict' = "none" => verdict = "none"
  BY Judges DEF Types, TypeOK, Connection
<1>2. CASE Speaks
  <2>1. UNCHANGED <<cserial, output, plugged, announced>>
    BY <1>2, Spoken
  <2>2. Overflow => Overflow'
    BY <1>1, <2>1, OverflowStays
  <2> QED BY <1>1, <2>1, <2>2 DEF Steady
<1>3. CASE Binds
  <2>1. UNCHANGED <<cserial, output, plugged, announced>>
    BY <1>3, Bound
  <2>2. Overflow => Overflow'
    BY <1>1, <2>1, OverflowStays
  <2> QED BY <1>1, <2>1, <2>2 DEF Steady
<1>4. ASSUME NEW h \in Heads, AnnounceHead(h)
      PROVE  Steady
  <2>1. UNCHANGED <<cserial, output, plugged>> /\ announced \subseteq announced'
    BY <1>4, Announced
  <2>2. Overflow => Overflow'
    BY <1>1, <2>1, OverflowStays
  <2> QED BY <1>1, <2>1, <2>2 DEF Steady
<1>5. ASSUME NEW m \in Modes, Succeed(m)
      PROVE  Steady
  <2>1. verdict' # "none" /\ (cserial' = cserial \/ cserial' = cserial + 1)
    BY <1>5, Succeeded
  <2> QED BY <1>1, <2>1 DEF Steady
<1>6. ASSUME NEW q \in Seq(EventT), Change(q)
      PROVE  Steady
  <2>1. cserial' = cserial + 1
    BY <1>6, Changed
  <2> QED BY <1>1, <2>1 DEF Steady
<1> QED BY <1>2, <1>3, <1>4, <1>5, <1>6, Changes

LEMMA FitsStays ==
  ASSUME Types, Types', Steady, scale' = scale, NEW c \in RequestT, Fits(c)
  PROVE  Fits(c)'
<1>1. cserial \in Nat /\ cserial' \in Nat /\ c.n \in Nat
  BY DEF Types, TypeOK, RequestT
<1>2. /\ \A i, j \in DOMAIN c.heads : c.heads[i].head = c.heads[j].head => i = j
      /\ \A i \in DOMAIN c.heads :
           c.heads[i].scale = IF c.heads[i].enabled = 0 THEN NoScale ELSE WlFixed(scale)'
      /\ c.n <= cserial
      /\ c.n = cserial /\ verdict = "none" => Accurate(c)
  BY DEF Fits
<1>3. c.n <= cserial'
  BY <1>1, <1>2 DEF Steady
<1>4. ASSUME c.n = cserial', verdict' = "none"
      PROVE  Accurate(c)'
  <2>1. /\ UNCHANGED <<cserial, output, plugged>>
        /\ Overflow => Overflow'
        /\ verdict = "none"
    BY <1>1, <1>2, <1>4 DEF Steady
  <2>2. Accurate(c)
    BY <1>2, <1>4, <2>1
  <2> QED BY <2>1, <2>2 DEF Accurate
<1> QED BY <1>2, <1>3, <1>4 DEF Fits

\* What the client sends with the current serial is what the screens are.
LEMMA ConfigurationFits ==
  ASSUME Types, Fresh, Counted, Seen, Serials, Dones, serial # 0, heads # <<>>
  PROVE  Fits(Configuration)
<1> DEFINE c == Configuration
<1>1. /\ DOMAIN c.heads = DOMAIN heads /\ c.n = serial
      /\ \A i \in DOMAIN heads : c.heads[i] = Configure(heads[i])
  BY ConfigurationIs
<1>2. scale \in Int /\ serial \in Nat /\ cserial \in Nat
  BY BoundsAssumption DEF Types, TypeOK
<1>3. \A i \in DOMAIN heads :
        /\ heads[i] \in Entry /\ heads[i].enabled \in {0, 1}
        /\ c.heads[i].head = heads[i].head /\ c.heads[i].enabled = heads[i].enabled
        /\ heads[i].enabled = 0 => c.heads[i].scale = NoScale
        /\ heads[i].enabled = 1 => /\ c.heads[i].mode = heads[i].current_mode
                                   /\ c.heads[i].scale = WlFixed(scale)
  <2> SUFFICES ASSUME NEW i \in DOMAIN heads
               PROVE  /\ heads[i] \in Entry /\ heads[i].enabled \in {0, 1}
                      /\ c.heads[i].head = heads[i].head
                      /\ c.heads[i].enabled = heads[i].enabled
                      /\ heads[i].enabled = 0 => c.heads[i].scale = NoScale
                      /\ heads[i].enabled = 1 => /\ c.heads[i].mode = heads[i].current_mode
                                                 /\ c.heads[i].scale = WlFixed(scale)
    OBVIOUS
  <2>1. heads[i] \in Entry
    BY ElementOfSeq DEF Types, Connection
  <2>2. heads[i].enabled \in {0, 1}
    BY <2>1 DEF Entry, HeadInfo
  <2> QED BY <1>1, <1>2, <2>1, <2>2, ConfigureIs
<1> HIDE DEF c
<1>4. Listed /\ Named
  BY DEF Counted
<1>5. \A i, j \in DOMAIN c.heads : c.heads[i].head = c.heads[j].head => i = j
  BY <1>1, <1>3, <1>4 DEF Listed
<1>6. \A i \in DOMAIN c.heads :
        c.heads[i].scale = IF c.heads[i].enabled = 0 THEN NoScale ELSE WlFixed(scale)
  BY <1>1, <1>3
<1>7. c.n <= cserial
  BY <1>1 DEF Serials
<1>8. ASSUME c.n = cserial, verdict = "none"
      PROVE  Accurate(c)
  <2>1. unannounced = {}
    BY DEF Serials
  <2>2. \A j \in DOMAIN events : events[j].kind # "done"
    <3>1. \A j \in DOMAIN events : events[j].n \in Nat
      BY Here DEF EventT
    <3> QED BY <1>1, <1>2, <1>8, <3>1 DEF Dones
  <2>3. \A i \in DOMAIN events : events[i].kind \notin AboutHead
    BY <2>1, <2>2 DEF Dones
  <2>4. \A k \in AboutHead : \A h : ~About(events, k, h)
    BY <2>3 DEF About
  <2>5. ASSUME NEW i \in DOMAIN heads
        PROVE  /\ heads[i].enabled = output[heads[i].head].enabled
               /\ heads[i].enabled = 1 =>
                    heads[i].current_mode = output[heads[i].head].mode
    <3>1. /\ ~About(events, "enabled", heads[i].head)
          /\ ~About(events, "current_mode", heads[i].head)
      BY <2>4 DEF AboutHead
    <3>2. Copied
      BY <1>8 DEF Seen
    <3> QED BY <3>1, <3>2 DEF Copied, Shows
  <2>6. ASSUME ~Overflow, NEW h \in plugged
        PROVE  \E i \in DOMAIN heads : heads[i].head = h
    <3>1. bound # 0
      BY DEF Fresh
    <3>2. h \in announced
      BY <1>4, <2>1, <3>1 DEF Named
    <3>3. ~About(events, "head", h)
      BY <2>4 DEF AboutHead
    <3> QED BY <1>4, <2>6, <3>2, <3>3 DEF Listed
  <2>7. \A i \in DOMAIN c.heads :
          /\ c.heads[i].enabled = output[c.heads[i].head].enabled
          /\ c.heads[i].enabled = 1 => c.heads[i].mode = output[c.heads[i].head].mode
    BY <1>1, <1>3, <2>5
  <2>8. ~Overflow => \A h \in plugged : \E i \in DOMAIN c.heads : c.heads[i].head = h
    BY <1>1, <1>3, <2>6
  <2> QED BY <2>7, <2>8 DEF Accurate
<1>9. Fits(c)
  BY <1>5, <1>6, <1>7, <1>8 DEF Fits
<1> QED BY <1>9 DEF c

LEMMA ConfigsInit == Init => Configs
<1> SUFFICES ASSUME Init PROVE Configs
  OBVIOUS
<1>1. requests = <<>> /\ conf = NoConf /\ pc = "start"
  BY DEF Init
<1>2. DOMAIN requests = {}
  BY <1>1
<1> QED BY <1>1, <1>2 DEF Configs, Mentions

LEMMA ConfigsCall ==
  ASSUME Types, Types', Fresh, Counted, Seen, Serials, Dones, Configs, configure_output_scale
  PROVE  Configs'
<1>1. UNCHANGED <<scale, cserial, output, plugged, announced, verdict, conf>>
  BY CallsLeave
<1>2. Steady
  BY <1>1 DEF Steady, Overflow
<1>3. ASSUME NEW i \in DOMAIN requests', requests'[i].kind = "apply"
      PROVE  /\ Fits(requests[i])'
             /\ Mentions(requests, "apply") \/ scale > 0
  <2>1. requests \in Seq(RequestT) /\ requests' \in Seq(RequestT)
    BY DEF Types, Connection
  <2>2. PICK c \in RequestT : c = requests'[i]
    BY <2>1, ElementOfSeq
  <2>3. Fits(c) /\ (Mentions(requests, "apply") \/ scale > 0)
    <3>1. CASE i \in DOMAIN requests /\ c = requests[i]
      BY <1>3, <2>2, <3>1 DEF Configs, Mentions
    <3>2. CASE SendConfiguration /\ c = Configuration
      <4>1. serial # 0 /\ heads # <<>> /\ pc = "heads"
        BY <3>2 DEF SendConfiguration, Ends
      <4>2. Fits(Configuration)
        BY <4>1, ConfigurationFits
      <4>3. scale > 0
        BY <4>1 DEF Configs
      <4> QED BY <3>2, <4>2, <4>3
    <3>3. CASE requests' = requests
      BY <1>3, <2>2, <3>1, <3>3
    <3>4. ASSUME NEW q \in Seq(RequestT), requests' = requests \o q,
                 \A j \in DOMAIN q :
                   q[j].kind = "apply" => SendConfiguration /\ q[j] = Configuration
          PROVE  \/ i \in DOMAIN requests /\ c = requests[i]
                 \/ SendConfiguration /\ c = Configuration
      <4>1. \/ i \in DOMAIN requests /\ requests'[i] = requests[i]
            \/ i - Len(requests) \in DOMAIN q /\ requests'[i] = q[i - Len(requests)]
        BY <2>1, <3>4, JoinOf
      <4> QED BY <1>3, <2>2, <3>4, <4>1
    <3> QED BY <3>1, <3>2, <3>3, <3>4, Requested
  <2>4. Fits(c)'
    BY <1>1, <1>2, <2>3, FitsStays
  <2> QED BY <2>2, <2>3, <2>4 DEF Fits, Accurate
<1>4. conf' # NoConf => Fits(conf)'
  <2>1. conf' = conf
    BY <1>1
  <2>2. PICK c \in RequestT : c = conf
    BY DEF Types, Connection
  <2>3. conf # NoConf => Fits(c)
    BY <2>2 DEF Configs
  <2>4. conf # NoConf => Fits(c)'
    BY <1>1, <1>2, <2>3, FitsStays
  <2> QED BY <2>1, <2>2, <2>4 DEF Fits, Accurate
<1>5. ASSUME pc' \notin {"start", "returned"}
      PROVE  scale > 0
  <2>1. ~(NothingAsked \/ ConnectFails \/ NoManager \/ NoHeads \/ Finish)
    BY <1>5 DEF NothingAsked, ConnectFails, NoManager, NoHeads, Finish, Return
  <2>2. scale > 0 \/ pc \notin {"start", "returned"}
    BY <2>1 DEF configure_output_scale, Connect, ReadHeads, SendConfiguration, Ends
  <2> QED BY <2>2 DEF Configs
<1>6. Mentions(requests', "apply") => scale > 0
  BY <1>3 DEF Mentions, Configs
<1>7. conf' # NoConf => scale > 0
  BY <1>1 DEF Configs
<1> QED BY <1>1, <1>3, <1>4, <1>5, <1>6, <1>7 DEF Configs

LEMMA ConfigsServe ==
  ASSUME Types, Types', Configs, Compositor \/ Outside
  PROVE  Configs'
<1>1. UNCHANGED <<scale, pc>>
  BY Serves
<1>2. Steady
  BY SteadyServe
<1>3. requests \in Seq(RequestT) /\ requests' \in Seq(RequestT)
  BY DEF Types, Connection
<1>4. UNCHANGED requests \/ (requests # <<>> /\ requests' = Tail(requests))
  BY Takes
<1>5. ASSUME NEW i \in DOMAIN requests', requests'[i].kind = "apply"
      PROVE  Fits(requests[i])' /\ Mentions(requests, "apply")
  <2>1. PICK c \in RequestT : c = requests'[i]
    BY <1>3, ElementOfSeq
  <2>2. \E j \in DOMAIN requests : requests[j] = c
    BY <1>3, <1>4, <2>1, RestOf
  <2>3. Fits(c) /\ Mentions(requests, "apply")
    BY <1>5, <2>1, <2>2 DEF Configs, Mentions
  <2>4. Fits(c)'
    BY <1>1, <1>2, <2>3, FitsStays
  <2> QED BY <2>1, <2>3, <2>4 DEF Fits, Accurate
<1>6. ASSUME conf' # NoConf
      PROVE  Fits(conf)' /\ (Mentions(requests, "apply") \/ conf # NoConf)
  <2>1. PICK c \in RequestT : c = conf'
    BY DEF Types, Connection
  <2>2. Fits(c) /\ (Mentions(requests, "apply") \/ conf # NoConf)
    <3>1. CASE conf' = conf
      BY <1>6, <2>1, <3>1 DEF Configs
    <3>2. CASE conf' = Head(requests) /\ Head(requests).kind = "apply" /\ requests # <<>>
      <4>1. 1 \in DOMAIN requests /\ Head(requests) = requests[1]
        BY <1>3, <3>2, RestOf
      <4> QED BY <2>1, <3>2, <4>1 DEF Configs, Mentions
    <3> QED BY <3>1, <3>2, Judges
  <2>3. Fits(c)'
    BY <1>1, <1>2, <2>2, FitsStays
  <2> QED BY <2>1, <2>2, <2>3 DEF Fits, Accurate
<1>7. Mentions(requests', "apply") => Mentions(requests, "apply")
  BY <1>5 DEF Mentions
<1> QED BY <1>1, <1>5, <1>6, <1>7 DEF Configs

LEMMA ConfigsRead ==
  ASSUME Types, Types', Configs, Dispatch
  PROVE  Configs'
<1>1. UNCHANGED <<scale, pc, cserial, output, plugged, announced, verdict, conf>>
  BY Reads
<1>2. Steady
  BY <1>1 DEF Steady, Overflow
<1>3. ASSUME NEW i \in DOMAIN requests', requests'[i].kind = "apply"
      PROVE  Fits(requests[i])'
  <2>1. i \in DOMAIN requests /\ requests'[i] = requests[i]
    BY <1>3, PostsNoApply
  <2>2. PICK c \in RequestT : c = requests[i]
    BY <2>1, ElementOfSeq DEF Types, Connection
  <2>3. Fits(c)
    BY <1>3, <2>1, <2>2 DEF Configs
  <2>4. Fits(c)'
    BY <1>1, <1>2, <2>3, FitsStays
  <2> QED BY <2>1, <2>2, <2>4 DEF Fits, Accurate
<1>4. conf' # NoConf => Fits(conf)'
  <2>1. PICK c \in RequestT : c = conf
    BY DEF Types, Connection
  <2>2. conf # NoConf => Fits(c)'
    BY <1>1, <1>2, <2>1, FitsStays DEF Configs
  <2> QED BY <1>1, <2>1, <2>2 DEF Fits, Accurate
<1>5. Mentions(requests', "apply") => Mentions(requests, "apply")
  BY PostsNoApply
<1> QED BY <1>1, <1>3, <1>4, <1>5 DEF Configs

-----------------------------------------------------------------------------
(* Why a connection ends. *)

Honest ==
  /\ broken => fault # "none"
  /\ \A i \in DOMAIN events :
       /\ events[i].kind = "error" => fault # "none"
       /\ events[i].kind # "introduced in 5"
  /\ fault = "protocol" => Overflow \/ WlFixed(scale) = 0

LEMMA HonestInit == Init => Honest
<1> SUFFICES ASSUME Init PROVE Honest
  OBVIOUS
<1>1. events = <<>> /\ broken = FALSE /\ fault = "none"
  BY DEF Init
<1>2. DOMAIN events = {}
  BY <1>1
<1> QED BY <1>1, <1>2 DEF Honest

\* A compositor that has closed the connection does nothing more.
LEMMA Alive ==
  ASSUME Compositor \/ Outside
  PROVE  fault = "none"
<1>1. ServeRegistry \/ ServeSync \/ ServeBind \/ ServeApply => fault = "none"
  BY DEF ServeRegistry, ServeSync, ServeBind, ServeApply, Serving
<1>2. Cancel \/ Omitted \/ Fail => fault = "none"
  BY DEF Cancel, Omitted, Fail, Applying, Answering
<1>3. \A m \in Modes : Succeed(m) => fault = "none"
  BY DEF Succeed, Applying, Answering
<1>4. \A h \in Heads : AnnounceHead(h) => fault = "none"
  BY DEF AnnounceHead
<1>5. \A h \in Heads : Plug(h) \/ Unplug(h) => fault = "none"
  BY DEF Plug, Unplug, Change
<1>6. \A h \in Heads : Toggle(h) => fault = "none"
  BY DEF Toggle, Change
<1>7. \A h \in Heads, m \in Modes : SwitchMode(h, m) => fault = "none"
  BY DEF SwitchMode, Change
<1>8. Die => fault = "none"
  BY DEF Die
<1> QED BY <1>1, <1>2, <1>3, <1>4, <1>5, <1>6, <1>7, <1>8 DEF Compositor, Outside

\* What it may close the connection for.
LEMMA Complains ==
  ASSUME Types, Compositor \/ Outside, fault' = "protocol"
  PROVE  \/ ServeBind /\ Head(requests).n > offered
         \/ /\ ServeApply /\ UNCHANGED announced
            /\ \/ ALREADY_CONFIGURED_HEAD(Head(requests))
               \/ INVALID_MODE(Head(requests)) \/ INVALID_SCALE(Head(requests))
         \/ Omitted /\ UNCHANGED announced
<1>1. fault = "none"
  BY Alive
<1>2. ~(ServeRegistry \/ ServeSync)
  BY <1>1 DEF ServeRegistry, ServeSync
<1>3. ~(Cancel \/ Fail)
  BY <1>1 DEF Cancel, Fail, Applying
<1>4. ASSUME NEW m \in Modes, Succeed(m)
      PROVE  FALSE
  BY <1>1, <1>4 DEF Succeed, Applying
<1>5. ASSUME NEW h \in Heads, AnnounceHead(h)
      PROVE  FALSE
  BY <1>1, <1>5 DEF AnnounceHead
<1>6. ASSUME NEW h \in Heads, Plug(h) \/ Unplug(h)
      PROVE  FALSE
  BY <1>1, <1>6 DEF Plug, Unplug, Change
<1>7. ASSUME NEW h \in Heads, Toggle(h)
      PROVE  FALSE
  BY <1>1, <1>7 DEF Toggle, Change
<1>8. ASSUME NEW h \in Heads, NEW m \in Modes, SwitchMode(h, m)
      PROVE  FALSE
  BY <1>1, <1>8 DEF SwitchMode, Change
<1>9. ~Die
  BY <1>1 DEF Die, Close
<1>10. CASE ServeBind
  BY <1>1, <1>10 DEF ServeBind
<1>11. CASE ServeApply
  BY <1>1, <1>11 DEF ServeApply
<1>12. CASE Omitted
  BY <1>12 DEF Omitted, Answering
<1> QED
  BY <1>2, <1>3, <1>4, <1>5, <1>6, <1>7, <1>8, <1>9, <1>10, <1>11, <1>12
  DEF Compositor, Outside

LEMMA HonestServe ==
  ASSUME Types, Tokens, Configs, Honest, Compositor \/ Outside
  PROVE  Honest'
<1>1. fault = "none" /\ UNCHANGED <<broken, scale>>
  BY Alive, Serves
<1>2. ~broken
  BY <1>1 DEF Honest
<1>3. bound < 5
  <2>1. bound = 0 \/ (bound = manager /\ manager <= 4)
    BY DEF Tokens
  <2> QED BY <2>1 DEF Types, TypeOK
<1>4. ASSUME NEW i \in DOMAIN events'
      PROVE  /\ events'[i].kind = "error" => fault' # "none"
             /\ events'[i].kind # "introduced in 5"
  <2>1. CASE i \in DOMAIN events /\ events'[i] = events[i]
    BY <1>1, <2>1 DEF Honest
  <2>2. CASE ~(i \in DOMAIN events /\ events'[i] = events[i])
    <3>1. News(events'[i])
      BY <2>2, Arrives
    <3>2. ~(bound >= 5)
      BY <1>3 DEF Types, TypeOK
    <3> QED BY <3>1, <3>2 DEF News
  <2> QED BY <2>1, <2>2
<1>5. ASSUME fault' = "protocol"
      PROVE  Overflow' \/ WlFixed(scale)' = 0
  <2>1. requests \in Seq(RequestT)
    BY DEF Types, Connection
  <2>2. CASE ServeBind /\ Head(requests).n > offered
    <3>1. requests # <<>> /\ Head(requests).kind = "bind"
      BY <2>2 DEF ServeBind, Serving
    <3>2. 1 \in DOMAIN requests /\ Head(requests) = requests[1]
      BY <2>1, <3>1, RestOf
    <3>3. Head(requests).n = manager /\ manager <= offered
      BY <3>1, <3>2 DEF Tokens
    <3>4. manager \in Nat /\ offered \in Nat
      BY BoundsAssumption DEF Types, TypeOK
    <3> QED BY <2>2, <3>3, <3>4
  <2>3. CASE /\ ServeApply /\ UNCHANGED announced
             /\ \/ ALREADY_CONFIGURED_HEAD(Head(requests))
                \/ INVALID_MODE(Head(requests)) \/ INVALID_SCALE(Head(requests))
    <3> DEFINE c == Head(requests)
    <3>1. requests # <<>> /\ c.kind = "apply"
      BY <2>3 DEF ServeApply, Serving
    <3>2. 1 \in DOMAIN requests /\ c = requests[1] /\ c \in RequestT
      BY <2>1, <3>1, RestOf
    <3>3. Fits(c) /\ scale > 0
      BY <3>1, <3>2 DEF Configs, Mentions
    <3> HIDE DEF c
    <3>4. ~ALREADY_CONFIGURED_HEAD(c)
      BY <3>3 DEF ALREADY_CONFIGURED_HEAD, Fits
    <3>5. \A i \in DOMAIN c.heads : c.heads[i] \in ConfHead
      <4>1. c.heads \in Seq(ConfHead)
        BY <3>2 DEF RequestT
      <4> QED BY <4>1, ElementOfSeq
    <3>6. ~INVALID_MODE(c)
      BY <3>5 DEF INVALID_MODE, ConfHead
    <3>7. INVALID_SCALE(c) => WlFixed(scale) = 0
      <4>1. WlFixed(scale) \in Nat
        <5>1. scale \in Int
          BY BoundsAssumption DEF Types, TypeOK
        <5> QED BY <3>3, <5>1, WlFixedType
      <4>2. \A i \in DOMAIN c.heads : c.heads[i].scale \in {NoScale, WlFixed(scale)}
        BY <3>3 DEF Fits
      <4> QED BY <4>1, <4>2 DEF INVALID_SCALE
    <3>8. INVALID_SCALE(c)
      BY <2>3, <3>4, <3>6 DEF c
    <3> QED BY <1>1, <3>7, <3>8
  <2>4. CASE Omitted /\ UNCHANGED announced
    <3>1. /\ conf # NoConf /\ verdict = "none" /\ conf.n = cserial
          /\ UNCONFIGURED_HEAD(conf)
      BY <2>4 DEF Omitted, Answering
    <3>2. Accurate(conf)
      BY <3>1 DEF Configs, Fits
    <3>3. Overflow
      BY <3>1, <3>2 DEF Accurate, UNCONFIGURED_HEAD
    <3> QED BY <2>4, <3>3 DEF Overflow
  <2> QED BY <1>5, <2>2, <2>3, <2>4, Complains
<1> QED BY <1>1, <1>2, <1>4, <1>5 DEF Honest

LEMMA HonestRead ==
  ASSUME Types, Honest, Dispatch
  PROVE  Honest'
<1>1. UNCHANGED <<fault, announced, scale>>
  BY Reads
<1>2. broken' => fault # "none"
  <2>1. CASE Head(events).kind \in {"error", "introduced in 5"}
    <3>1. events[1].kind \in {"error", "introduced in 5"} /\ 1 \in DOMAIN events
      BY <2>1, Read
    <3> QED BY <3>1 DEF Honest
  <2>2. CASE Head(events).kind \notin {"error", "introduced in 5"}
    BY <2>2, Reads DEF Honest
  <2> QED BY <2>1, <2>2
<1>3. ASSUME NEW i \in DOMAIN events'
      PROVE  /\ events'[i].kind = "error" => fault # "none"
             /\ events'[i].kind # "introduced in 5"
  <2>1. i + 1 \in DOMAIN events /\ events'[i] = events[i + 1]
    BY Read
  <2> QED BY <2>1 DEF Honest
<1>4. fault = "protocol" => Overflow' \/ WlFixed(scale)' = 0
  BY <1>1 DEF Honest, Overflow
<1> QED BY <1>1, <1>2, <1>3, <1>4 DEF Honest

-----------------------------------------------------------------------------
(* The invariant and what follows from it. *)

ScaleInv ==
  /\ Types /\ Tokens /\ Fresh /\ Counted /\ Seen /\ Serials /\ Dones /\ Configs /\ Honest

LEMMA ScaleInvInit == Init => ScaleInv
  BY TypesInit, TokensInit, FreshInit, CountedInit, SerialsInit, ConfigsInit, HonestInit
  DEF ScaleInv

LEMMA ScaleInvStep == ScaleInv /\ [Next]_vars => ScaleInv'
<1> SUFFICES ASSUME ScaleInv, [Next]_vars PROVE ScaleInv'
  OBVIOUS
<1>1. /\ Types /\ Tokens /\ Fresh /\ Counted /\ Seen /\ Serials /\ Dones /\ Configs
      /\ Honest
  BY DEF ScaleInv
<1>2. Types' /\ Tokens'
  BY <1>1, TypesStep, TokensStep
<1>3. CASE configure_output_scale
  <2>1. Fresh' /\ Serials' /\ Dones'
    BY <1>1, <1>3, FreshCall, SerialsCall
  <2>2. Counted' /\ Seen'
    BY <1>1, <1>3, CallsLeave, CountedCall
  <2>3. Configs'
    BY <1>1, <1>2, <1>3, ConfigsCall
  <2>4. Honest'
    <3>1. UNCHANGED <<broken, fault, events, announced, scale>>
      BY <1>3, CallsLeave
    <3> QED BY <1>1, <3>1 DEF Honest, Overflow
  <2> QED BY <1>2, <2>1, <2>2, <2>3, <2>4 DEF ScaleInv
<1>4. CASE Dispatch
  <2>1. Fresh' /\ Serials' /\ Dones'
    BY <1>1, <1>4, FreshRead, SerialsRead
  <2>2. Counted' /\ Seen'
    BY <1>1, <1>4, CountedRead
  <2>3. Configs'
    BY <1>1, <1>2, <1>4, ConfigsRead
  <2>4. Honest'
    BY <1>1, <1>4, HonestRead
  <2> QED BY <1>2, <2>1, <2>2, <2>3, <2>4 DEF ScaleInv
<1>5. CASE Compositor \/ Outside
  <2>1. Fresh'
    BY <1>1, <1>5, FreshServe
  <2>2. Serials' /\ Dones'
    BY <1>1, <1>2, <1>5, SerialsServe
  <2>3. Counted' /\ Seen'
    BY <1>1, <1>2, <1>5, <2>1, CountedServe
  <2>4. Configs'
    BY <1>1, <1>2, <1>5, ConfigsServe
  <2>5. Honest'
    BY <1>1, <1>5, HonestServe
  <2> QED BY <1>2, <2>1, <2>2, <2>3, <2>4, <2>5 DEF ScaleInv
<1>6. CASE UNCHANGED vars
  <2>1. /\ UNCHANGED <<pc, scale, manager, serial, heads, broken, requests, events>>
        /\ UNCHANGED <<plugged, output, cserial, bound, unannounced, announced, conf, fault,
                       verdict>>
    BY <1>6 DEF vars, client, compositor, screens
  <2>2. Fresh' /\ Serials' /\ Dones'
    BY <1>1, <2>1 DEF Fresh, Serials, Dones, Mentions
  <2>3. Counted' /\ Seen'
    BY <1>1, <2>1, CountedCall
  <2>4. Configs'
    BY <1>1, <2>1 DEF Configs, Fits, Accurate, Overflow, Mentions
  <2>5. Honest'
    BY <1>1, <2>1 DEF Honest, Overflow
  <2> QED BY <1>2, <2>2, <2>3, <2>4, <2>5 DEF ScaleInv
<1> QED BY <1>3, <1>4, <1>5, <1>6 DEF Next

LEMMA ScaleInvariance == Spec => []ScaleInv
  BY ScaleInvInit, ScaleInvStep, PTL DEF Spec

\* The compositor has no cause to close the connection on a client whose table holds
\* every screen and whose scale can be sent: every request that configure_output_scale
\* builds from S is in order, and nothing comes that the client cannot decode.
THEOREM NoCauseToClose == Spec => []NoProtocolError
<1>1. ScaleInv => NoProtocolError
  BY DEF ScaleInv, Honest, NoProtocolError, Overflow
<1> QED BY <1>1, ScaleInvariance, PTL

\* A step that succeeds applies a configuration that is accurate.
LEMMA SucceedIs ==
  ASSUME ScaleInv, NEW m \in Modes, Succeed(m), NEW h \in plugged
  PROVE  /\ output'[h].enabled = output[h].enabled /\ output'[h].mode = output[h].mode
         /\ output'[h].enabled = 1 => output'[h].scale = WlFixed(scale)
<1>1. Types /\ Configs
  BY DEF ScaleInv
<1>2. /\ conf # NoConf /\ verdict = "none" /\ conf.n = cserial /\ ~UNCONFIGURED_HEAD(conf)
      /\ h \in Heads /\ output'[h] = Configured(conf, h, m)
  BY <1>1, Succeeded DEF Types, TypeOK
<1>3. Fits(conf) /\ scale > 0 /\ Accurate(conf)
  BY <1>1, <1>2 DEF Configs, Fits
<1>4. PICK i \in DOMAIN conf.heads :
        /\ conf.heads[i].head = h /\ conf.heads[i] \in ConfHead
        /\ output'[h].enabled = conf.heads[i].enabled
        /\ output'[h].mode = IF conf.heads[i].enabled = 0 THEN output[h].mode
                             ELSE IF conf.heads[i].mode # NoMode THEN conf.heads[i].mode
                             ELSE IF output[h].mode = NoMode THEN NoMode ELSE <<h, m>>
        /\ conf.heads[i].enabled = 1 /\ conf.heads[i].scale # NoScale =>
             output'[h].scale = conf.heads[i].scale
  BY <1>1, <1>2, ConfiguredIs
<1>5. /\ conf.heads[i].enabled = output[h].enabled
      /\ conf.heads[i].enabled = 1 => conf.heads[i].mode = output[h].mode
  BY <1>3, <1>4 DEF Accurate
<1>6. conf.heads[i].enabled \in {0, 1}
  BY <1>4 DEF ConfHead
<1>7. conf.heads[i].enabled = 1 => conf.heads[i].scale = WlFixed(scale)
  BY <1>3 DEF Fits
<1>8. WlFixed(scale) # NoScale
  <2>1. scale \in Int
    BY <1>1, BoundsAssumption DEF Types, TypeOK
  <2>2. WlFixed(scale) \in Nat
    BY <1>3, <2>1, WlFixedType
  <2> QED BY <2>2 DEF NoScale
<1> QED BY <1>4, <1>5, <1>6, <1>7, <1>8

\* No other answer touches a screen.
LEMMA AnswerIs ==
  ASSUME ScaleInv, [Next]_vars, verdict' # verdict
  PROVE  \/ \E m \in Modes : Succeed(m)
         \/ output' = output /\ verdict' # "succeeded"
<1>1. Types
  BY DEF ScaleInv
<1>2. ~configure_output_scale /\ ~Dispatch /\ ~UNCHANGED vars
  BY CallsLeave, Reads DEF vars, compositor
<1>3. Compositor \/ Outside
  BY <1>2 DEF Next
<1>4. CASE Speaks
  <2>1. output' = output
    BY <1>1, <1>4, Spoken
  <2>2. verdict' # "succeeded"
    <3>1. ~(ServeRegistry \/ ServeSync \/ ServeApply)
      BY DEF ServeRegistry, ServeSync, ServeApply
    <3>2. ~(Omitted \/ Die \/ ServeBind)
      BY DEF Omitted, Die, ServeBind
    <3>3. CASE Cancel
      BY <3>3 DEF Cancel, Reply
    <3>4. CASE Fail
      BY <3>4 DEF Fail, Reply
    <3> QED BY <1>4, <3>1, <3>2, <3>3, <3>4 DEF Speaks
  <2> QED BY <2>1, <2>2
<1>5. ~Binds
  BY <1>1, Bound
<1>6. \A h \in Heads : ~AnnounceHead(h)
  BY <1>1, Announced
<1>7. \A q \in Seq(EventT) : ~Change(q)
  BY <1>1, Changed
<1> QED BY <1>1, <1>3, <1>4, <1>5, <1>6, <1>7, Changes

\* A configuration that is applied turns no screen on or off and changes no mode: what
\* configure_output_scale sends under the serial that the compositor still has is what
\* the screens are, however the events of the second round trip fell.
THEOREM ScreensStayAsTheyAre == Spec => OnlyScaleChanges
<1>1. ASSUME ScaleInv, [Next]_vars, verdict' # verdict, NEW h \in plugged
      PROVE  output'[h].enabled = output[h].enabled /\ output'[h].mode = output[h].mode
  BY <1>1, AnswerIs, SucceedIs
<1>2. ScaleInv /\ [Next]_vars =>
        [verdict' # verdict =>
           \A h \in plugged : /\ output'[h].enabled = output[h].enabled
                              /\ output'[h].mode = output[h].mode]_vars
  BY <1>1
<1> QED BY <1>2, ScaleInvariance, PTL DEF Spec, OnlyScaleChanges

\* "set the given scale on all enabled outputs" (glue.c:127): when a configuration
\* succeeds, every screen that is plugged in and on has the scale, also one that came
\* after S was filled.
THEOREM EveryScreenIsScaled == Spec => AllScaled
<1>1. ASSUME ScaleInv, [Next]_vars, verdict = "none", verdict' = "succeeded",
             NEW h \in plugged, output'[h].enabled = 1
      PROVE  output'[h].scale = WlFixed(scale)
  BY <1>1, AnswerIs, SucceedIs
<1>2. ScaleInv /\ [Next]_vars =>
        [verdict = "none" /\ verdict' = "succeeded" =>
           \A h \in plugged :
             output'[h].enabled = 1 => output'[h].scale = WlFixed(scale)]_vars
  BY <1>1
<1> QED BY <1>2, ScaleInvariance, PTL DEF Spec, AllScaled
=============================================================================
