---------------------------- MODULE OutputScale ----------------------------
(***************************************************************************)
(* pkg/binds/glue.c: configure_output_scale, the one exchange that the     *)
(* greeter has with a wlroots compositor before its window opens.  Three   *)
(* round trips: the registry, the heads, the configuration.  The first two *)
(* fill the static record S from events; the third sends back every head   *)
(* as S has it, with a scale.  Screens may come, go and change meanwhile,  *)
(* and the client may return from a round trip with half of a change read, *)
(* so it is the serial that must keep an old or half-read S from being     *)
(* applied.                                                                *)
(*                                                                         *)
(* The compositor is external: what the protocol header asks of it.  It    *)
(* sends the properties of one head in one fixed order, and of those that  *)
(* the client ignores only one.  The requests that build a configuration   *)
(* have no effect before the apply that follows them, so they are one      *)
(* message here.  Custom modes, and modes that disappear, are left out.    *)
(***************************************************************************)
EXTENDS Integers, Sequences, FiniteSets

CONSTANTS
  Heads,      \* head objects, numbered: a new one each time a screen is plugged in
  Modes,      \* the modes of a screen that has modes
  NoMode,     \* no mode is set; the screen has no modes
  NoHead,     \* an event that is about no head
  MAX_HEADS,  \* heads that S has room for
  MAX_MODES,  \* modes that S has room for, per head
  Versions,   \* of the manager that a compositor may offer; 0: it has none
  Scales,     \* of the config file, in units of 1/1024
  MaxSerial   \* bound: configurations that the compositor goes through

ASSUME HeadsAssumption ==
  /\ Heads \subseteq Nat /\ NoHead \notin Heads
  /\ Modes # {} /\ IsFiniteSet(Modes) /\ NoMode \notin Heads \X Modes

ASSUME BoundsAssumption ==
  /\ MAX_HEADS \in Nat \ {0} /\ MAX_MODES \in Nat /\ MaxSerial \in Nat \ {0}
  /\ Versions \subseteq Nat /\ Scales \subseteq Int

\* Modes belong to a head.
ModeOf(h) == {h} \X Modes

\* configure_output_scale and S
VARIABLES
  pc,             \* where it is; "registry", "heads" and "apply" are round trips
  scale,          \* its argument
  manager,        \* version of the manager it has bound; 0: S.manager is NULL
  serial,         \* S.serial
  heads,          \* S.heads[0 .. S.n_heads - 1]
  config_result,  \* S.config_result
  synced,         \* the callback of the round trip has come
  broken,         \* the connection is over: every call on it fails
  result          \* what it returned

\* the connection, one queue each way
VARIABLES requests, events

\* the compositor
VARIABLES
  offered,      \* the version of the manager that it offers
  plugged,      \* the heads that exist
  output,       \* output[h]: the state of the screen, once it is plugged in
  cserial,      \* serial of the current configuration
  bound,        \* version that the client has bound; 0: none yet
  unannounced,  \* heads that it is about to announce to the client
  announced,    \* head objects the client has been told of
  conf,         \* the configuration to be applied
  fault,        \* why it closed the connection
  verdict       \* its answer to the configuration

client     == <<pc, scale, manager, serial, heads, config_result, synced, broken, result>>
screens    == <<plugged, output, cserial>>
compositor == <<offered, screens, bound, unannounced, announced, conf, fault, verdict>>
vars       == <<client, requests, events, compositor>>

-----------------------------------------------------------------------------
\* The protocol.  Operators named Faulty... are variants of the definition that
\* follows them, each with one plausible bug; no specification uses them.

\* The events of each object, with the version that introduced them.
ManagerEvents == [head |-> 1, done |-> 1, finished |-> 1]

HeadEvents ==
  [name |-> 1, description |-> 1, physical_size |-> 1, mode |-> 1, enabled |-> 1,
   current_mode |-> 1, position |-> 1, transform |-> 1, scale |-> 1,
   head_finished |-> 1, make |-> 2, model |-> 2, serial_number |-> 2,
   adaptive_sync |-> 4]

ModeEvents == [size |-> 1, refresh |-> 1, preferred |-> 1, mode_finished |-> 1]

ConfigurationEvents == [succeeded |-> 1, failed |-> 1, cancelled |-> 1]

\* What libwayland can decode with the tables that the client is built with.
Known ==
  UNION {DOMAIN ManagerEvents, DOMAIN HeadEvents, DOMAIN ModeEvents,
         DOMAIN ConfigurationEvents}

InterfaceVersion == 4

EventKind ==
  Known \union {"global", "callback", "error", "introduced in 5"}

Event(k) == [kind |-> k, head |-> NoHead, mode |-> NoMode, n |-> 0]

HeadEvent(k, h) == [Event(k) EXCEPT !.head = h]

Numbered(k, n) == [Event(k) EXCEPT !.n = n]

\* What one configuration says of one head; NoMode and NoScale are "not set".
NoScale == -1

enable_head(h)     == [head |-> h, enabled |-> 1, mode |-> NoMode, scale |-> NoScale]
disable_head(h)    == [head |-> h, enabled |-> 0, mode |-> NoMode, scale |-> NoScale]
set_mode(ch, mode) == [ch EXCEPT !.mode = mode]
set_scale(ch, s)   == [ch EXCEPT !.scale = s]

Request(k) == [kind |-> k, n |-> 0, heads |-> <<>>]

create_configuration(s) == [kind |-> "configuration", n |-> s, heads |-> <<>>]

\* With what enable_head and disable_head have said of each head.
apply(config, hs) == [config EXCEPT !.kind = "apply", !.heads = hs]

ALREADY_CONFIGURED_HEAD(c) ==
  \E i, j \in DOMAIN c.heads : i # j /\ c.heads[i].head = c.heads[j].head

UNCONFIGURED_HEAD(c) == plugged \ {c.heads[i].head : i \in DOMAIN c.heads} # {}

INVALID_MODE(c) ==
  \E i \in DOMAIN c.heads :
    /\ c.heads[i].mode # NoMode
    /\ c.heads[i].mode \notin ModeOf(c.heads[i].head)

INVALID_SCALE(c) ==
  \E i \in DOMAIN c.heads : c.heads[i].scale \notin {NoScale} \union (Nat \ {0})

\* wl_fixed_from_double: to the nearest 1/256, a tie to the even one.
WlFixed(s) ==
  LET q == s \div 4
      r == s % 4
  IN  IF r > 2 \/ (r = 2 /\ q % 2 = 1) THEN q + 1 ELSE q

-----------------------------------------------------------------------------
NoConf == Request("none")

\* A screen that nobody has scaled yet.
Screen(h, on, m) ==
  [enabled |-> IF on THEN 1 ELSE 0,
   mode    |-> IF m = NoMode THEN NoMode ELSE <<h, m>>,
   scale   |-> 256]

\* With each of its heads, the set has all that are older.  Those that the client
\* finds when it binds are numbered in the order in which it is told of them.
InOrder(hs) == \A h \in hs, older \in Heads : older < h => older \in hs

\* The mode that screens are found in may as well be always the same.
FirstMode == CHOOSE m \in Modes : TRUE

Output == [enabled: {0, 1}, mode: (Heads \X Modes) \union {NoMode},
           scale: Nat]

HeadInfo == [head: Heads, enabled: {0, 1}, n_modes: Nat,
             current_mode: (Heads \X Modes) \union {NoMode}]

TypeOK ==
  /\ pc \in {"start", "registry", "heads", "apply", "returned"}
  /\ scale \in Scales
  /\ manager \in Nat /\ serial \in Nat /\ bound \in Nat /\ cserial \in Nat
  /\ heads \in Seq(HeadInfo) /\ Len(heads) <= MAX_HEADS
  /\ \A i \in DOMAIN heads : heads[i].n_modes <= MAX_MODES
  /\ config_result \in {-1, 0, 1} /\ result \in -2..1
  /\ synced \in BOOLEAN /\ broken \in BOOLEAN
  /\ offered \in Versions
  /\ plugged \subseteq Heads /\ unannounced \subseteq plugged /\ announced \subseteq Heads
  /\ output \in [Heads -> Output]
  /\ fault \in {"none", "died", "protocol"}
  /\ verdict \in {"none", "succeeded", "failed", "cancelled"}

Init ==
  /\ pc = "start" /\ scale \in Scales
  /\ manager = 0 /\ serial = 0 /\ heads = <<>> /\ config_result = 0
  /\ synced = FALSE /\ broken = FALSE /\ result = 0
  /\ requests = <<>> /\ events = <<>>
  /\ offered \in Versions
  /\ plugged \in SUBSET Heads /\ InOrder(plugged)
  /\ \E on \in SUBSET Heads, m \in {FirstMode, NoMode} :
       output = [h \in Heads |-> Screen(h, h \in on, m)]
  /\ cserial = 1 /\ bound = 0 /\ unannounced = {} /\ announced = {}
  /\ conf = NoConf /\ fault = "none" /\ verdict = "none"

-----------------------------------------------------------------------------
\* The compositor (external)

Send(es) == events' = events \o es

Done(s) == Numbered("done", s)

\* The connection ends, and the client will read that it has.
Close(why) ==
  /\ fault' = why
  /\ Send(<<Event("error")>>)

\* All that the client is told of a new head, and what it has no handler for.
Announce(h) ==
  LET o     == output[h]
      modes == IF o.mode = NoMode THEN {} ELSE Modes
  IN  <<HeadEvent("head", h)>>
      \o [i \in 1..Cardinality(modes) |-> HeadEvent("mode", h)]
      \o <<[HeadEvent("enabled", h) EXCEPT !.n = o.enabled]>>
      \o (IF o.enabled = 1 /\ o.mode # NoMode
          THEN <<[HeadEvent("current_mode", h) EXCEPT !.mode = o.mode]>> ELSE <<>>)
      \o (IF bound >= HeadEvents.adaptive_sync
          THEN <<HeadEvent("adaptive_sync", h)>> ELSE <<>>)
      \o (IF bound >= 5 THEN <<HeadEvent("introduced in 5", h)>> ELSE <<>>)

Serving(k) ==
  /\ fault = "none" /\ unannounced = {}
  /\ requests # <<>> /\ Head(requests).kind = k
  /\ requests' = Tail(requests)
  /\ UNCHANGED <<client, screens, offered>>

ServeRegistry ==
  /\ Serving("get_registry")
  /\ Send(IF offered = 0 THEN <<>> ELSE <<Numbered("global", offered)>>)
  /\ UNCHANGED <<bound, unannounced, announced, conf, fault, verdict>>

ServeSync ==
  /\ Serving("sync")
  /\ Send(<<Event("callback")>>)
  /\ UNCHANGED <<bound, unannounced, announced, conf, fault, verdict>>

ServeBind ==
  /\ Serving("bind")
  /\ IF Head(requests).n > offered
     THEN /\ Close("protocol")
          /\ UNCHANGED <<bound, unannounced>>
     ELSE /\ bound' = Head(requests).n
          /\ unannounced' = plugged
          /\ Send(IF plugged = {} THEN <<Done(cserial)>> ELSE <<>>)
          /\ UNCHANGED fault
  /\ UNCHANGED <<announced, conf, verdict>>

\* Binding is answered with every head, one after the other, and one done.
AnnounceHead(h) ==
  /\ fault = "none"
  /\ h \in unannounced /\ \A other \in unannounced : h <= other
  /\ unannounced' = unannounced \ {h}
  /\ announced' = announced \union {h}
  /\ Send(Announce(h) \o (IF unannounced = {h} THEN <<Done(cserial)>> ELSE <<>>))
  /\ UNCHANGED <<client, requests, screens, offered, bound, conf, fault, verdict>>

ServeApply ==
  /\ Serving("apply")
  /\ LET c == Head(requests)
     IN  IF ALREADY_CONFIGURED_HEAD(c) \/ INVALID_MODE(c) \/ INVALID_SCALE(c)
         THEN /\ Close("protocol")
              /\ UNCHANGED conf
         ELSE /\ conf' = c
              /\ UNCHANGED <<events, fault>>
  /\ UNCHANGED <<bound, unannounced, announced, verdict>>

\* A head that the configuration enables without a mode gets the mode m.
Configured(c, h, m) ==
  LET o == output[h]
      e == c.heads[CHOOSE i \in DOMAIN c.heads : c.heads[i].head = h]
  IN  IF e.enabled = 0
      THEN [o EXCEPT !.enabled = 0]
      ELSE [enabled |-> 1,
            mode    |-> IF e.mode # NoMode THEN e.mode
                        ELSE IF o.mode = NoMode THEN NoMode ELSE <<h, m>>,
            scale   |-> IF e.scale = NoScale THEN o.scale ELSE e.scale]

Reply(v) == verdict' = v

\* Applying may take its time: replies to later requests can overtake it.
Answering ==
  /\ fault = "none" /\ unannounced = {} /\ conf # NoConf /\ verdict = "none"
  /\ UNCHANGED <<client, requests, offered, plugged, bound, unannounced, announced, conf>>

Cancel ==
  /\ Answering
  /\ conf.n # cserial
  /\ Reply("cancelled")
  /\ Send(<<Event("cancelled")>>)
  /\ UNCHANGED <<output, cserial, fault>>

Omitted ==
  /\ Answering
  /\ conf.n = cserial
  /\ UNCONFIGURED_HEAD(conf)
  /\ Close("protocol")
  /\ UNCHANGED <<output, cserial, verdict>>

Applying ==
  /\ Answering
  /\ conf.n = cserial
  /\ ~UNCONFIGURED_HEAD(conf)
  /\ UNCHANGED fault

Succeed(m) ==
  /\ Applying
  /\ Reply("succeeded")
  /\ output' = [h \in Heads |-> IF h \in plugged THEN Configured(conf, h, m)
                                                ELSE output[h]]
  /\ cserial' = IF output' = output THEN cserial ELSE cserial + 1
  /\ Send(<<Event("succeeded")>>
          \o IF output' = output THEN <<>> ELSE <<Done(cserial + 1)>>)

Fail ==
  /\ Applying
  /\ Reply("failed")
  /\ Send(<<Event("failed")>>)
  /\ UNCHANGED <<output, cserial>>

\* Something about the screens changes, and a client that has bound is told.
Change(es) ==
  /\ fault = "none" /\ unannounced = {} /\ pc # "returned"
  /\ cserial < MaxSerial
  /\ cserial' = cserial + 1
  /\ Send(IF bound = 0 THEN <<>> ELSE es \o <<Done(cserial + 1)>>)
  /\ UNCHANGED <<client, requests, offered, bound, unannounced, conf, fault, verdict>>

Plug(h) ==
  /\ h \notin plugged \union announced
  /\ InOrder(plugged \union announced \union {h})
  /\ plugged' = plugged \union {h}
  /\ announced' = IF bound = 0 THEN announced ELSE announced \union {h}
  /\ Change(Announce(h))
  /\ UNCHANGED output

Unplug(h) ==
  /\ h \in plugged
  /\ plugged' = plugged \ {h}
  /\ Change(<<HeadEvent("head_finished", h)>>)
  /\ UNCHANGED <<output, announced>>

ModeEvent(h) == [HeadEvent("current_mode", h) EXCEPT !.mode = output'[h].mode]

Toggle(h) ==
  /\ h \in plugged
  /\ output' = [output EXCEPT ![h].enabled = 1 - @]
  /\ Change(<<[HeadEvent("enabled", h) EXCEPT !.n = output'[h].enabled]>>
            \o IF output'[h].enabled = 1 /\ output[h].mode # NoMode
               THEN <<ModeEvent(h)>> ELSE <<>>)
  /\ UNCHANGED <<plugged, announced>>

SwitchMode(h, m) ==
  /\ h \in plugged
  /\ output[h].enabled = 1 /\ output[h].mode \notin {NoMode, <<h, m>>}
  /\ output' = [output EXCEPT ![h].mode = <<h, m>>]
  /\ Change(<<ModeEvent(h)>>)
  /\ UNCHANGED <<plugged, announced>>

Die ==
  /\ fault = "none" /\ pc # "returned"
  /\ Close("died")
  /\ UNCHANGED <<client, requests, offered, screens, bound, unannounced, announced,
                 conf, verdict>>

Compositor ==
  \/ ServeRegistry \/ ServeSync \/ ServeBind \/ ServeApply
  \/ \E h \in Heads : AnnounceHead(h)
  \/ Cancel \/ Omitted \/ Fail \/ \E m \in Modes : Succeed(m)

Outside ==
  \/ \E h \in Heads : Plug(h) \/ Unplug(h) \/ Toggle(h)
  \/ \E h \in Heads, m \in Modes : SwitchMode(h, m)
  \/ Die

-----------------------------------------------------------------------------
\* The client: event handlers

S == <<manager, serial, heads, config_result>>

InRoundtrip == pc \in {"registry", "heads", "apply"}

\* wl_display_roundtrip dispatches events until its callback is among them, and
\* the rest of what it has read by then.
Dispatching(k) ==
  /\ InRoundtrip /\ ~broken
  /\ events # <<>> /\ Head(events).kind = k
  /\ events' = Tail(events)
  /\ UNCHANGED <<pc, scale, result, compositor>>

Post(rs) == requests' = IF broken THEN requests ELSE requests \o rs

\* Any version that the compositor offers is bound.
FaultyVersion(ver) == ver

Version(ver) == IF ver < 4 THEN ver ELSE 4

reg_global ==
  /\ Dispatching("global")
  /\ manager' = Version(Head(events).n)
  /\ Post(<<[Request("bind") EXCEPT !.n = Version(Head(events).n)]>>)
  /\ UNCHANGED <<serial, heads, config_result, synced, broken>>

\* There is room for every head.
Faulty_mgr_head ==
  /\ Dispatching("head")
  /\ heads' = Append(heads, [head |-> Head(events).head, enabled |-> 0,
                             n_modes |-> 0, current_mode |-> NoMode])
  /\ UNCHANGED <<manager, serial, config_result, synced, broken, requests>>

mgr_head ==
  /\ Dispatching("head")
  /\ heads' = IF Len(heads) >= MAX_HEADS
              THEN heads
              ELSE Append(heads, [head |-> Head(events).head, enabled |-> 0,
                                  n_modes |-> 0, current_mode |-> NoMode])
  /\ UNCHANGED <<manager, serial, config_result, synced, broken, requests>>

mgr_done ==
  /\ Dispatching("done")
  /\ serial' = Head(events).n
  /\ UNCHANGED <<manager, heads, config_result, synced, broken, requests>>

\* A handler of a head changes the entry that was registered for it; a head
\* beyond MAX_HEADS has no handlers.
OnHead(k, Handler(_, _)) ==
  /\ Dispatching(k)
  /\ heads' = [i \in DOMAIN heads |-> IF heads[i].head = Head(events).head
                                      THEN Handler(heads[i], Head(events))
                                      ELSE heads[i]]
  /\ UNCHANGED <<manager, serial, config_result, synced, broken, requests>>

hl_mode(hi, e) ==
  [hi EXCEPT !.n_modes = IF @ >= MAX_MODES THEN @ ELSE @ + 1]

hl_enabled(hi, e) == [hi EXCEPT !.enabled = e.n]

hl_cur_mode(hi, e) == [hi EXCEPT !.current_mode = e.mode]

OnConfiguration(k, r) ==
  /\ Dispatching(k)
  /\ config_result' = r
  /\ UNCHANGED <<manager, serial, heads, synced, broken, requests>>

cfg_ok     == OnConfiguration("succeeded", 1)
cfg_fail   == OnConfiguration("failed", -1)

\* A cancelled configuration is taken for one that is applied.
Faulty_cfg_cancel == OnConfiguration("cancelled", 1)

cfg_cancel == OnConfiguration("cancelled", -1)

\* An event without effect on S.
Ignored(k) ==
  /\ Dispatching(k)
  /\ UNCHANGED <<S, synced, broken, requests>>

Callback ==
  /\ Dispatching("callback")
  /\ synced' = TRUE
  /\ UNCHANGED <<S, broken, requests>>

\* The end of the connection, or an event that libwayland cannot decode.
Break ==
  /\ Dispatching("error") \/ Dispatching("introduced in 5")
  /\ broken' = TRUE
  /\ UNCHANGED <<S, synced, requests>>

Dispatch ==
  \/ reg_global \/ mgr_head \/ mgr_done
  \/ OnHead("mode", hl_mode)
  \/ OnHead("enabled", hl_enabled)
  \/ OnHead("current_mode", hl_cur_mode)
  \/ cfg_ok \/ cfg_fail \/ cfg_cancel
  \/ Ignored("adaptive_sync") \/ Ignored("head_finished")
  \/ Callback \/ Break

-----------------------------------------------------------------------------
\* The client: configure_output_scale

Return(r) ==
  /\ pc' = "returned"
  /\ result' = r
  /\ UNCHANGED <<scale, S, synced, broken, requests, events, compositor>>

NothingAsked ==
  /\ pc = "start"
  /\ scale <= 0
  /\ Return(0)

ConnectFails ==
  /\ pc = "start"
  /\ scale > 0
  /\ Return(-1)

\* Requests, and the sync that starts the next round trip.
Roundtrip(next, rs) ==
  /\ pc' = next
  /\ synced' = FALSE
  /\ Post(rs \o <<Request("sync")>>)
  /\ UNCHANGED <<scale, S, broken, result, events, compositor>>

Connect ==
  /\ pc = "start"
  /\ scale > 0
  /\ Roundtrip("registry", <<Request("get_registry")>>)

\* What the round trip returns is not looked at.
Ends(rt) == pc = rt /\ (synced \/ broken)

NoManager == Ends("registry") /\ manager = 0 /\ Return(-2)

ReadHeads == Ends("registry") /\ manager # 0 /\ Roundtrip("heads", <<>>)

NoHeads == Ends("heads") /\ (serial = 0 \/ heads = <<>>) /\ Return(0)

\* Every head is enabled.
FaultyEnable(hi) ==
  set_scale(set_mode(enable_head(hi.head), hi.current_mode), WlFixed(scale))

\* Only a head with a current mode is scaled.
FaultyScale(hi) ==
  IF hi.enabled = 0
  THEN disable_head(hi.head)
  ELSE LET ch == enable_head(hi.head)
       IN  IF hi.current_mode = NoMode THEN ch
           ELSE set_scale(set_mode(ch, hi.current_mode), WlFixed(scale))

Configure(hi) ==
  IF hi.enabled = 0
  THEN disable_head(hi.head)
  ELSE LET ch == enable_head(hi.head)
       IN  set_scale(IF hi.current_mode = NoMode THEN ch
                     ELSE set_mode(ch, hi.current_mode), WlFixed(scale))

Configuration ==
  apply(create_configuration(serial), [i \in DOMAIN heads |-> Configure(heads[i])])

SendConfiguration ==
  /\ Ends("heads")
  /\ serial # 0 /\ heads # <<>>
  /\ Roundtrip("apply", <<Configuration>>)

Finish == Ends("apply") /\ Return(config_result)

configure_output_scale ==
  \/ NothingAsked \/ ConnectFails \/ Connect
  \/ NoManager \/ ReadHeads \/ NoHeads \/ SendConfiguration \/ Finish

Next == configure_output_scale \/ Dispatch \/ Compositor \/ Outside

Spec == Init /\ [][Next]_vars

-----------------------------------------------------------------------------
\* A configuration that is applied turns no screen on or off and changes no
\* mode, whatever came, went or changed while S was filled.
OnlyScaleChanges ==
  [][verdict' # verdict =>
       \A h \in plugged : /\ output'[h].enabled = output[h].enabled
                          /\ output'[h].mode = output[h].mode]_vars

\* "set the given scale on all enabled outputs" (glue.c:127): a configuration
\* that succeeds leaves none out, also of the screens that came late.
AllScaled ==
  [][verdict = "none" /\ verdict' = "succeeded" =>
       \A h \in plugged :
         output'[h].enabled = 1 => output'[h].scale = WlFixed(scale)]_vars

\* The compositor never has to close the connection on the client, unless a
\* screen has no room in S or the scale is too small to be sent.
NoProtocolError ==
  fault = "protocol" \/ (broken /\ fault = "none") =>
    Cardinality(announced) > MAX_HEADS \/ WlFixed(scale) = 0

\* What the function returns is what became of the configuration: 1 and, once
\* connected, -1 only after the compositor said so.
ResultIsVerdict ==
  pc = "returned" =>
    /\ result = 1 => verdict = "succeeded"
    /\ result = -1 /\ manager # 0 => verdict \in {"failed", "cancelled"}
=============================================================================
