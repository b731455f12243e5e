-------------------------- MODULE TsProvidersProofs --------------------------
(***************************************************************************)
(* Theorems about TsProviders, for every set of registrations, shutdowns   *)
(* and endpoints, and any number of changes of the configuration.          *)
(***************************************************************************)
EXTENDS TsProviders, TLAPS

(***************************************************************************)
(* The inductive invariant: how far each shutdown has got with what it     *)
(* found, what a registration that ended left in the list, and which       *)
(* configuration a registration under way was given.                       *)
(***************************************************************************)
\* What a shutdown no longer waits for has settled.
Progress ==
  \A d \in Shutdowns :
    /\ pending[d] \subseteq snapshot[d]
    /\ down[d] \in {"new", "done"} => pending[d] = {}
    /\ down[d] = "flush" => snapshot[d] \ pending[d] \subseteq flushed
    /\ down[d] = "shutdown" => snapshot[d] \subseteq flushed
    /\ down[d] = "shutdown" => snapshot[d] \ pending[d] \subseteq shut
    /\ down[d] = "done" => snapshot[d] \subseteq shut

Only(r) == \A q \in Registrations \ {r} : reg[q] = "new"

\* The list holds what the only registration built, once it has ended.
Listed ==
  \A r \in Registrations :
    /\ reg[r] = "new" => own[r] = {}
    /\ Only(r) /\ reg[r] = "done" => own[r] \subseteq providers

\* A shutdown found what the only registration that had ended built.
Covered ==
  \A d \in Shutdowns : \A r \in ended[d] :
    /\ down[d] # "new"
    /\ reg[r] = "done"
    /\ Only(r) => own[r] \subseteq snapshot[d]

\* A registration under way was given the configuration that is current.
GivenCurrent ==
  \A r \in Registrations : reg[r] \in Signals =>
    /\ cfg[r] \in Config
    /\ ~strayed => cfg[r] = config /\ cfg[r] = active

IInv ==
  /\ TypeOK
  /\ Progress
  /\ Listed
  /\ Covered
  /\ GivenCurrent
  /\ registered => Begun
  /\ GuardKeepsProviders
-----------------------------------------------------------------------------
LEMMA InitInv == Init => IInv
<1> SUFFICES ASSUME Init PROVE IInv
  OBVIOUS
<1>1. TypeOK
  <2>1. config \in Config /\ changes \in 0..MaxChanges
    BY ConfigAssumption, BoundAssumption DEF Init
  <2>2. /\ down \in [Shutdowns -> {"new", "flush", "shutdown", "done"}]
        /\ snapshot \in [Shutdowns -> SUBSET Provider]
        /\ pending \in [Shutdowns -> SUBSET Provider]
        /\ ended \in [Shutdowns -> SUBSET Registrations]
        /\ \A d \in Shutdowns : pending[d] = {}
    BY DEF Init
  <2>3. /\ global \in [Signals -> Provider \cup {Nil}]
        /\ reg \in [Registrations -> {"new", "traces", "metrics", "done"}]
        /\ cfg \in [Registrations -> Config \cup {Nil}]
        /\ own \in [Registrations -> SUBSET Provider]
    BY DEF Init
  <2> QED
    BY <2>1, <2>2, <2>3 DEF Init, TypeOK
<1>2. Progress
  BY DEF Init, Progress
<1>3. Listed /\ Covered
  BY DEF Init, Listed, Covered
<1>4. GivenCurrent /\ GuardKeepsProviders /\ (registered => Begun)
  BY DEF Init, GivenCurrent, GuardKeepsProviders, Signals
<1> QED
  BY <1>1, <1>2, <1>3, <1>4 DEF IInv

LEMMA CurrentType == TypeOK => Current \in Config
BY ConfigAssumption DEF TypeOK, Current

LEMMA ConfigChange ==
  ASSUME IInv, NEW c \in Config, Change, config' = c, active' \in Config \cup {Nil},
         strayed' \in BOOLEAN, UnderWay => strayed', registered => (strayed' \/ (config' = config /\ active' = active)),
         strayed => strayed'
  PROVE  IInv'
<1>1. TypeOK'
  BY BoundAssumption DEF IInv, TypeOK, Change, setups, downs
<1>2. Progress' /\ Listed' /\ Covered'
  BY DEF IInv, Progress, Listed, Covered, Only, Change, setups, downs
<1>3. GivenCurrent'
  BY DEF IInv, GivenCurrent, UnderWay, Change, setups
<1>4. (registered => Begun)'
  BY DEF IInv, Begun, Change, setups
<1>5. GuardKeepsProviders'
  BY DEF IInv, GuardKeepsProviders, Change, setups
<1> QED
  BY <1>1, <1>2, <1>3, <1>4, <1>5 DEF IInv

LEMMA BegunIfUnderWay == UnderWay => Begun
BY DEF UnderWay, Begun, Signals

LEMMA SetupTelemetryInv ==
  ASSUME IInv, NEW c \in Config, SetupTelemetry(c) PROVE IInv'
<1>1. Change /\ config' = c /\ active' = active /\ strayed' = (strayed \/ Begun)
  BY DEF SetupTelemetry
<1>2. active \in Config \cup {Nil} /\ strayed \in BOOLEAN /\ Begun \in BOOLEAN
  BY DEF IInv, TypeOK, Begun
<1>3. registered => Begun
  BY DEF IInv
<1> QED
  BY <1>1, <1>2, <1>3, BegunIfUnderWay, ConfigChange

LEMMA UpdateInv ==
  ASSUME IInv, NEW c \in Config, Update(c) PROVE IInv'
<1>1. Change /\ config' = c /\ active' = c /\ strayed' = (strayed \/ Begun)
  BY DEF Update
<1>2. strayed \in BOOLEAN /\ Begun \in BOOLEAN
  BY DEF IInv, TypeOK, Begun
<1>3. registered => Begun
  BY DEF IInv
<1> QED
  BY <1>1, <1>2, <1>3, BegunIfUnderWay, ConfigChange

\* What the guard lets through after a registration is what is there already.
LEMMA ReconfigureInv ==
  ASSUME IInv, NEW c \in Config, Reconfigure(c) PROVE IInv'
<1>1. Change /\ config' = c /\ active' = c /\ strayed' = (strayed \/ UnderWay)
  BY DEF Reconfigure
<1>2. strayed \in BOOLEAN /\ UnderWay \in BOOLEAN
  BY DEF IInv, TypeOK, UnderWay
<1>3. registered => strayed \/ (c = config /\ c = active)
  <2> SUFFICES ASSUME registered, ~strayed PROVE c = config /\ c = active
    BY <1>2
  <2>1. config = built /\ active = built /\ built # Nil
    BY DEF IInv, GuardKeepsProviders, TypeOK
  <2>2. c = Current
    BY DEF Reconfigure, Changed
  <2> QED
    BY <2>1, <2>2 DEF Current
<1> QED
  BY <1>1, <1>2, <1>3, ConfigChange

LEMMA RegisterInv ==
  ASSUME IInv, NEW r \in Registrations, Register(r, config) PROVE IInv'
<1> DEFINE next == IF config.otelEnabled THEN "traces" ELSE "done"
<1>1. /\ reg[r] = "new"
      /\ reg' = [reg EXCEPT ![r] = next]
      /\ cfg' = [cfg EXCEPT ![r] = config]
      /\ strayed' = (strayed \/ config # active)
      /\ UNCHANGED <<config, active, changes, registered, providers, global, own, built, downs>>
  BY DEF Register
<1>2. next \in {"traces", "done"}
  OBVIOUS
<1> HIDE DEF next
<1>3. TypeOK'
  BY <1>1, <1>2 DEF IInv, TypeOK, downs
<1>4. /\ reg'[r] = next /\ cfg'[r] = config
      /\ \A q \in Registrations \ {r} : reg'[q] = reg[q] /\ cfg'[q] = cfg[q]
  BY <1>1 DEF IInv, TypeOK
<1>5. Progress'
  BY <1>1 DEF IInv, Progress, downs
<1>6. Listed'
  <2> SUFFICES ASSUME NEW q \in Registrations
               PROVE  /\ reg'[q] = "new" => own'[q] = {}
                      /\ Only(q)' /\ reg'[q] = "done" => own'[q] \subseteq providers'
    BY DEF Listed
  <2>1. CASE q = r
    BY <2>1, <1>1, <1>2, <1>4 DEF IInv, Listed
  <2>2. CASE q # r
    BY <2>2, <1>1, <1>2, <1>4 DEF IInv, Listed, Only
  <2> QED
    BY <2>1, <2>2
<1>7. Covered'
  <2> SUFFICES ASSUME NEW d \in Shutdowns, NEW q \in ended[d]
               PROVE  /\ down[d] # "new"
                      /\ reg'[q] = "done"
                      /\ Only(q)' => own[q] \subseteq snapshot[d]
    BY <1>1 DEF Covered, downs
  <2>1. q \in Registrations /\ reg[q] = "done" /\ down[d] # "new"
    BY DEF IInv, Covered, TypeOK
  <2>2. q # r /\ reg'[q] = "done"
    BY <2>1, <1>1, <1>4
  <2>3. ~Only(q)'
    BY <2>2, <1>2, <1>4 DEF Only
  <2> QED
    BY <2>1, <2>2, <2>3
<1>8. GivenCurrent'
  BY <1>1, <1>4 DEF IInv, GivenCurrent, TypeOK
<1>9. Begun'
  BY <1>2, <1>4 DEF Begun
<1>10. GuardKeepsProviders'
  BY <1>1 DEF IInv, GuardKeepsProviders, TypeOK
<1> QED
  BY <1>3, <1>5, <1>6, <1>7, <1>8, <1>9, <1>10 DEF IInv

\* What the two try blocks have in common.
Advanced(r, s, ok, next) ==
  /\ global' \in [Signals -> Provider \cup {Nil}]
  /\ own'[r] = IF ok THEN own[r] \cup {<<r, s>>} ELSE own[r]
  /\ own' \in [Registrations -> SUBSET Provider]
  /\ reg' \in [Registrations -> {"new", "traces", "metrics", "done"}]
  /\ reg[r] = s /\ reg'[r] = next
  /\ \A q \in Registrations \ {r} : reg'[q] = reg[q] /\ own'[q] = own[q]
  /\ Begun'
  /\ Covered'
  /\ Progress'

LEMMA SetUpFacts ==
  ASSUME IInv, NEW r \in Registrations, NEW s \in Signals, NEW ok \in BOOLEAN, SetUp(r, s, ok),
         NEW next \in {"metrics", "done"}, reg' = [reg EXCEPT ![r] = next]
  PROVE  Advanced(r, s, ok, next)
<1>1. <<r, s>> \in Provider
  BY DEF Provider
<1>2. global' \in [Signals -> Provider \cup {Nil}]
  BY <1>1 DEF SetUp, IInv, TypeOK
<1>3. own' = [own EXCEPT ![r] = IF ok THEN own[r] \cup {<<r, s>>} ELSE own[r]]
  BY DEF SetUp, IInv, TypeOK
<1>4. own' \in [Registrations -> SUBSET Provider]
  BY <1>1, <1>3 DEF IInv, TypeOK
<1>5. reg' \in [Registrations -> {"new", "traces", "metrics", "done"}]
  BY DEF IInv, TypeOK
<1>6. reg[r] = s /\ reg'[r] = next /\ reg[r] # "done" /\ reg[r] # "new"
  BY DEF SetUp, IInv, TypeOK, Signals
<1>7. \A q \in Registrations \ {r} : reg'[q] = reg[q] /\ own'[q] = own[q]
  BY <1>3 DEF IInv, TypeOK
<1>8. Begun'
  BY <1>6 DEF Begun
<1>9. UNCHANGED <<down, snapshot, pending, flushed, shut, ended>>
  BY DEF SetUp, downs
<1>10. Progress'
  BY <1>9 DEF IInv, Progress
<1>11. Covered'
  <2> SUFFICES ASSUME NEW d \in Shutdowns, NEW q \in ended[d]
               PROVE  /\ down[d] # "new"
                      /\ reg'[q] = "done"
                      /\ Only(q)' => own'[q] \subseteq snapshot[d]
    BY <1>9 DEF Covered
  <2>1. q \in Registrations /\ reg[q] = "done" /\ down[d] # "new"
    BY DEF IInv, Covered, TypeOK
  <2>2. q # r /\ reg'[q] = "done"
    BY <2>1, <1>6, <1>7
  <2>3. ~Only(q)'
    BY <2>2, <1>6 DEF Only
  <2> QED
    BY <2>1, <2>2, <2>3
<1>12. own'[r] = IF ok THEN own[r] \cup {<<r, s>>} ELSE own[r]
  BY <1>3 DEF IInv, TypeOK
<1> QED
  BY <1>2, <1>4, <1>5, <1>6, <1>7, <1>8, <1>10, <1>11, <1>12 DEF Advanced

LEMMA SetUpTracesInv ==
  ASSUME IInv, NEW r \in Registrations, NEW ok \in BOOLEAN, SetUpTraces(r, ok) PROVE IInv'
<1>1. /\ SetUp(r, "traces", ok) /\ reg' = [reg EXCEPT ![r] = "metrics"]
      /\ UNCHANGED <<registered, providers, built>>
  BY DEF SetUpTraces
<1>2. "traces" \in Signals /\ "metrics" \in {"metrics", "done"}
  BY DEF Signals
<1>3a. Advanced(r, "traces", ok, "metrics")
  BY <1>1, <1>2, SetUpFacts
<1>3. /\ global' \in [Signals -> Provider \cup {Nil}]
      /\ own' \in [Registrations -> SUBSET Provider]
      /\ reg' \in [Registrations -> {"new", "traces", "metrics", "done"}]
      /\ reg[r] = "traces" /\ reg'[r] = "metrics"
      /\ \A q \in Registrations \ {r} : reg'[q] = reg[q] /\ own'[q] = own[q]
      /\ Begun' /\ Covered' /\ Progress'
  BY <1>3a DEF Advanced
<1>4. UNCHANGED <<cfg, config, active, strayed, changes, down, snapshot, pending, flushed, shut, ended>>
  BY <1>1 DEF SetUp, configs, downs
<1>5. TypeOK'
  BY <1>1, <1>3, <1>4 DEF IInv, TypeOK
<1>6. Listed'
  <2> SUFFICES ASSUME NEW q \in Registrations
               PROVE  /\ reg'[q] = "new" => own'[q] = {}
                      /\ Only(q)' /\ reg'[q] = "done" => own'[q] \subseteq providers'
    BY DEF Listed
  <2>1. CASE q = r
    BY <2>1, <1>3
  <2>2. CASE q # r
    BY <2>2, <1>1, <1>3 DEF IInv, Listed, Only
  <2> QED
    BY <2>1, <2>2
<1>7. GivenCurrent'
  <2> SUFFICES ASSUME NEW q \in Registrations, reg'[q] \in Signals
               PROVE  cfg[q] \in Config /\ (~strayed => cfg[q] = config /\ cfg[q] = active)
    BY <1>4 DEF GivenCurrent
  <2>1. reg[q] \in Signals
    BY <1>3, <1>2
  <2> QED
    BY <2>1 DEF IInv, GivenCurrent
<1>8. GuardKeepsProviders'
  BY <1>1, <1>4 DEF IInv, GuardKeepsProviders
<1> QED
  BY <1>3, <1>5, <1>6, <1>7, <1>8 DEF IInv

\* The list gets all that the registration built; what it was given is built.
LEMMA SetUpMetricsInv ==
  ASSUME IInv, NEW r \in Registrations, NEW ok \in BOOLEAN, SetUpMetrics(r, ok) PROVE IInv'
<1>1. /\ SetUp(r, "metrics", ok) /\ reg' = [reg EXCEPT ![r] = "done"]
      /\ providers' = Stored(r, IF ok THEN {<<r, "metrics">>} ELSE {})
      /\ registered' = TRUE /\ built' = cfg[r]
  BY DEF SetUpMetrics
<1>2. "metrics" \in Signals /\ "done" \in {"metrics", "done"} /\ "done" \notin Signals
  BY DEF Signals
<1>3a. Advanced(r, "metrics", ok, "done")
  BY <1>1, <1>2, SetUpFacts
<1>3. /\ global' \in [Signals -> Provider \cup {Nil}]
      /\ own'[r] = IF ok THEN own[r] \cup {<<r, "metrics">>} ELSE own[r]
      /\ own' \in [Registrations -> SUBSET Provider]
      /\ reg' \in [Registrations -> {"new", "traces", "metrics", "done"}]
      /\ reg[r] = "metrics" /\ reg'[r] = "done"
      /\ \A q \in Registrations \ {r} : reg'[q] = reg[q] /\ own'[q] = own[q]
      /\ Begun' /\ Covered' /\ Progress'
  BY <1>3a DEF Advanced
<1>4. UNCHANGED <<cfg, config, active, strayed, changes, down, snapshot, pending, flushed, shut, ended>>
  BY <1>1 DEF SetUp, configs, downs
<1>5. providers' = own'[r]
  BY <1>1, <1>3 DEF Stored
<1>6. cfg[r] \in Config /\ (~strayed => cfg[r] = config /\ cfg[r] = active)
  BY <1>2, <1>3 DEF IInv, GivenCurrent
<1>7. TypeOK'
  <2>1. providers' \in SUBSET Provider
    BY <1>3, <1>5
  <2>2. built' \in Config /\ built' # Nil
    BY <1>1, <1>6, NilAssumption
  <2> QED
    BY <1>1, <1>3, <1>4, <2>1, <2>2 DEF IInv, TypeOK
<1>8. Listed'
  <2> SUFFICES ASSUME NEW q \in Registrations
               PROVE  /\ reg'[q] = "new" => own'[q] = {}
                      /\ Only(q)' /\ reg'[q] = "done" => own'[q] \subseteq providers'
    BY DEF Listed
  <2>1. CASE q = r
    BY <2>1, <1>3, <1>5
  <2>2. CASE q # r
    <3>1. ~Only(q)'
      BY <2>2, <1>3 DEF Only
    <3> QED
      BY <2>2, <3>1, <1>3 DEF IInv, Listed
  <2> QED
    BY <2>1, <2>2
<1>9. GivenCurrent'
  <2> SUFFICES ASSUME NEW q \in Registrations, reg'[q] \in Signals
               PROVE  cfg[q] \in Config /\ (~strayed => cfg[q] = config /\ cfg[q] = active)
    BY <1>4 DEF GivenCurrent
  <2>1. reg[q] \in Signals
    BY <1>2, <1>3
  <2> QED
    BY <2>1 DEF IInv, GivenCurrent
<1>10. GuardKeepsProviders'
  BY <1>1, <1>4, <1>6 DEF GuardKeepsProviders
<1> QED
  BY <1>3, <1>7, <1>8, <1>9, <1>10 DEF IInv
-----------------------------------------------------------------------------
LEMMA ShutdownInv ==
  ASSUME IInv, NEW d \in Shutdowns, Shutdown(d) PROVE IInv'
<1> DEFINE next == IF providers = {} THEN "done" ELSE "flush"
<1> DEFINE done == {r \in Registrations : reg[r] = "done"}
<1>1. /\ down[d] = "new"
      /\ snapshot' = [snapshot EXCEPT ![d] = providers]
      /\ pending' = [pending EXCEPT ![d] = providers]
      /\ down' = [down EXCEPT ![d] = next]
      /\ ended' = [ended EXCEPT ![d] = done]
      /\ UNCHANGED <<flushed, shut, configs, setups>>
  BY DEF Shutdown
<1>2. next \in {"flush", "done"} /\ (next = "done" => providers = {})
  OBVIOUS
<1>3. done \subseteq Registrations /\ \A r \in done : reg[r] = "done"
  OBVIOUS
<1> HIDE DEF next, done
<1>4. /\ snapshot'[d] = providers /\ pending'[d] = providers /\ down'[d] = next /\ ended'[d] = done
      /\ \A e \in Shutdowns \ {d} :
           snapshot'[e] = snapshot[e] /\ pending'[e] = pending[e] /\ down'[e] = down[e] /\ ended'[e] = ended[e]
  BY <1>1 DEF IInv, TypeOK
<1>5. TypeOK'
  <2>1. snapshot' \in [Shutdowns -> SUBSET Provider] /\ pending' \in [Shutdowns -> SUBSET Provider]
    BY <1>1 DEF IInv, TypeOK
  <2>2. down' \in [Shutdowns -> {"new", "flush", "shutdown", "done"}]
    BY <1>1, <1>2 DEF IInv, TypeOK
  <2>3. ended' \in [Shutdowns -> SUBSET Registrations]
    BY <1>1, <1>3 DEF IInv, TypeOK
  <2>4. \A e \in Shutdowns : pending'[e] # {} => down'[e] \in {"flush", "shutdown"}
    BY <1>2, <1>4 DEF IInv, TypeOK
  <2> QED
    BY <1>1, <2>1, <2>2, <2>3, <2>4 DEF IInv, TypeOK, configs, setups
<1>6. Progress'
  <2> SUFFICES ASSUME NEW e \in Shutdowns
               PROVE  /\ pending'[e] \subseteq snapshot'[e]
                      /\ down'[e] \in {"new", "done"} => pending'[e] = {}
                      /\ down'[e] = "flush" => snapshot'[e] \ pending'[e] \subseteq flushed'
                      /\ down'[e] = "shutdown" => snapshot'[e] \subseteq flushed'
                      /\ down'[e] = "shutdown" => snapshot'[e] \ pending'[e] \subseteq shut'
                      /\ down'[e] = "done" => snapshot'[e] \subseteq shut'
    BY DEF Progress
  <2>1. CASE e = d
    BY <2>1, <1>2, <1>4
  <2>2. CASE e # d
    BY <2>2, <1>1, <1>4 DEF IInv, Progress
  <2> QED
    BY <2>1, <2>2
<1>7. Listed' /\ GivenCurrent' /\ GuardKeepsProviders' /\ (registered => Begun)'
  BY <1>1 DEF IInv, Listed, Only, GivenCurrent, GuardKeepsProviders, Begun, configs, setups
<1>8. Covered'
  <2> SUFFICES ASSUME NEW e \in Shutdowns, NEW r \in ended'[e]
               PROVE  /\ down'[e] # "new"
                      /\ reg[r] = "done"
                      /\ Only(r) => own[r] \subseteq snapshot'[e]
    BY <1>1 DEF Covered, Only, setups
  <2>1. CASE e = d
    BY <2>1, <1>2, <1>3, <1>4 DEF IInv, Listed
  <2>2. CASE e # d
    BY <2>2, <1>4 DEF IInv, Covered
  <2> QED
    BY <2>1, <2>2
<1> QED
  BY <1>5, <1>6, <1>7, <1>8 DEF IInv

LEMMA SettleInv ==
  ASSUME IInv, NEW d \in Shutdowns, NEW p \in Provider, NEW ok \in BOOLEAN, Settle(d, p, ok)
  PROVE  IInv'
<1> DEFINE rest == IF down[d] = "flush" /\ down'[d] = "shutdown" THEN snapshot[d] ELSE pending[d] \ {p}
<1>1. /\ p \in pending[d]
      /\ down' = [down EXCEPT ![d] = After(d, p, ok)]
      /\ pending' = [pending EXCEPT ![d] = rest]
      /\ flushed' = IF down[d] = "flush" THEN flushed \cup {p} ELSE flushed
      /\ shut' = IF down[d] = "shutdown" THEN shut \cup {p} ELSE shut
      /\ UNCHANGED <<snapshot, ended, configs, setups>>
  BY DEF Settle
<1>2. down[d] \in {"flush", "shutdown"} /\ p \in snapshot[d]
  BY <1>1 DEF IInv, TypeOK, Progress
<1>3. After(d, p, ok) = IF pending[d] # {p} THEN down[d] ELSE IF down[d] = "flush" THEN "shutdown" ELSE "done"
  BY DEF After
<1>4. After(d, p, ok) \in {"flush", "shutdown", "done"}
  BY <1>2, <1>3
<1>5. rest = IF down[d] = "flush" /\ pending[d] = {p} THEN snapshot[d] ELSE pending[d] \ {p}
  BY <1>1, <1>2, <1>3 DEF IInv, TypeOK
<1> HIDE DEF rest
<1>6. /\ down'[d] = After(d, p, ok) /\ pending'[d] = rest
      /\ \A e \in Shutdowns \ {d} : down'[e] = down[e] /\ pending'[e] = pending[e]
  BY <1>1 DEF IInv, TypeOK
<1>7. flushed \subseteq flushed' /\ shut \subseteq shut' /\ flushed' \subseteq Provider
  BY <1>1 DEF IInv, TypeOK
<1>8. shut' \subseteq flushed'
  BY <1>1, <1>2 DEF IInv, TypeOK, Progress
<1>9. /\ pending[d] \subseteq snapshot[d]
      /\ down[d] = "flush" => snapshot[d] \ pending[d] \subseteq flushed
      /\ down[d] = "shutdown" => snapshot[d] \subseteq flushed
      /\ down[d] = "shutdown" => snapshot[d] \ pending[d] \subseteq shut
  BY DEF IInv, Progress
<1>10. Progress'
  <2> SUFFICES ASSUME NEW e \in Shutdowns
               PROVE  /\ pending'[e] \subseteq snapshot[e]
                      /\ down'[e] \in {"new", "done"} => pending'[e] = {}
                      /\ down'[e] = "flush" => snapshot[e] \ pending'[e] \subseteq flushed'
                      /\ down'[e] = "shutdown" => snapshot[e] \subseteq flushed'
                      /\ down'[e] = "shutdown" => snapshot[e] \ pending'[e] \subseteq shut'
                      /\ down'[e] = "done" => snapshot[e] \subseteq shut'
    BY <1>1 DEF Progress
  <2>1. CASE e = d /\ down[d] = "flush"
    BY <2>1, <1>1, <1>3, <1>5, <1>6, <1>9
  <2>2. CASE e = d /\ down[d] = "shutdown"
    BY <2>2, <1>1, <1>3, <1>5, <1>6, <1>9
  <2>3. CASE e # d
    BY <2>3, <1>6, <1>7 DEF IInv, Progress
  <2> QED
    BY <1>2, <2>1, <2>2, <2>3
<1>11. TypeOK'
  <2>1. pending' \in [Shutdowns -> SUBSET Provider]
    <3>1. rest \in SUBSET Provider
      BY <1>5 DEF IInv, TypeOK
    <3> QED
      BY <3>1, <1>1 DEF IInv, TypeOK
  <2>2. down' \in [Shutdowns -> {"new", "flush", "shutdown", "done"}]
    BY <1>1, <1>4 DEF IInv, TypeOK
  <2>3. \A e \in Shutdowns : pending'[e] # {} => down'[e] \in {"flush", "shutdown"}
    BY <1>10, <2>2 DEF Progress
  <2> QED
    BY <1>1, <1>7, <1>8, <2>1, <2>2, <2>3 DEF IInv, TypeOK, configs, setups
<1>12. Listed' /\ GivenCurrent' /\ GuardKeepsProviders' /\ (registered => Begun)'
  BY <1>1 DEF IInv, Listed, Only, GivenCurrent, GuardKeepsProviders, Begun, configs, setups
<1>13. Covered'
  BY <1>1, <1>4, <1>6 DEF IInv, Covered, Only, setups
<1> QED
  BY <1>10, <1>11, <1>12, <1>13 DEF IInv

LEMMA StutterInv == IInv /\ UNCHANGED vars => IInv'
BY DEF IInv, TypeOK, Progress, Listed, Covered, Only, GivenCurrent, GuardKeepsProviders, Begun,
       vars, configs, setups, downs

LEMMA NextInv == IInv /\ [Next]_vars => IInv'
<1> SUFFICES ASSUME IInv, [Next]_vars PROVE IInv'
  OBVIOUS
<1>1. ASSUME NEW c \in Config, SetupTelemetry(c) PROVE IInv'
  BY <1>1, SetupTelemetryInv
<1>2. ASSUME NEW c \in Config, Update(c) PROVE IInv'
  BY <1>2, UpdateInv
<1>3. ASSUME NEW c \in Config, Reconfigure(c) PROVE IInv'
  BY <1>3, ReconfigureInv
<1>4. ASSUME NEW r \in Registrations, Register(r, config) PROVE IInv'
  BY <1>4, RegisterInv
<1>5. ASSUME NEW r \in Registrations, NEW ok \in BOOLEAN, SetUpTraces(r, ok) PROVE IInv'
  BY <1>5, SetUpTracesInv
<1>6. ASSUME NEW r \in Registrations, NEW ok \in BOOLEAN, SetUpMetrics(r, ok) PROVE IInv'
  BY <1>6, SetUpMetricsInv
<1>7. ASSUME NEW d \in Shutdowns, Shutdown(d) PROVE IInv'
  BY <1>7, ShutdownInv
<1>8. ASSUME NEW d \in Shutdowns, NEW p \in Provider, NEW ok \in BOOLEAN, Settle(d, p, ok) PROVE IInv'
  BY <1>8, SettleInv
<1>9. CASE UNCHANGED vars
  BY <1>9, StutterInv
<1> QED
  BY <1>1, <1>2, <1>3, <1>4, <1>5, <1>6, <1>7, <1>8, <1>9 DEF Next

LEMMA Invariance == Spec => []IInv
BY InitInv, NextInv, PTL DEF Spec

\* Type correctness: the phases of otel.ts and shutdown.ts, and the mark
\* _providersRegistered with a configuration behind it.
THEOREM TypeCorrect == Spec => []TypeOK
<1>1. IInv => TypeOK
  BY DEF IInv
<1> QED
  BY <1>1, Invariance, PTL

\* shutdownTelemetry (shutdown.ts) ends with every provider it found flushed
\* and shut down, whichever of their promises were rejected, with any number of
\* shutdowns and registrations overlapping.
THEOREM Drains == Spec => []ShutdownDrains
<1>1. IInv => ShutdownDrains
  BY DEF IInv, Progress, ShutdownDrains
<1> QED
  BY <1>1, Invariance, PTL

\* What one registration built before a shutdown began is shut down by it.
THEOREM OnlyDrained == Spec => []OnlyRegistrationDrained
<1>1. IInv => OnlyRegistrationDrained
  <2> SUFFICES ASSUME IInv, NEW r \in Registrations, Only(r),
                      NEW d \in Shutdowns, down[d] = "done", r \in ended[d]
               PROVE  own[r] \subseteq shut
    BY DEF OnlyRegistrationDrained, Only
  <2>1. own[r] \subseteq snapshot[d]
    BY DEF IInv, Covered
  <2>2. snapshot[d] \subseteq shut
    BY DEF IInv, Progress
  <2> QED
    BY <2>1, <2>2
<1> QED
  BY <1>1, Invariance, PTL

\* The guard of reconfigureTelemetry (runtime.ts) keeps the configuration that
\* of the running providers, for an application that registers the runtime
\* configuration, makes no reconfiguration while a registration is under way,
\* and changes the configuration only by reconfigureTelemetry after it.
THEOREM GuardHolds == Spec => []GuardKeepsProviders
<1>1. IInv => GuardKeepsProviders
  BY DEF IInv
<1> QED
  BY <1>1, Invariance, PTL
=============================================================================
