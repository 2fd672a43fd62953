--------------------------- MODULE ProcessProofs ----------------------------
(***************************************************************************)
(* Proofs about Process, for any number of instances, arrays, connections  *)
(* and configurations: NoNullCall, OpenOpens and InitKeepsOpen.            *)
(***************************************************************************)
EXTENDS Process, SmProofs

Cell ==
    [sm : SmType \cup {NULL},
     vtable : Instance \cup {NULL},
     Tlocal : {"GetCurrentTimestamp", NULL}]

(***************************************************************************)
(* The arrays of the process m: every connection that was configured has   *)
(* the handler of its state.                                               *)
(***************************************************************************)
Sound(m) ==
    /\ m \in [Array -> [Channel -> Cell]]
    /\ \A a \in Array, k \in Channel : m[a][k].sm # NULL => HandlerSet(m[a][k].sm)

\* The first element of an array can be called through.
Usable(m, a) == a \in Array /\ m[a][0].sm # NULL /\ NULL \notin {m[a][0].Tlocal, m[a][0].vtable}

Stored(i) == Configs[i] \cup {Default(i)}

Belongs(a, i) == initialized[i] /\ instance[i].config.sms = a

Registered ==
    /\ initialized \in [Instance -> BOOLEAN]
    /\ config \in [Instance -> SafeComConfig]
    /\ instance \in [Instance -> [vtable : {NULL, "application", "mock"},
                                  config : SafeComConfig \cup {NULL}]]
    /\ \A i \in Instance :
         /\ config[i] \in Stored(i)
         /\ initialized[i] => instance[i].config \in Stored(i)

\* An array that belongs to no instance is as it was allocated.
Untouched ==
    \A a \in Array : (\A i \in Instance : ~Belongs(a, i)) =>
        \A k \in Channel : mem[a][k] = Zeroed

(***************************************************************************)
(* As long as the process runs, the array of every instance that has been  *)
(* initialised is usable, and sms is the array of the last of them.        *)
(***************************************************************************)
Reachable ==
    fault = NULL =>
        \A i \in Instance : initialized[i] =>
            /\ Usable(mem, instance[i].config.sms)
            /\ last \in Instance /\ initialized[last]
            /\ sms = instance[last].config.sms

(***************************************************************************)
(* The inductive invariant.  NoNullCall and OpenOpens need to know where   *)
(* sms points, and that what it points to was configured; InitKeepsOpen    *)
(* that an array is touched by no instance but its own.                    *)
(***************************************************************************)
Inv ==
    /\ Sound(mem)
    /\ Registered
    /\ Untouched
    /\ Reachable
    /\ NoNullCall
    /\ OpenOpens
-----------------------------------------------------------------------------
(***************************************************************************)
(* Facts about the constants.                                              *)
(***************************************************************************)
LEMMA Constants ==
    /\ 0 \in Channel
    /\ NotDrawn \in SeqNo /\ Now \in Time
    /\ LocalPdu(0) \in PDU_S
    /\ NULL \notin SmType /\ NULL \notin Array /\ NULL \notin Instance
    /\ NULL # "GetCurrentTimestamp" /\ NULL # "no array" /\ NULL # "null call"
  <1>1. 0 \in Channel
    BY ChannelAssumption DEF Channel
  <1>2. NotDrawn \in SeqNo /\ Now \in Time
    BY SeqCountAssumption, TimeHalfAssumption DEF NotDrawn, Now, SeqNo, Time, TimeMod
  <1>3. LocalPdu(0) \in PDU_S
    BY <1>2, LocalPduType DEF NotDrawn
  <1>4. QED
    BY <1>1, <1>2, <1>3, ProcessAssumption

LEMMA InitialContext ==
    ASSUME NEW role \in SmRole
    PROVE  Sm_Init(role) \in SmType /\ HandlerSet(Sm_Init(role))
  BY SeqCountAssumption, TimeHalfAssumption, TmaxAssumption
     DEF Sm_Init, SmType, State, SeqNo, Time, TimeMod, Int32, HandlerSet

\* A configuration that names an array is one of the application's.
LEMMA StoredConfig ==
    ASSUME NEW i \in Instance, NEW cfg \in Stored(i)
    PROVE  /\ cfg \in SafeComConfig
           /\ cfg.sms # NULL => /\ cfg \in Configs[i] /\ cfg.sms \in Array
                                /\ cfg.max_connections \in 1 .. MAX_CONNECTIONS
  <1>1. CASE cfg \in Configs[i]
    <2>1. cfg \in SafeComConfig
      BY <1>1, ProcessAssumption
    <2>2. QED
      BY <1>1, <2>1, ConfigsAssumption DEF SafeComConfig
  <1>2. CASE cfg = Default(i)
    BY <1>2 DEF Default, SafeComConfig, SmRole
  <1>3. QED
    BY <1>1, <1>2 DEF Stored

LEMMA InitInv == Init => Inv
  <1> SUFFICES ASSUME Init PROVE Inv
    OBVIOUS
  <1>1. Sound(mem) /\ Untouched
    BY DEF Init, Sound, Untouched, Cell, Zeroed
  <1>2. \A i \in Instance : Default(i) \in SafeComConfig
    BY DEF Default, SafeComConfig, SmRole
  <1>3. Registered
    BY <1>2 DEF Init, Registered, Stored
  <1>4. Reachable /\ NoNullCall /\ OpenOpens
    BY Constants DEF Init, Reachable, NoNullCall, OpenOpens
  <1>5. QED
    BY <1>1, <1>3, <1>4 DEF Inv
-----------------------------------------------------------------------------
(***************************************************************************)
(* What an initialisation with one of the configurations does.             *)
(***************************************************************************)
LEMMA ConfiguredSound ==
    ASSUME NEW m, Sound(m), NEW i \in Instance, NEW cfg \in Stored(i), cfg.sms # NULL,
           NEW new, new = [m EXCEPT ![cfg.sms] = Configured(m[cfg.sms], i, cfg)]
    PROVE  /\ Sound(new) /\ Usable(new, cfg.sms)
           /\ \A a \in Array \ {cfg.sms} : new[a] = m[a]
  <1> DEFINE array == Configured(m[cfg.sms], i, cfg)
  <1>1. /\ cfg.sms \in Array /\ cfg.role \in SmRole
        /\ cfg.max_connections \in Nat /\ cfg.max_connections > 0
    BY StoredConfig DEF SafeComConfig
  <1>2. Sm_Init(cfg.role) \in SmType /\ HandlerSet(Sm_Init(cfg.role))
    BY <1>1, InitialContext
  <1>3. array \in [Channel -> Cell]
    BY <1>1, <1>2 DEF Configured, Sound, Cell
  <1>4. \A k \in Channel : array[k].sm # NULL => HandlerSet(array[k].sm)
    BY <1>1, <1>2 DEF Configured, Sound
  <1>5. array[0].sm # NULL /\ NULL \notin {array[0].Tlocal, array[0].vtable}
    BY <1>1, <1>2, Constants DEF Configured
  <1>0. new = [m EXCEPT ![cfg.sms] = array]
    OBVIOUS
  <1> HIDE DEF array
  <1>6. /\ new \in [Array -> [Channel -> Cell]]
        /\ new[cfg.sms] = array
        /\ \A a \in Array \ {cfg.sms} : new[a] = m[a]
    BY <1>0, <1>1, <1>3 DEF Sound
  <1>7. Sound(new)
    BY <1>4, <1>6 DEF Sound
  <1>8. Usable(new, cfg.sms)
    BY <1>1, <1>5, <1>6 DEF Usable
  <1>9. QED
    BY <1>6, <1>7, <1>8

LEMMA UsableKept ==
    ASSUME NEW m, NEW new, NEW a \in Array, Usable(m, a), new[a] = m[a]
    PROVE  Usable(new, a)
  BY DEF Usable

\* The array of a configuration belongs to no other instance.
LEMMA NotShared ==
    ASSUME Registered, NEW i \in Instance, NEW cfg \in Stored(i), cfg.sms # NULL,
           NEW j \in Instance, Belongs(cfg.sms, j)
    PROVE  j = i
  <1>1. instance[j].config \in Stored(j) /\ instance[j].config.sms = cfg.sms
    BY DEF Registered, Belongs
  <1>2. cfg \in Configs[i] /\ instance[j].config \in Configs[j]
    BY <1>1, StoredConfig
  <1>3. QED
    BY <1>1, <1>2, ConfigsAssumption

LEMMA InitialiseKeepsOpen ==
    ASSUME Inv, NEW i \in Instance, NEW vtable, NEW cfg \in Stored(i),
           Initialise(i, vtable, cfg),
           NEW a \in Array, NEW k \in Channel, mem[a][k].sm # NULL
    PROVE  mem'[a][k] = mem[a][k]
  <1>1. CASE mem' = mem
    BY <1>1
  <1>2. CASE mem' # mem
    <2>1. /\ ~initialized[i] /\ cfg.sms # NULL
          /\ mem' = [mem EXCEPT ![cfg.sms] = Configured(mem[cfg.sms], i, cfg)]
      BY <1>2 DEF Initialise, SafeCom_Init, Refused
    <2>2. \A b \in Array \ {cfg.sms} : mem'[b] = mem[b]
      BY <2>1, ConfiguredSound DEF Inv
    <2>3. cfg.sms \in Array
      BY <2>1, StoredConfig
    <2>4. \A j \in Instance : ~Belongs(cfg.sms, j)
      <3>1. ~Belongs(cfg.sms, i)
        BY <2>1 DEF Belongs
      <3>2. QED
        BY <2>1, <3>1, NotShared DEF Inv
    <2>5. mem[cfg.sms][k].sm = NULL
      BY <2>3, <2>4 DEF Inv, Untouched, Zeroed
    <2>6. QED
      BY <2>2, <2>5
  <1>3. QED
    BY <1>1, <1>2

LEMMA InitialiseInv ==
    ASSUME Inv, fault = NULL, NEW i \in Instance,
           NEW vtable \in {"application", "mock"},
           NEW cfg \in Stored(i), Initialise(i, vtable, cfg),
           config' \in [Instance -> SafeComConfig],
           \A j \in Instance : config'[j] \in Stored(j)
    PROVE  Inv'
  <1>1. call' = NULL /\ initialized' = [initialized EXCEPT ![i] = TRUE]
    BY DEF Initialise
  <1>2. initialized' \in [Instance -> BOOLEAN] /\ initialized'[i]
        /\ \A j \in Instance \ {i} : initialized'[j] = initialized[j]
    BY <1>1 DEF Inv, Registered
  <1>3. cfg \in SafeComConfig
    BY StoredConfig
  <1>4. OpenOpens'
    BY <1>1 DEF OpenOpens
  <1>5. CASE initialized[i]
    <2>1. UNCHANGED <<instance, sms, mem, fault, last>>
      BY <1>5 DEF Initialise, Refused
    <2>2. initialized' = initialized
      BY <1>1, <1>5 DEF Inv, Registered
    <2>3. Sound(mem)' /\ Registered' /\ Untouched' /\ Reachable' /\ NoNullCall'
      BY <2>1, <2>2, Constants
         DEF Inv, Sound, Registered, Untouched, Belongs, Reachable, Usable,
             NoNullCall
    <2>4. QED
      BY <1>4, <2>3 DEF Inv
  <1>6. CASE ~initialized[i]
    <2>1. /\ instance' = [instance EXCEPT ![i] = [vtable |-> vtable, config |-> cfg]]
          /\ sms' = cfg.sms /\ last' = i
      BY <1>6 DEF Initialise, Refused, SafeCom_Init
    <2>2. /\ instance' \in [Instance -> [vtable : {NULL, "application", "mock"},
                                         config : SafeComConfig \cup {NULL}]]
          /\ instance'[i].config = cfg
          /\ \A j \in Instance \ {i} : instance'[j] = instance[j]
      BY <1>3, <2>1 DEF Inv, Registered
    <2>3. Registered'
      BY <1>2, <2>2 DEF Inv, Registered, Stored
    <2>4. CASE cfg.sms = NULL
      <3>1. mem' = mem /\ fault' = "no array"
        BY <1>6, <2>4 DEF Initialise, Refused, SafeCom_Init
      <3>2. \A a \in Array, j \in Instance : Belongs(a, j) => Belongs(a, j)'
        BY <1>2, <1>6, <2>2 DEF Belongs
      <3>3. Sound(mem)' /\ Untouched'
        BY <3>1, <3>2 DEF Inv, Sound, Untouched
      <3>4. Reachable' /\ NoNullCall'
        BY <3>1, Constants DEF Reachable, NoNullCall
      <3>5. QED
        BY <1>4, <2>3, <3>3, <3>4 DEF Inv
    <2>5. CASE cfg.sms # NULL
      <3>1. /\ mem' = [mem EXCEPT ![cfg.sms] = Configured(mem[cfg.sms], i, cfg)]
            /\ fault' = fault
        BY <1>6, <2>5 DEF Initialise, Refused, SafeCom_Init
      <3>2. /\ Sound(mem') /\ Usable(mem', cfg.sms)
            /\ \A a \in Array \ {cfg.sms} : mem'[a] = mem[a]
        <4>1. Sound(mem)
          BY DEF Inv
        <4>2. \A new : new = [mem EXCEPT ![cfg.sms] = Configured(mem[cfg.sms], i, cfg)] =>
                /\ Sound(new) /\ Usable(new, cfg.sms)
                /\ \A a \in Array \ {cfg.sms} : new[a] = mem[a]
          BY <2>5, <4>1, ConfiguredSound
        <4>3. QED
          BY <3>1, <4>2, Zenon
      <3>3. \A a \in Array, j \in Instance : Belongs(a, j) => Belongs(a, j)'
        BY <1>2, <1>6, <2>2 DEF Belongs
      <3>4. Belongs(cfg.sms, i)'
        BY <1>2, <2>2 DEF Belongs
      <3>5. Untouched'
        BY <3>2, <3>3, <3>4 DEF Inv, Untouched
      <3>6. ASSUME NEW j \in Instance, initialized'[j]
            PROVE  Usable(mem', instance'[j].config.sms)
        <4>1. CASE j = i
          BY <2>2, <3>2, <4>1
        <4>2. CASE j # i
          <5>1. initialized[j] /\ instance'[j] = instance[j]
            BY <1>2, <2>2, <3>6, <4>2
          <5>2. Usable(mem, instance[j].config.sms)
            BY <5>1 DEF Inv, Reachable
          <5>3. instance[j].config.sms # cfg.sms
            BY <2>5, <4>2, <5>1, NotShared DEF Belongs, Inv
          <5>4. mem'[instance[j].config.sms] = mem[instance[j].config.sms]
            BY <3>2, <5>2, <5>3 DEF Usable
          <5>5. QED
            BY <5>1, <5>2, <5>4 DEF Usable
        <4>3. QED
          BY <4>1, <4>2
      <3>7. Reachable'
        BY <1>2, <2>1, <2>2, <3>6 DEF Reachable
      <3>8. NoNullCall'
        BY <3>1, Constants DEF NoNullCall
      <3>9. QED
        BY <1>4, <2>3, <3>2, <3>5, <3>7, <3>8 DEF Inv
    <2>6. QED
      BY <2>4, <2>5
  <1>7. QED
    BY <1>5, <1>6

LEMMA InitStep ==
    ASSUME Inv, NEW i \in Instance, Init_VTable(i) \/ Init_Mock(i)
    PROVE  /\ fault = NULL
           /\ config' \in [Instance -> SafeComConfig]
           /\ \A j \in Instance : config'[j] \in Stored(j)
           /\ \E cfg \in Stored(i), vtable \in {"application", "mock"} :
                Initialise(i, vtable, cfg)
  <1>1. CASE Init_VTable(i)
    BY <1>1 DEF Init_VTable, Inv, Registered, Stored
  <1>2. CASE Init_Mock(i)
    <2>1. PICK arg \in Configs[i] \cup {NULL} :
            /\ config' = [config EXCEPT ![i] = IF arg = NULL THEN config[i] ELSE arg]
            /\ Initialise(i, "mock", config'[i])
      BY <1>2 DEF Init_Mock
    <2>2. config'[i] \in Stored(i) /\ \A j \in Instance \ {i} : config'[j] = config[j]
      BY <2>1 DEF Inv, Registered, Stored
    <2>3. config'[i] \in SafeComConfig
      BY <2>2, StoredConfig
    <2>4. QED
      BY <1>2, <2>1, <2>2, <2>3 DEF Init_Mock, Inv, Registered
  <1>3. QED
    BY <1>1, <1>2
-----------------------------------------------------------------------------
(***************************************************************************)
(* What the handling of an event does to the arrays.                       *)
(***************************************************************************)
Fits(self, r) == self # NULL => r.sm \in SmType /\ HandlerSet(r.sm)

LEMMA HandleEffect ==
    ASSUME Sound(mem), fault = NULL, NEW a, Usable(mem, a), NEW k \in Channel,
           NEW r, Fits(mem[a][k].sm, r), NEW builds, Handle(a, k, r, builds)
    PROVE  /\ Sound(mem)'
           /\ \A b \in Array : Usable(mem, b) => Usable(mem', b)
           /\ \A b \in Array \ {a} : mem'[b] = mem[b]
           /\ \/ fault' = "null call" /\ k > 0
              \/ fault' = NULL /\ mem'[a][k].sm = r.sm
  <1>1. a \in Array
    BY DEF Usable
  <1>2. CASE mem' = mem /\ fault' = "null call"
    <2>1. k # 0
      BY <1>2, Constants DEF Handle, Usable
    <2>2. k > 0
      BY <2>1, ChannelAssumption DEF Channel
    <2>3. Sound(mem)'
      BY <1>2 DEF Sound
    <2>4. QED
      BY <1>2, <2>2, <2>3
  <1>3. CASE ~(mem' = mem /\ fault' = "null call")
    <2>1. /\ mem' = [mem EXCEPT ![a][k].sm = r.sm]
          /\ fault' = NULL /\ mem[a][k].sm # NULL
      BY <1>3 DEF Handle
    <2>2. r.sm \in SmType /\ HandlerSet(r.sm)
      BY <2>1 DEF Fits
    <2>3. mem[a] \in [Channel -> Cell] /\ mem[a][k] \in Cell
      BY <1>1 DEF Sound
    <2>4. [mem[a][k] EXCEPT !.sm = r.sm] \in Cell
      BY <2>2, <2>3 DEF Cell
    <2>5. /\ mem' = [mem EXCEPT ![a] = [mem[a] EXCEPT ![k] = [mem[a][k] EXCEPT !.sm = r.sm]]]
      BY <2>1
    <2>6. /\ mem' \in [Array -> [Channel -> Cell]]
          /\ \A b \in Array \ {a} : mem'[b] = mem[b]
          /\ \A l \in Channel \ {k} : mem'[a][l] = mem[a][l]
          /\ mem'[a][k] = [mem[a][k] EXCEPT !.sm = r.sm]
      BY <1>1, <2>3, <2>4, <2>5 DEF Sound
    <2>7. /\ mem'[a][k].sm = r.sm
          /\ mem'[a][k].vtable = mem[a][k].vtable
          /\ mem'[a][k].Tlocal = mem[a][k].Tlocal
      BY <2>3, <2>6 DEF Cell
    <2>8. Sound(mem)'
      <3>1. ASSUME NEW b \in Array, NEW l \in Channel, mem'[b][l].sm # NULL
            PROVE  HandlerSet(mem'[b][l].sm)
        <4>1. CASE b = a /\ l = k
          BY <2>2, <2>7, <4>1
        <4>2. CASE b # a \/ l # k
          <5>1. mem'[b][l] = mem[b][l]
            BY <2>6, <4>2
          <5>2. QED
            BY <3>1, <5>1 DEF Sound
        <4>3. QED
          BY <4>1, <4>2
      <3>2. QED
        BY <2>6, <3>1 DEF Sound
    <2>9. ASSUME NEW b \in Array, Usable(mem, b) PROVE Usable(mem', b)
      <3>1. CASE b = a /\ k = 0
        BY <2>2, <2>7, <2>9, <3>1, Constants DEF Usable
      <3>2. CASE b # a \/ k # 0
        <4>1. mem'[b][0] = mem[b][0]
          BY <2>6, <3>2, Constants
        <4>2. QED
          BY <2>9, <4>1 DEF Usable
      <3>3. QED
        BY <3>1, <3>2
    <2>10. QED
      BY <2>1, <2>6, <2>7, <2>8, <2>9
  <1>4. QED
    BY <1>2, <1>3

\* The state of a process in which instance i can be called.
LEMMA Called ==
    ASSUME Inv, fault = NULL, NEW i \in Instance, NEW k \in Connections(i)
    PROVE  /\ k \in Channel
           /\ initialized[i]
           /\ Usable(mem, sms)
           /\ Usable(mem, instance[i].config.sms)
           /\ Belongs(sms, last) /\ last \in Instance
  <1>1. initialized[i] /\ k \in 0 .. instance[i].config.max_connections - 1
    BY DEF Connections
  <1>2. /\ Usable(mem, instance[i].config.sms)
        /\ last \in Instance /\ initialized[last]
        /\ sms = instance[last].config.sms
    BY <1>1 DEF Inv, Reachable
  <1>3. Usable(mem, sms)
    BY <1>2 DEF Inv, Reachable
  <1>4. instance[i].config \in Stored(i) /\ instance[i].config.sms # NULL
    BY <1>1, <1>2, Constants DEF Inv, Registered, Usable
  <1>5. instance[i].config.max_connections \in 1 .. MAX_CONNECTIONS
    BY <1>4, StoredConfig
  <1>6. k \in Channel
    BY <1>1, <1>5, ChannelAssumption DEF Channel
  <1>7. QED
    BY <1>1, <1>2, <1>3, <1>6 DEF Belongs

\* An event for connection k of the array a, recorded in call.
Raised(i, a, k, r, builds, op) ==
    /\ Handle(a, k, r, builds)
    /\ call' = [by |-> i, op |-> op, id |-> k, on |-> Own(i)[k].sm.state]
    /\ UNCHANGED <<initialized, config, instance, sms, last>>

\* What an opening has to do for OpenOpens.
OpensIt(i, k, a, r, op) ==
    op = "OpenConnection" /\ k = 0 /\ Own(i)[0].sm.state = "STATE_CLOSED" /\ last = i =>
        /\ a = instance[i].config.sms
        /\ r.sm.state \in {"STATE_START", "STATE_DOWN"}

LEMMA RaisedInv ==
    ASSUME Inv, fault = NULL, NEW i \in Instance, NEW k \in Connections(i),
           NEW j \in Instance, NEW a, Belongs(a, j), NEW r, NEW builds, NEW op,
           Fits(mem[a][k].sm, r), OpensIt(i, k, a, r, op),
           Raised(i, a, k, r, builds, op)
    PROVE  Inv'
  <1>1. k \in Channel /\ Usable(mem, a) /\ Sound(mem)
    BY Called DEF Inv, Reachable, Belongs
  <1>2. /\ Sound(mem)'
        /\ \A b \in Array : Usable(mem, b) => Usable(mem', b)
        /\ \A b \in Array \ {a} : mem'[b] = mem[b]
        /\ \/ fault' = "null call" /\ k > 0
           \/ fault' = NULL /\ mem'[a][k].sm = r.sm
    BY <1>1, HandleEffect DEF Raised
  <1>3. UNCHANGED <<initialized, config, instance, sms, last>>
    BY DEF Raised
  <1>4. /\ call'.by = i /\ call'.op = op /\ call'.id = k
        /\ call'.on = Own(i)[k].sm.state
    BY DEF Raised
  <1>5. Registered'
    BY <1>3 DEF Inv, Registered
  <1>6. Untouched'
    <2>1. \A b \in Array, l \in Instance : Belongs(b, l)' = Belongs(b, l)
      BY <1>3 DEF Belongs
    <2>2. QED
      BY <1>2, <2>1 DEF Inv, Untouched
  <1>7. Reachable'
    <2>1. \A l \in Instance : initialized[l] =>
            /\ Usable(mem, instance[l].config.sms)
            /\ last \in Instance /\ initialized[last]
            /\ sms = instance[last].config.sms
      BY DEF Inv, Reachable
    <2>2. \A l \in Instance : initialized[l] => Usable(mem', instance[l].config.sms)
      BY <1>2, <2>1 DEF Usable
    <2>3. QED
      BY <1>3, <2>1, <2>2 DEF Reachable
  <1>8. NoNullCall'
    BY <1>2, <1>4, Constants DEF NoNullCall
  <1>9. OpenOpens'
    <2> SUFFICES ASSUME op = "OpenConnection", k = 0, last = i,
                        Own(i)[0].sm.state = "STATE_CLOSED"
                 PROVE  Own(i)'[0].sm.state \in {"STATE_START", "STATE_DOWN"}
      BY <1>3, <1>4 DEF OpenOpens, Own
    <2>1. /\ a = instance[i].config.sms
          /\ r.sm.state \in {"STATE_START", "STATE_DOWN"}
      BY DEF OpensIt
    <2>2. mem'[a][k].sm = r.sm
      BY <1>2
    <2>3. QED
      BY <1>3, <2>1, <2>2 DEF Own
  <1>10. QED
    BY <1>2, <1>5, <1>6, <1>7, <1>8, <1>9 DEF Inv

\* Every call leaves a context that was configured one of its type, with the
\* handler of its state.
LEMMA CallFits ==
    ASSUME NEW m, Sound(m), NEW a \in Array, NEW k \in Channel, NEW rand \in SeqNo,
           NEW event, NEW pdu \in PDU_S
    PROVE  Fits(m[a][k].sm, Sm_HandleEvent(m[a][k].sm, Now, rand, event, pdu))
  <1> SUFFICES ASSUME m[a][k].sm # NULL
               PROVE  LET r == Sm_HandleEvent(m[a][k].sm, Now, rand, event, pdu)
                      IN  r.sm \in SmType /\ HandlerSet(r.sm)
    BY DEF Fits
  <1>1. m[a][k].sm \in SmType /\ HandlerSet(m[a][k].sm)
    BY DEF Sound, Cell
  <1>2. QED
    BY <1>1, Constants, HandleEventKept DEF Kept

LEMMA SendDataFits ==
    ASSUME NEW m, Sound(m), NEW a \in Array, NEW k \in Channel, NEW msg \in AppData
    PROVE  Fits(m[a][k].sm, SafeCom_SendData_Impl(m[a][k].sm, Now, msg))
  <1> DEFINE self == m[a][k].sm
             counted == Counted(self)
             pdu == Data(counted, Now, msg)
  <1> SUFFICES ASSUME self # NULL
               PROVE  LET r == SafeCom_SendData_Impl(self, Now, msg)
                      IN  r.sm \in SmType /\ HandlerSet(r.sm)
    BY DEF Fits
  <1>1. self \in SmType /\ HandlerSet(self)
    BY DEF Sound, Cell
  <1> HIDE DEF self
  <1>2. counted \in SmType /\ HandlerSet(counted)
    BY <1>1, CountedType DEF HandlerSet, SmType
  <1>3. pdu \in PDU_S
    BY <1>2, Constants DEF Data, Confirming, PDU_S, PduOf, Payload, MessageType, SmType
  <1>4. SafeCom_SendData_Impl(self, Now, msg)
          = Sm_HandleEvent(counted, Now, NotDrawn, "EVENT_SEND_DATA", pdu)
    BY DEF SafeCom_SendData_Impl
  <1> HIDE DEF counted, pdu
  <1>5. LET r == Sm_HandleEvent(counted, Now, NotDrawn, "EVENT_SEND_DATA", pdu)
        IN  r.sm \in SmType /\ HandlerSet(r.sm)
    BY <1>2, <1>3, Constants, HandleEventKept DEF Kept
  <1>6. QED
    BY <1>4, <1>5

\* A connection that is closed opens.
LEMMA OpensFromClosed ==
    ASSUME NEW self \in SmType, HandlerSet(self), self.state = "STATE_CLOSED",
           NEW rand
    PROVE  SafeCom_OpenConnection_Impl(self, Now, rand).sm.state
             \in {"STATE_START", "STATE_DOWN"}
  <1> DEFINE h == handle_closed(self, Now, rand, "EVENT_OPEN_CONN", LocalPdu(0))
  <1>1. h.sm.state \in {"STATE_START", "STATE_DOWN"}
    BY DEF handle_closed, Silently, Sending, SmType
  <1>2. Handled(self, Now, rand, "EVENT_OPEN_CONN", LocalPdu(0)) = h
    BY DEF Handled, HandlerSet
  <1>3. SafeCom_OpenConnection_Impl(self, Now, rand).sm
          = [h.sm EXCEPT !.handle_event = h.sm.state]
    BY <1>2 DEF SafeCom_OpenConnection_Impl, Sm_HandleEvent
  <1>4. "state" \in DOMAIN h.sm
    BY DEF handle_closed, Silently, Sending, SmType
  <1> HIDE DEF h
  <1>5. QED
    BY <1>1, <1>3, <1>4
-----------------------------------------------------------------------------
LEMMA NextInv == Inv /\ [Next]_vars => Inv'
  <1> SUFFICES ASSUME Inv, [Next]_vars PROVE Inv'
    OBVIOUS
  <1>1. CASE UNCHANGED vars
    BY <1>1 DEF Inv, Sound, Registered, Untouched, Belongs, Reachable, Usable,
                NoNullCall, OpenOpens, Own, vars
  <1>2. ASSUME NEW i \in Instance, Init_VTable(i) \/ Init_Mock(i) PROVE Inv'
    BY <1>2, InitStep, InitialiseInv
  <1>3. ASSUME NEW i \in Instance, OpenConnection(i) PROVE Inv'
    <2>1. PICK k \in Connections(i), rand \in SntValues :
            Service(i, "OpenConnection", k,
                    SafeCom_OpenConnection_Impl(mem[sms][k].sm, Now, rand))
      BY <1>3 DEF OpenConnection
    <2> DEFINE r == SafeCom_OpenConnection_Impl(mem[sms][k].sm, Now, rand)
    <2>2. fault = NULL
      BY <2>1 DEF Service
    <2>3. /\ Raised(i, sms, k, r, FALSE, "OpenConnection")
      BY <2>1 DEF Service, Raised
    <2>4. /\ k \in Channel /\ sms \in Array
          /\ Belongs(sms, last) /\ last \in Instance
      BY <2>2, Called DEF Usable
    <2>5. Fits(mem[sms][k].sm, r)
      BY <2>4, CallFits, Constants, ProcessAssumption
         DEF Inv, SafeCom_OpenConnection_Impl
    <2>6. OpensIt(i, k, sms, r, "OpenConnection")
      <3> SUFFICES ASSUME k = 0, Own(i)[0].sm.state = "STATE_CLOSED", last = i
                   PROVE  /\ sms = instance[i].config.sms
                          /\ r.sm.state \in {"STATE_START", "STATE_DOWN"}
        BY DEF OpensIt
      <3>1. sms = instance[i].config.sms
        BY <2>4 DEF Belongs
      <3>2. mem[sms][0].sm \in SmType /\ HandlerSet(mem[sms][0].sm)
        <4>1. Usable(mem, sms) /\ Sound(mem)
          BY <2>2, Called DEF Inv
        <4>2. mem[sms][0] \in Cell
          BY <2>4, <4>1, Constants DEF Sound
        <4>3. QED
          BY <2>4, <4>1, <4>2, Constants DEF Sound, Cell, Usable
      <3>3. mem[sms][0].sm.state = "STATE_CLOSED"
        BY <3>1 DEF Own
      <3>4. QED
        BY <3>1, <3>2, <3>3, OpensFromClosed
    <2> HIDE DEF r
    <2>7. QED
      BY <2>2, <2>3, <2>4, <2>5, <2>6, RaisedInv
  <1>4. ASSUME NEW i \in Instance, CloseConnection(i) PROVE Inv'
    <2>1. PICK k \in Connections(i) :
            Service(i, "CloseConnection", k,
                    SafeCom_CloseConnection_Impl(mem[sms][k].sm, Now))
      BY <1>4 DEF CloseConnection
    <2> DEFINE r == SafeCom_CloseConnection_Impl(mem[sms][k].sm, Now)
    <2>2. fault = NULL
      BY <2>1 DEF Service
    <2>3. /\ Raised(i, sms, k, r, FALSE, "CloseConnection")
          /\ OpensIt(i, k, sms, r, "CloseConnection")
      BY <2>1 DEF Service, Raised, OpensIt
    <2>4. /\ k \in Channel /\ sms \in Array
          /\ Belongs(sms, last) /\ last \in Instance
      BY <2>2, Called DEF Usable
    <2>5. Fits(mem[sms][k].sm, r)
      BY <2>4, CallFits, Constants DEF Inv, SafeCom_CloseConnection_Impl
    <2> HIDE DEF r
    <2>6. QED
      BY <2>2, <2>3, <2>4, <2>5, RaisedInv
  <1>5. ASSUME NEW i \in Instance, SendData(i) PROVE Inv'
    <2>1. PICK k \in Connections(i), msg \in AppData :
            Service(i, "SendData", k, SafeCom_SendData_Impl(mem[sms][k].sm, Now, msg))
      BY <1>5 DEF SendData
    <2> DEFINE r == SafeCom_SendData_Impl(mem[sms][k].sm, Now, msg)
    <2>2. fault = NULL
      BY <2>1 DEF Service
    <2>3. /\ Raised(i, sms, k, r, TRUE, "SendData")
          /\ OpensIt(i, k, sms, r, "SendData")
      BY <2>1 DEF Service, Raised, OpensIt
    <2>4. /\ k \in Channel /\ sms \in Array
          /\ Belongs(sms, last) /\ last \in Instance
      BY <2>2, Called DEF Usable
    <2>5. Fits(mem[sms][k].sm, r)
      BY <2>4, SendDataFits DEF Inv
    <2> HIDE DEF r
    <2>6. QED
      BY <2>2, <2>3, <2>4, <2>5, RaisedInv
  <1>6. ASSUME NEW i \in Instance, ReceiveSpdu(i) PROVE Inv'
    <2> DEFINE a == instance[i].config.sms
    <2>1. PICK frame \in Arriving, k \in Connections(i) :
            /\ Handle(a, k, ReceiveMsg(Own(i)[k].sm, Now, frame), FALSE)
            /\ call' = [by |-> i, op |-> "ReceiveSpdu", id |-> k,
                        on |-> Own(i)[k].sm.state]
      BY <1>6 DEF ReceiveSpdu
    <2> DEFINE r == ReceiveMsg(mem[a][k].sm, Now, frame)
    <2>2. fault = NULL /\ UNCHANGED <<initialized, config, instance, sms, last>>
      BY <1>6 DEF ReceiveSpdu
    <2>3. /\ Raised(i, a, k, r, FALSE, "ReceiveSpdu")
          /\ OpensIt(i, k, a, r, "ReceiveSpdu")
      BY <2>1, <2>2 DEF Raised, OpensIt, Own
    <2>4. k \in Channel /\ a \in Array /\ Belongs(a, i)
      BY <2>2, Called DEF Usable, Belongs
    <2>5. frame \in PDU_S
      BY ProcessAssumption DEF Frame, PDU_S, PduOf
    <2>6. Fits(mem[a][k].sm, r)
      BY <2>4, <2>5, CallFits, Constants DEF Inv, ReceiveMsg
    <2> HIDE DEF r, a
    <2>7. QED
      BY <2>2, <2>3, <2>4, <2>6, RaisedInv
  <1>7. QED
    BY <1>1, <1>2, <1>3, <1>4, <1>5, <1>6 DEF Next

(***************************************************************************)
(* The invariant holds, whatever is initialised in whatever order.         *)
(***************************************************************************)
THEOREM Invariance == Spec => []Inv
  BY InitInv, NextInv, PTL DEF Spec

(***************************************************************************)
(* No event for the first connection of an instance calls through a null   *)
(* pointer, whichever array sms points to.                                 *)
(***************************************************************************)
THEOREM FirstConnectionCallable == Spec => []NoNullCall
  <1>1. Inv => NoNullCall
    BY DEF Inv
  <1>2. QED
    BY <1>1, Invariance, PTL

(***************************************************************************)
(* The instance that was initialised last opens its own first connection.  *)
(***************************************************************************)
THEOREM LastInstanceOpens == Spec => []OpenOpens
  <1>1. Inv => OpenOpens
    BY DEF Inv
  <1>2. QED
    BY <1>1, Invariance, PTL

(***************************************************************************)
(* No initialisation touches a connection that is open.                    *)
(***************************************************************************)
THEOREM InitialisationIsSafe == Spec => InitKeepsOpen
  <1>1. Inv =>
          [ (\E i \in Instance : Init_VTable(i) \/ Init_Mock(i)) =>
              \A a \in Array, k \in Channel :
                 mem[a][k].sm # NULL /\ mem[a][k].sm.state # "STATE_CLOSED" =>
                   mem'[a][k] = mem[a][k] ]_vars
    BY InitStep, InitialiseKeepsOpen
  <1>2. QED
    BY <1>1, Invariance, PTL DEF InitKeepsOpen
=============================================================================
