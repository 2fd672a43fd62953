------------------------------ MODULE Process -------------------------------
(***************************************************************************)
(* One process that uses the library through its instances Rass (rass.c)   *)
(* and Sic (sic.c), which are the same code over statics of their own:     *)
(* initialisation, and the services of safecom.c and safecom_impl.c, which *)
(* find a connection through the one static pointer sms.                   *)
(*                                                                         *)
(* The application keeps to the interface: it calls the services of an     *)
(* instance it has initialised, on the connections it configured.  All     *)
(* calls are made within one second of Tlocal().                           *)
(***************************************************************************)
EXTENDS SafeCom

CONSTANTS Instance,     \* the instances that are used: of {"Rass", "Sic"}
          MAX_CONNECTIONS,  \* the length of an array of SmType
          Array,        \* the arrays of SmType that the application allocates
          Configs,      \* Configs[i]: the configurations it has for instance i
          SntValues,    \* what snt_rand_value() may return
          Arriving,     \* the frames the network may present
          NULL

VARIABLES initialized,  \* initialized[i]: the static flag of instance i
          config,       \* config[i]: RassConfig, SicConfig
          instance,     \* instance[i]: RassInstance, SicInstance
          sms,          \* the static pointer of safecom_impl.c
          mem,          \* mem[a][k]: element k of array a
          fault,        \* what null pointer was followed: the process is gone
          call,         \* history: the last step, when it was a service
          last          \* history: the instance that was initialised last

vars == <<initialized, config, instance, sms, mem, fault, call, last>>

SafeComConfig ==
    [role : SmRole, max_connections : Nat, sms : Array \cup {NULL}]

ASSUME ChannelAssumption == MAX_CONNECTIONS \in Nat /\ MAX_CONNECTIONS > 0

ASSUME ProcessAssumption ==
    /\ Configs \in [Instance -> SUBSET SafeComConfig]
    /\ SntValues \subseteq SeqNo
    /\ Arriving \subseteq Frame
    /\ NULL \notin SmType \cup Array \cup Instance
    /\ NULL \notin {"GetCurrentTimestamp", "no array", "null call"}

\* What a configuration of the application is: it is for at least one
\* connection and for no more than the array has elements, and every instance
\* has arrays of its own.
ASSUME ConfigsAssumption ==
    \A i \in Instance : \A cfg \in Configs[i] :
        /\ cfg.max_connections \in 1 .. MAX_CONNECTIONS
        /\ \A j \in Instance \ {i} : \A other \in Configs[j] :
             cfg.sms = other.sms => cfg.sms = NULL

\* An element of an array as the application allocates it: zero.
Zeroed == [sm |-> NULL, vtable |-> NULL, Tlocal |-> NULL]

Channel == 0 .. MAX_CONNECTIONS - 1

Default(i) ==
    [role |-> IF i = "Rass" THEN "ROLE_CLIENT" ELSE "ROLE_SERVER",
     max_connections |-> 0, sms |-> NULL]

Init ==
    /\ initialized = [i \in Instance |-> FALSE]
    /\ config = [i \in Instance |-> Default(i)]
    /\ instance = [i \in Instance |-> [vtable |-> NULL, config |-> NULL]]
    /\ sms = NULL
    /\ mem = [a \in Array |-> [k \in Channel |-> Zeroed]]
    /\ fault = NULL
    /\ call = NULL
    /\ last = NULL
-----------------------------------------------------------------------------
\* Mutant: a connection gets its role and handler but not its time base.
Configured_NoTlocal(array, i, cfg) ==
    [k \in Channel |->
       [sm |-> IF k < cfg.max_connections THEN Sm_Init(cfg.role) ELSE array[k].sm,
        vtable |-> IF k = 0 THEN i ELSE array[k].vtable,
        Tlocal |-> array[k].Tlocal]]

\* The array when SafeCom_Init_Impl has gone through it.  The vtable and the
\* time base are stored through the pointer sms itself: in element 0 only.
Configured(array, i, cfg) ==
    [k \in Channel |->
       [sm |-> IF k < cfg.max_connections THEN Sm_Init(cfg.role) ELSE array[k].sm,
        vtable |-> IF k = 0 THEN i ELSE array[k].vtable,
        Tlocal |-> IF k = 0 THEN "GetCurrentTimestamp" ELSE array[k].Tlocal]]

SafeCom_Init(i, vtable, cfg) ==
    /\ instance' = [instance EXCEPT ![i] = [vtable |-> vtable, config |-> cfg]]
    /\ sms' = cfg.sms
    /\ IF cfg.sms = NULL
       THEN fault' = "no array" /\ UNCHANGED mem
       ELSE /\ mem' = [mem EXCEPT ![cfg.sms] = Configured(@, i, cfg)]
            /\ UNCHANGED fault

\* Mutant: the flag is not looked at.
Refused_Never(i) == FALSE

Refused(i) == initialized[i]

Initialise(i, vtable, cfg) ==
    /\ IF Refused(i) THEN UNCHANGED <<instance, sms, mem, fault, last>>
       ELSE SafeCom_Init(i, vtable, cfg) /\ last' = i
    /\ initialized' = [initialized EXCEPT ![i] = TRUE]
    /\ call' = NULL

\* Rass_Init_VTable, Sic_Init_VTable: with callbacks of the application.
Init_VTable(i) ==
    /\ fault = NULL
    /\ \E cfg \in Configs[i] : Initialise(i, "application", cfg)
    /\ UNCHANGED config

\* Rass_Init, Sic_Init: with the callbacks of the mocks.  A configuration is
\* stored even when the call is refused; NULL stands for the one stored last.
Init_Mock(i) ==
    /\ fault = NULL
    /\ \E arg \in Configs[i] \cup {NULL} :
         /\ config' = [config EXCEPT ![i] = IF arg = NULL THEN @ ELSE arg]
         /\ Initialise(i, "mock", config'[i])
-----------------------------------------------------------------------------
(***************************************************************************)
(* An event for element k of array a, whose handler ends with r.  The      *)
(* handler is called through a pointer; Data and whatever sends a frame    *)
(* call Tlocal and SendSpdu through two more.                              *)
(***************************************************************************)
Handle(a, k, r, builds) ==
    LET c == mem[a][k]
    IN  IF \/ c.sm = NULL
           \/ (builds \/ r.sent # << >>) /\ NULL \in {c.Tlocal, c.vtable}
        THEN fault' = "null call" /\ UNCHANGED mem
        ELSE mem' = [mem EXCEPT ![a][k].sm = r.sm] /\ UNCHANGED fault

\* The connections that instance i has once it is initialised.
Connections(i) ==
    IF initialized[i] THEN 0 .. instance[i].config.max_connections - 1 ELSE {}

Own(i) == mem[instance[i].config.sms]

\* A service of instance i on connection k: sms decides on which array.
Service(i, op, k, r) ==
    /\ fault = NULL
    /\ Handle(sms, k, r, op = "SendData")
    /\ call' = [by |-> i, op |-> op, id |-> k, on |-> Own(i)[k].sm.state]
    /\ UNCHANGED <<initialized, config, instance, sms, last>>

Now == 0

OpenConnection(i) ==
    \E k \in Connections(i), rand \in SntValues :
        Service(i, "OpenConnection", k,
                SafeCom_OpenConnection_Impl(mem[sms][k].sm, Now, rand))

CloseConnection(i) ==
    \E k \in Connections(i) :
        Service(i, "CloseConnection", k,
                SafeCom_CloseConnection_Impl(mem[sms][k].sm, Now))

SendData(i) ==
    \E k \in Connections(i), msg \in AppData :
        Service(i, "SendData", k, SafeCom_SendData_Impl(mem[sms][k].sm, Now, msg))

\* The callback of the instance: the application's raises the event for its
\* own array, as the tests do, and the mock's does nothing.
ReceiveSpdu(i) ==
    /\ fault = NULL
    /\ instance[i].vtable = "application"
    /\ \E frame \in Arriving, k \in Connections(i) :
         /\ Handle(instance[i].config.sms, k, ReceiveMsg(Own(i)[k].sm, Now, frame), FALSE)
         /\ call' = [by |-> i, op |-> "ReceiveSpdu", id |-> k, on |-> Own(i)[k].sm.state]
    /\ UNCHANGED <<initialized, config, instance, sms, last>>

Next ==
    \E i \in Instance :
        \/ Init_VTable(i)
        \/ Init_Mock(i)
        \/ OpenConnection(i)
        \/ CloseConnection(i)
        \/ SendData(i)
        \/ ReceiveSpdu(i)

Spec == Init /\ [][Next]_vars
-----------------------------------------------------------------------------
(***************************************************************************)
(* No event for the first connection of an instance calls through a        *)
(* pointer that was never set, whichever array sms points to by now.  (An  *)
(* event for another connection does, as soon as it has to send: only the  *)
(* first gets callbacks and a time base.  And the first Rass_Init or       *)
(* Sic_Init follows a null pointer when it is given none and no            *)
(* configuration was stored before.)                                       *)
(***************************************************************************)
NoNullCall == fault = "null call" => call.id > 0

(***************************************************************************)
(* Opening the first connection of an instance, when it is closed, opens   *)
(* it: "ret = Rass_OpenConnection(i); ... assert_true(sms[i].state ==      *)
(* STATE_START)" (test_rass_client.c:100-102).  That holds of the instance *)
(* that was initialised last; the services of the other one have been      *)
(* redirected, with sms, to the array of the last.                         *)
(***************************************************************************)
OpenOpens ==
    /\ call # NULL
    /\ call.op = "OpenConnection" /\ call.id = 0 /\ call.on = "STATE_CLOSED"
    /\ last = call.by
    => Own(call.by)[0].sm.state \in {"STATE_START", "STATE_DOWN"}

(***************************************************************************)
(* An initialisation, be it the first of an instance or a repeated one,    *)
(* leaves alone every connection that is open.                             *)
(***************************************************************************)
InitKeepsOpen ==
    [][ (\E i \in Instance : Init_VTable(i) \/ Init_Mock(i)) =>
          \A a \in Array, k \in Channel :
             mem[a][k].sm # NULL /\ mem[a][k].sm.state # "STATE_CLOSED" =>
               mem'[a][k] = mem[a][k] ]_vars
=============================================================================
