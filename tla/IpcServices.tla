---------------------------- MODULE IpcServices ----------------------------
(***************************************************************************)
(* Handles, services and sessions: the handle table of Nsemu.hpp, the      *)
(* service map and ProcMessage of Ipc.cpp, the service manager of          *)
(* Service/Sm.cpp, and the supervisor calls ConnectToPort, SendSyncRequest *)
(* and CloseHandle.  A request is one guest instruction, so a step is a    *)
(* whole call.                                                             *)
(*                                                                         *)
(* A service object lives in a slot, the host address new returned; a      *)
(* deleted object's slot is used again.  A handle and the service map hold *)
(* raw pointers, as the code does.  gen counts the objects a slot has held *)
(* and made, ended remember which of them a handle was made for and which  *)
(* UnregisterService deleted; the code keeps none of the three.            *)
(***************************************************************************)
EXTENDS Naturals

CONSTANTS
    Slots,        \* host addresses a service object can have
    Names,        \* service names
    Mapping,      \* SERVICE_MAPPING, a function from some names to slots
    HandleBase,   \* the first handle, 0xde00 in BootUp
    MaxHandle,    \* bound: the last handle issued
    MaxGen        \* bound: objects a slot ever holds

(* Pointers that are not slots: the static service manager, the main       *)
(* thread, and garbage.                                                    *)
Sm == "sm:"
MainThread == "thread"
Wild == "wild"
Pointer == Slots \cup {Sm, MainThread, Wild}

ASSUME IpcAssumption ==
    /\ Slots \cap {Sm, MainThread, Wild} = {}
    /\ DOMAIN Mapping \subseteq Names
    /\ \A n \in DOMAIN Mapping : Mapping[n] \in Slots
    /\ \A n, o \in DOMAIN Mapping : Mapping[n] = Mapping[o] => n = o
    /\ HandleBase \in Nat /\ MaxHandle \in Nat /\ MaxGen \in Nat

VARIABLES
    handles,      \* handle -> pointer
    handle_id,    \* the next handle
    services,     \* name -> pointer
    kind,         \* what is at a slot: "free", a built-in class or "base"
    is_domainobj, \* IPC::is_domainobj, one flag for the process
    reply,        \* what the thread's message buffer says after the call
    converted,    \* history: the handles ConvertSessionToDomain was sent on
    gen, made, ended,
    running

vars == <<handles, handle_id, services, kind, is_domainobj, reply, converted,
          gen, made, ended, running>>

(* map[key] = value                                                        *)
Put(f, key, value) ==
    [x \in DOMAIN f \cup {key} |-> IF x = key THEN value ELSE f[x]]

NoHandle == 0
(* The buffer still holds the request, or holds an answer.                 *)
Echo == [answered |-> FALSE, error |-> FALSE, moved |-> NoHandle]
Answer(error, h) == [answered |-> TRUE, error |-> error, moved |-> h]

Kinds == {"free", "builtin", "base"}
Live(s) == kind[s] # "free"
Used == {s \in Slots : gen[s] > 0}

(* The commands of a message, and the service name some have in their data.*)
NameOps == {"GetService", "RegisterService", "UnregisterService"}
SmOps == NameOps \cup {"Initialize"}
ServiceOps == {"call", "open", "stub"}
Commands ==
    [op : NameOps, name : Names] \cup [op : ServiceOps \cup {"Initialize", "unknown"}]

----------------------------------------------------------------------------
Init ==
    /\ handles = [h \in {HandleBase} |-> MainThread]
    /\ handle_id = HandleBase + 1
    /\ services = Mapping
    /\ kind = [s \in Slots |->
                  IF \E n \in DOMAIN Mapping : Mapping[n] = s THEN "builtin" ELSE "free"]
    /\ is_domainobj = FALSE
    /\ reply = Echo
    /\ converted = {}
    /\ gen = [s \in Slots |-> IF \E n \in DOMAIN Mapping : Mapping[n] = s THEN 1 ELSE 0]
    /\ made = [h \in {HandleBase} |-> 0]
    /\ ended = {}
    /\ running = TRUE

(* Which of its objects is at a pointer.                                   *)
Gen(p) == IF p \in Slots THEN gen[p] ELSE 0

(* Mutant: the table entry is made after the increment.                    *)
NewHandlePreIncrement(p, m) ==
    /\ handle_id <= MaxHandle
    /\ handles' = Put(handles, handle_id + 1, p)
    /\ handle_id' = handle_id + 1
    /\ made' = Put(made, handle_id + 1, m)

(* Mutant: the last handle is given out again.                             *)
NewHandleReused(p, m) ==
    /\ handle_id <= MaxHandle
    /\ handles' = Put(handles, handle_id - 1, p)
    /\ made' = Put(made, handle_id - 1, m)
    /\ UNCHANGED handle_id

(* NewHandle: the table grows by one, a handle for the object m of p.      *)
NewHandle(p, m) ==
    /\ handle_id <= MaxHandle
    /\ handles' = Put(handles, handle_id, p)
    /\ handle_id' = handle_id + 1
    /\ made' = Put(made, handle_id, m)

NoNewHandle == UNCHANGED <<handles, handle_id, made>>

(* new: any slot that holds no object, one freed before included.          *)
Allocate(s, k) ==
    /\ ~Live(s)
    /\ gen[s] < MaxGen
    /\ kind' = [kind EXCEPT ![s] = k]
    /\ gen' = [gen EXCEPT ![s] = @ + 1]

NoAllocation == UNCHANGED <<kind, gen, ended>>

Halt ==
    /\ running' = FALSE
    /\ UNCHANGED <<handles, handle_id, services, kind, is_domainobj, reply,
                   converted, gen, made, ended>>

----------------------------------------------------------------------------
(***************************************************************************)
(* The service manager.  Each command fills the reply that Dispatch then   *)
(* returns 0 for, so ProcMessage copies it, error code included.           *)
(***************************************************************************)
Initialize ==
    /\ reply' = Answer(FALSE, NoHandle)
    /\ NoNewHandle /\ NoAllocation
    /\ UNCHANGED services

GetService(name) ==
    /\ name \in DOMAIN services
    /\ NewHandle(services[name], gen[services[name]])
    /\ reply' = Answer(FALSE, handle_id)
    /\ NoAllocation
    /\ UNCHANGED services

(* An out parameter nobody assigned: null, or what the stack held, a       *)
(* pointer to some object made earlier or garbage.                         *)
Unassigned(error) ==
    \/ /\ reply' = Answer(error, NoHandle)
       /\ NoNewHandle
    \/ \E p \in Used \cup {Sm, Wild} :
          /\ NewHandle(p, Gen(p))
          /\ reply' = Answer(error, handle_id)

(* The error path of GetService leaves its out parameter alone.            *)
GetUnknownService(name) ==
    /\ name \notin DOMAIN services
    /\ Unassigned(TRUE)
    /\ NoAllocation
    /\ UNCHANGED services

(* Mutant: replacing a name deletes the object it had.                     *)
RegisterServiceDeletes(name) ==
    \E s \in Slots :
        /\ ~Live(s) /\ gen[s] < MaxGen
        /\ kind' = [t \in Slots |->
                       IF t = s THEN "base"
                       ELSE IF name \in DOMAIN services /\ services[name] = t
                            THEN "free" ELSE kind[t]]
        /\ gen' = [gen EXCEPT ![s] = @ + 1]
        /\ services' = Put(services, name, s)
        /\ NewHandle(s, gen'[s])
        /\ reply' = Answer(FALSE, handle_id)
        /\ UNCHANGED ended

(* Mutant: a name that is registered already keeps its object.             *)
RegisterServiceKeepsOld(name) ==
    \E s \in Slots :
        /\ Allocate(s, "base")
        /\ services' = IF name \in DOMAIN services THEN services ELSE Put(services, name, s)
        /\ NewHandle(s, gen'[s])
        /\ reply' = Answer(FALSE, handle_id)
        /\ UNCHANGED ended

(* A name that is registered again gets the new object; the old one stays. *)
RegisterService(name) ==
    \E s \in Slots :
        /\ Allocate(s, "base")
        /\ services' = Put(services, name, s)
        /\ NewHandle(s, gen'[s])
        /\ reply' = Answer(FALSE, handle_id)
        /\ UNCHANGED ended

(* Mutant: the object is deleted and its name stays in the map.            *)
UnregisterKeepsName(name) ==
    /\ name \in DOMAIN services
    /\ kind' = [kind EXCEPT ![services[name]] = "free"]
    /\ ended' = ended \cup {<<services[name], gen[services[name]]>>}
    /\ reply' = Answer(FALSE, NoHandle)
    /\ NoNewHandle
    /\ UNCHANGED <<services, gen>>

UnregisterService(name) ==
    /\ name \in DOMAIN services
    /\ kind' = [kind EXCEPT ![services[name]] = "free"]
    /\ ended' = ended \cup {<<services[name], gen[services[name]]>>}
    /\ services' = [n \in DOMAIN services \ {name} |-> services[n]]
    /\ reply' = Answer(FALSE, NoHandle)
    /\ NoNewHandle
    /\ UNCHANGED gen

UnregisterUnknown(name) ==
    /\ name \notin DOMAIN services
    /\ reply' = Answer(TRUE, NoHandle)
    /\ NoNewHandle /\ NoAllocation
    /\ UNCHANGED services

SmDispatch(c) ==
    \/ c.op = "Initialize" /\ Initialize
    \/ c.op = "GetService" /\ (GetService(c.name) \/ GetUnknownService(c.name))
    \/ c.op = "RegisterService" /\ RegisterService(c.name)
    \/ c.op = "UnregisterService" /\ (UnregisterService(c.name) \/ UnregisterUnknown(c.name))

(***************************************************************************)
(* A generated service: a command that only answers, one that opens a new  *)
(* object and moves a handle to it, and one whose stub implementation      *)
(* leaves its out parameter alone.                                         *)
(***************************************************************************)
OpenObject ==
    \E s \in Slots :
        /\ Allocate(s, "builtin")
        /\ NewHandle(s, gen'[s])
        /\ reply' = Answer(FALSE, handle_id)
        /\ UNCHANGED ended

ServiceDispatch(c) ==
    /\ UNCHANGED services
    /\ \/ c.op = "call" /\ reply' = Answer(FALSE, NoHandle) /\ NoNewHandle /\ NoAllocation
       \/ c.op = "open" /\ OpenObject
       \/ c.op = "stub" /\ Unassigned(FALSE) /\ NoAllocation

(* IpcService::Dispatch of a registered service returns 0 and builds no    *)
(* reply.  What is copied is a buffer of zeros but for one word, an error  *)
(* code nobody set at an offset nobody set: the guest finds any error and  *)
(* no handle.  An offset outside the buffer is among the failures below.   *)
BaseDispatch ==
    /\ \E error \in BOOLEAN : reply' = Answer(error, NoHandle)
    /\ NoNewHandle /\ NoAllocation
    /\ UNCHANGED services

----------------------------------------------------------------------------
(***************************************************************************)
(* ProcMessage.  A normal message framed otherwise than the process flag   *)
(* says is read from the wrong offset: any command and any name.           *)
(***************************************************************************)
Understood(c, domain) == IF domain = is_domainobj THEN {c} ELSE Commands

(* What the guest sends.  Of messages framed otherwise one stands for all, *)
(* and so does one of all messages to what does not look at them.          *)
Attends(h) ==
    /\ h \in DOMAIN handles
    /\ handles[h] = Sm \/ (handles[h] \in Slots /\ kind[handles[h]] = "builtin")

Sent(h, domain) ==
    IF Attends(h) /\ domain = is_domainobj THEN Commands
    ELSE IF Attends(h) \/ domain THEN {CHOOSE c \in Commands : TRUE}
    ELSE {}

Known(p, op) ==
    \/ p = Sm /\ op \in SmOps
    \/ p \in Slots /\ kind[p] = "builtin" /\ op \in ServiceOps
    \/ p \in Slots /\ kind[p] = "base"

Normal(h, c, domain) ==
    /\ running /\ h \in DOMAIN handles
    /\ \E d \in Understood(c, domain) :
          /\ Known(handles[h], d.op)
          /\ \/ handles[h] = Sm /\ SmDispatch(d)
             \/ handles[h] \in Slots /\ kind[handles[h]] = "builtin" /\ ServiceDispatch(d)
             \/ handles[h] \in Slots /\ kind[handles[h]] = "base" /\ BaseDispatch
    /\ UNCHANGED <<is_domainobj, converted, running>>

(* An unknown command aborts; a thread, a deleted object and garbage have  *)
(* no method table to dispatch through; the error code of a base service   *)
(* may be written outside the buffer.                                      *)
Safe(p) == {d \in Commands : Known(p, d.op) /\ (p \in Slots => kind[p] # "base")}

NormalFails(h, c, domain) ==
    /\ running /\ h \in DOMAIN handles
    /\ ~(Understood(c, domain) \subseteq Safe(handles[h]))
    /\ Halt

(* The reply is built but ret is not 0, so it is not copied.               *)
ConvertSessionToDomain(h) ==
    /\ running /\ h \in DOMAIN handles
    /\ is_domainobj' = TRUE
    /\ converted' = converted \cup {h}
    /\ reply' = Echo
    /\ UNCHANGED <<handles, handle_id, services, kind, gen, made, ended, running>>

(* Commands 2 and 4.                                                       *)
DuplicateSession(h) ==
    /\ running /\ h \in DOMAIN handles
    /\ is_domainobj' = FALSE
    /\ NewHandle(handles[h], made[h])
    /\ reply' = Answer(FALSE, handle_id)
    /\ UNCHANGED <<services, kind, converted, gen, ended, running>>

QueryPointerBufferSize(h) ==
    /\ running /\ h \in DOMAIN handles
    /\ reply' = Answer(FALSE, NoHandle)
    /\ UNCHANGED <<handles, handle_id, services, kind, is_domainobj, converted,
                   gen, made, ended, running>>

(* An unknown control command aborts, and so may the conversion of a       *)
(* session that is garbage: it reads handler->handle.                      *)
ControlFails(h) == running /\ h \in DOMAIN handles /\ Halt

(* A close message, and a type ProcMessage does not know: no reply is      *)
(* copied and the handle stays.                                            *)
Unanswered(h) ==
    /\ running /\ h \in DOMAIN handles
    /\ reply' = Echo
    /\ UNCHANGED <<handles, handle_id, services, kind, is_domainobj, converted,
                   gen, made, ended, running>>

SendToUnknownHandle(h) == running /\ h \notin DOMAIN handles /\ Halt

(* The supervisor call closes nothing.                                     *)
CloseHandle(h) == running /\ h \in DOMAIN handles /\ UNCHANGED vars

ConnectToPort ==
    /\ running
    /\ NewHandle(Sm, 0)
    /\ UNCHANGED <<services, kind, is_domainobj, reply, converted, gen, ended, running>>

ConnectToUnknownPort == running /\ Halt

Next ==
    \/ \E h \in HandleBase..(MaxHandle + 1) :
          \/ \E domain \in BOOLEAN : \E c \in Sent(h, domain) :
                Normal(h, c, domain) \/ NormalFails(h, c, domain)
          \/ ConvertSessionToDomain(h)
          \/ DuplicateSession(h)
          \/ QueryPointerBufferSize(h)
          \/ ControlFails(h)
          \/ Unanswered(h)
          \/ SendToUnknownHandle(h)
          \/ CloseHandle(h)
    \/ ConnectToPort
    \/ ConnectToUnknownPort

Spec == Init /\ [][Next]_vars

----------------------------------------------------------------------------
(***************************************************************************)
(* The variables have their types; the handles issued are those from the   *)
(* first up to the next one, each with a pointer (Nsemu.hpp:49-53).        *)
(***************************************************************************)
TypeOK ==
    /\ handle_id \in Nat /\ handle_id > HandleBase
    /\ handles \in [HandleBase..(handle_id - 1) -> Pointer]
    /\ made \in [HandleBase..(handle_id - 1) -> Nat]
    /\ DOMAIN services \subseteq Names
    /\ \A n \in DOMAIN services : services[n] \in Slots
    /\ kind \in [Slots -> Kinds]
    /\ is_domainobj \in BOOLEAN
    /\ reply \in [answered : BOOLEAN, error : BOOLEAN, moved : Nat]
    /\ converted \subseteq DOMAIN handles
    /\ gen \in [Slots -> Nat]
    /\ ended \subseteq Slots \X Nat
    /\ running \in BOOLEAN

(***************************************************************************)
(* The service map holds live objects, a different one for each name, in   *)
(* every history of registering, replacing and unregistering names and of  *)
(* opening objects in the memory they free (Service/Sm.cpp:8-41).          *)
(***************************************************************************)
ServicesLive ==
    /\ \A n \in DOMAIN services : Live(services[n])
    /\ \A n, o \in DOMAIN services : services[n] = services[o] => n = o

(***************************************************************************)
(* A handle leads to the object it was made for until UnregisterService    *)
(* deletes that very object: closing, duplicating, replacing a name and    *)
(* reusing memory never make a session talk to another service             *)
(* (Nsemu.hpp:49-53, Ipc.hpp:123-130, Service/Sm.cpp:20-41).               *)
(***************************************************************************)
SessionKeepsService ==
    \A h \in DOMAIN handles :
        handles[h] \in Slots =>
            \/ gen[handles[h]] = made[h] /\ Live(handles[h])
            \/ <<handles[h], made[h]>> \in ended

(***************************************************************************)
(* A handle once issued is never taken back or pointed elsewhere           *)
(* (Nsemu.hpp:49-53; CloseHandle of Svc.cpp:244-247 and the close message  *)
(* of Ipc.cpp:116-120 included).                                           *)
(***************************************************************************)
HandlesOnlyGrow ==
    [][\A h \in DOMAIN handles :
          h \in DOMAIN handles' /\ handles'[h] = handles[h]]_vars

----------------------------------------------------------------------------
(***************************************************************************)
(* The table and the map are what Sessions promises, whatever memory the   *)
(* objects get (Nsemu.hpp:49-53, Ipc.cpp:103-160, Service/Sm.cpp:6-41).    *)
(* is_domainobj is no part of it: how messages are framed is not what a    *)
(* session is with, and a conversion sets it without an answer.            *)
(* An object is a slot together with how many it has held; a handle is     *)
(* with what it was made for, and what is not at a slot counts none.       *)
(***************************************************************************)
View == INSTANCE Sessions WITH
    Manager <- <<Sm, 0>>, Thread <- <<MainThread, 0>>, Garbage <- <<Wild, 0>>,
    objects <- {<<s, gen[s]>> : s \in {t \in Slots : Live(t)}},
    deleted <- ended,
    names <- [n \in DOMAIN services |-> <<services[n], gen[services[n]]>>],
    sessions <- [h \in DOMAIN handles |-> <<handles[h], made[h]>>],
    answer <- reply

IsSessions == View!Spec

----------------------------------------------------------------------------
(***************************************************************************)
(* What the comments of the code say and the code does not do.             *)
(***************************************************************************)

(***************************************************************************)
(* Service/Sm.cpp:11-13, "Unknown service name" and "error code": a failed *)
(* lookup answers with an error and no session.  The out parameter is not  *)
(* assigned on that path and the generated Dispatch makes a handle for any *)
(* value but null.                                                         *)
(***************************************************************************)
ErrorMovesNothing == reply.error => reply.moved = NoHandle

(***************************************************************************)
(* Ipc.cpp:126, "ConvertSessionToDomain": the control command changes the  *)
(* session it is sent on.  The flag it sets is one for the process, so     *)
(* every other session's messages are read as a domain's from then on.     *)
(***************************************************************************)
ConversionIsPerSession ==
    is_domainobj =>
        \A h \in DOMAIN handles : handles[h] \in Slots \cup {Sm} => h \in converted

============================================================================
