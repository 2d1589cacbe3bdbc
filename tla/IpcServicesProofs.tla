------------------------- MODULE IpcServicesProofs -------------------------
(***************************************************************************)
(* Theorems about IpcServices for every set of slots and names and every   *)
(* bound.                                                                  *)
(***************************************************************************)
EXTENDS IpcServices, TLAPS

(***************************************************************************)
(* What holds between the map, the handles and the memory: an object at a  *)
(* slot was counted, and one that is gone was deleted by UnregisterService.*)
(***************************************************************************)
SlotsOK ==
    /\ \A s \in Slots : Live(s) => gen[s] > 0
    /\ \A s \in Slots : gen[s] > 0 /\ ~Live(s) => <<s, gen[s]>> \in ended
    /\ \A s \in Slots, m \in Nat : <<s, m>> \in ended => gen[s] > 0

IInv == TypeOK /\ ServicesLive /\ SessionKeepsService /\ SlotsOK

(* NewHandle extends the table by the next handle (Nsemu.hpp:49-53).       *)
LEMMA NewHandleTyped ==
    ASSUME TypeOK, NEW p \in Pointer, NEW m \in Nat, NewHandle(p, m)
    PROVE  /\ handle_id' \in Nat /\ handle_id' > HandleBase
           /\ handles' \in [HandleBase..(handle_id' - 1) -> Pointer]
           /\ made' \in [HandleBase..(handle_id' - 1) -> Nat]
           /\ DOMAIN handles' = DOMAIN handles \cup {handle_id}
           /\ handles'[handle_id] = p /\ made'[handle_id] = m
           /\ \A h \in DOMAIN handles : /\ h # handle_id
                                        /\ handles'[h] = handles[h]
                                        /\ made'[h] = made[h]
  <1>0. HandleBase \in Nat /\ handle_id \in Nat /\ handle_id > HandleBase
    BY IpcAssumption DEF TypeOK
  <1>1. /\ handles' = Put(handles, handle_id, p)
        /\ made' = Put(made, handle_id, m)
        /\ handle_id' = handle_id + 1
    BY DEF NewHandle
  <1>2. HandleBase..(handle_id' - 1) = (HandleBase..(handle_id - 1)) \cup {handle_id}
    BY <1>0, <1>1
  <1>4. DOMAIN handles = HandleBase..(handle_id - 1) /\ DOMAIN made = HandleBase..(handle_id - 1)
    BY DEF TypeOK
  <1>5. \A h \in DOMAIN handles : h # handle_id
    BY <1>0, <1>4
  <1>6. handles' = [h \in HandleBase..(handle_id' - 1) |->
                       IF h = handle_id THEN p ELSE handles[h]]
    BY <1>1, <1>2, <1>4 DEF Put
  <1>7. made' = [h \in HandleBase..(handle_id' - 1) |->
                       IF h = handle_id THEN m ELSE made[h]]
    BY <1>1, <1>2, <1>4 DEF Put
  <1>8. /\ handles' \in [HandleBase..(handle_id' - 1) -> Pointer]
        /\ made' \in [HandleBase..(handle_id' - 1) -> Nat]
    BY <1>2, <1>6, <1>7 DEF TypeOK
  <1>9. handle_id' \in Nat /\ handle_id' > HandleBase
    BY <1>0, <1>1
  <1>10. /\ DOMAIN handles' = DOMAIN handles \cup {handle_id}
         /\ handles'[handle_id] = p
         /\ \A h \in DOMAIN handles : h # handle_id => handles'[h] = handles[h]
    BY <1>2, <1>4, <1>6
  <1>11. /\ made'[handle_id] = m
         /\ \A h \in DOMAIN made : h # handle_id => made'[h] = made[h]
    BY <1>2, <1>4, <1>7
  <1> QED BY <1>4, <1>5, <1>8, <1>9, <1>10, <1>11

(***************************************************************************)
(* A handle is good when it leads to what it was made for or that was      *)
(* deleted; SessionKeepsService is that every handle is.                   *)
(***************************************************************************)
Good(p, m) == p \in Slots => (gen[p] = m /\ Live(p)) \/ <<p, m>> \in ended

(* A step that gives out a handle to p keeps the invariant when what was   *)
(* good stays good and p is good afterwards.                               *)
LEMMA HandleIInv ==
    ASSUME IInv, NEW p \in Pointer, NEW m \in Nat, NewHandle(p, m),
           kind' \in [Slots -> Kinds], gen' \in [Slots -> Nat],
           ended' \subseteq Slots \X Nat,
           ServicesLive', SlotsOK',
           DOMAIN services' \subseteq Names,
           \A n \in DOMAIN services' : services'[n] \in Slots,
           reply' \in [answered : BOOLEAN, error : BOOLEAN, moved : Nat],
           is_domainobj' \in BOOLEAN, running' \in BOOLEAN, converted' = converted,
           \A q \in Slots, k \in Nat : Good(q, k) => Good(q, k)',
           p \in Slots => (gen'[p] = m /\ Live(p)') \/ <<p, m>> \in ended'
    PROVE  IInv'
  <1>0. TypeOK
    BY DEF IInv
  <1>1. /\ handle_id' \in Nat /\ handle_id' > HandleBase
        /\ handles' \in [HandleBase..(handle_id' - 1) -> Pointer]
        /\ made' \in [HandleBase..(handle_id' - 1) -> Nat]
        /\ DOMAIN handles' = DOMAIN handles \cup {handle_id}
        /\ handles'[handle_id] = p /\ made'[handle_id] = m
        /\ \A h \in DOMAIN handles : /\ h # handle_id
                                     /\ handles'[h] = handles[h]
                                     /\ made'[h] = made[h]
    BY <1>0, NewHandleTyped
  <1>2. TypeOK'
    BY <1>0, <1>1 DEF TypeOK
  <1>3. ASSUME NEW h \in DOMAIN handles' PROVE Good(handles[h], made[h])'
    <2>1. CASE h = handle_id
      BY <1>1, <2>1 DEF Good
    <2>2. CASE h \in DOMAIN handles
      <3>1. handles'[h] = handles[h] /\ made'[h] = made[h]
        BY <1>1, <2>2
      <3>2. Good(handles[h], made[h]) /\ made[h] \in Nat
        BY <2>2 DEF IInv, TypeOK, SessionKeepsService, Good
      <3>3. CASE handles[h] \in Slots
        BY <3>1, <3>2, <3>3 DEF Good
      <3>4. CASE handles[h] \notin Slots
        BY <3>1, <3>4 DEF Good
      <3> QED BY <3>3, <3>4
    <2> QED BY <1>1, <1>3, <2>1, <2>2
  <1>4. SessionKeepsService'
    BY <1>3 DEF SessionKeepsService, Good
  <1> QED BY <1>2, <1>4 DEF IInv

(* A step that gives out no handle.                                        *)
LEMMA NoHandleIInv ==
    ASSUME IInv, NoNewHandle,
           kind' \in [Slots -> Kinds], gen' = gen,
           ended' \subseteq Slots \X Nat,
           ServicesLive', SlotsOK',
           DOMAIN services' \subseteq Names,
           \A n \in DOMAIN services' : services'[n] \in Slots,
           reply' \in [answered : BOOLEAN, error : BOOLEAN, moved : Nat],
           is_domainobj' \in BOOLEAN, running' \in BOOLEAN,
           converted' \subseteq DOMAIN handles,
           \A q \in Slots, m \in Nat : Good(q, m) => Good(q, m)'
    PROVE  IInv'
  <1>1. TypeOK'
    BY DEF IInv, TypeOK, NoNewHandle
  <1>2. ASSUME NEW h \in DOMAIN handles', handles'[h] \in Slots
        PROVE  Good(handles[h], made[h])'
    <2>1. handles' = handles /\ made' = made
      BY DEF NoNewHandle
    <2>2. Good(handles[h], made[h]) /\ made[h] \in Nat
      BY <1>2, <2>1 DEF IInv, TypeOK, SessionKeepsService, Good
    <2>3. handles[h] \in Slots
      BY <1>2, <2>1
    <2> QED BY <2>1, <2>2, <2>3
  <1>3. SessionKeepsService'
    BY <1>2 DEF SessionKeepsService, Good
  <1> QED BY <1>1, <1>3 DEF IInv

(* A step that leaves the memory and the map alone keeps everything good.  *)
LEMMA SameMemory ==
    ASSUME IInv, UNCHANGED <<services, kind, gen, ended>>
    PROVE  /\ kind' \in [Slots -> Kinds] /\ gen' \in [Slots -> Nat]
           /\ ended' \subseteq Slots \X Nat
           /\ ServicesLive' /\ SlotsOK'
           /\ DOMAIN services' \subseteq Names
           /\ \A n \in DOMAIN services' : services'[n] \in Slots
           /\ \A q \in Slots, m \in Nat : Good(q, m) => Good(q, m)'
  BY DEF IInv, TypeOK, ServicesLive, SlotsOK, Live, Good

(* new in a slot that held no object keeps what was good: a handle to that *)
(* slot was made for an object UnregisterService deleted.                  *)
LEMMA AllocateKeeps ==
    ASSUME IInv, NEW s \in Slots, NEW k \in Kinds \ {"free"}, Allocate(s, k),
           UNCHANGED ended
    PROVE  /\ kind' \in [Slots -> Kinds] /\ gen' \in [Slots -> Nat]
           /\ gen'[s] = gen[s] + 1 /\ Live(s)' /\ ~Live(s)
           /\ \A q \in Slots : Live(q) => Live(q)'
           /\ SlotsOK'
           /\ \A q \in Slots, m \in Nat : Good(q, m) => Good(q, m)'
  <1>1. /\ kind' = [kind EXCEPT ![s] = k] /\ gen' = [gen EXCEPT ![s] = @ + 1]
        /\ kind \in [Slots -> Kinds] /\ gen \in [Slots -> Nat] /\ kind[s] = "free"
    BY DEF Allocate, IInv, TypeOK, Live
  <1>2. kind' \in [Slots -> Kinds] /\ gen' \in [Slots -> Nat]
    BY <1>1
  <1>3. gen'[s] = gen[s] + 1 /\ kind'[s] = k
    BY <1>1
  <1>4. \A q \in Slots : q # s => kind'[q] = kind[q] /\ gen'[q] = gen[q]
    BY <1>1
  <1>5. \A q \in Slots : Live(q) => q # s /\ Live(q)'
    BY <1>1, <1>4 DEF Live
  <1>6. SlotsOK'
    <2> SUFFICES ASSUME NEW q \in Slots
                 PROVE  /\ Live(q)' => gen'[q] > 0
                        /\ gen'[q] > 0 /\ ~Live(q)' => <<q, gen'[q]>> \in ended'
                        /\ \A m \in Nat : <<q, m>> \in ended' => gen'[q] > 0
      BY DEF SlotsOK
    <2>1. CASE q = s
      BY <1>1, <1>3, <2>1 DEF Live
    <2>2. CASE q # s
      BY <1>4, <2>2 DEF Live, IInv, SlotsOK
    <2> QED BY <2>1, <2>2
  <1>7. ASSUME NEW q \in Slots, NEW m \in Nat, Good(q, m) PROVE Good(q, m)'
    BY <1>1, <1>4, <1>7 DEF Good, Live
  <1> QED BY <1>1, <1>2, <1>3, <1>5, <1>6, <1>7 DEF Live

----------------------------------------------------------------------------
(* The inductive invariant, command by command.                            *)

LEMMA InitIInv == Init => IInv
  <1> SUFFICES ASSUME Init PROVE IInv
    OBVIOUS
  <1> USE IpcAssumption DEF Init
  <1>1. HandleBase..(handle_id - 1) = {HandleBase}
    OBVIOUS
  <1>2. handles \in [{HandleBase} -> Pointer] /\ made \in [{HandleBase} -> Nat]
    BY DEF Pointer
  <1>3. kind \in [Slots -> Kinds] /\ gen \in [Slots -> Nat]
    BY DEF Kinds
  <1>4. reply \in [answered : BOOLEAN, error : BOOLEAN, moved : Nat]
    BY DEF Echo, NoHandle
  <1>5. TypeOK
    <2>1. handle_id \in Nat /\ handle_id > HandleBase
      OBVIOUS
    <2>2. DOMAIN services \subseteq Names /\ \A n \in DOMAIN services : services[n] \in Slots
      OBVIOUS
    <2>3. is_domainobj \in BOOLEAN /\ running \in BOOLEAN /\ converted = {} /\ ended = {}
      OBVIOUS
    <2> QED BY <1>1, <1>2, <1>3, <1>4, <2>1, <2>2, <2>3 DEF TypeOK
  <1>6. ServicesLive
    BY DEF ServicesLive, Live
  <1>7. SlotsOK
    BY DEF SlotsOK, Live
  <1>8. SessionKeepsService
    BY DEF SessionKeepsService
  <1> QED BY <1>5, <1>6, <1>7, <1>8 DEF IInv

(* An answer is a reply.                                                   *)
LEMMA AnswerType ==
    ASSUME NEW e \in BOOLEAN, NEW h \in Nat
    PROVE  Answer(e, h) \in [answered : BOOLEAN, error : BOOLEAN, moved : Nat]
  BY DEF Answer

(* A handle to any pointer, with the memory as it was.                     *)
LEMMA MovePointer ==
    ASSUME IInv, NEW p \in Pointer, NEW m \in Nat, NewHandle(p, m), Good(p, m),
           UNCHANGED <<services, kind, gen, ended, converted>>,
           reply' \in [answered : BOOLEAN, error : BOOLEAN, moved : Nat],
           is_domainobj' \in BOOLEAN, running' \in BOOLEAN
    PROVE  IInv'
  <1>1. p \in Slots => (gen'[p] = m /\ Live(p)') \/ <<p, m>> \in ended'
    BY DEF Good, Live
  <1> QED BY <1>1, SameMemory, HandleIInv

(* No new handle, the memory as it was.                                    *)
LEMMA MoveNothing ==
    ASSUME IInv, NoNewHandle, UNCHANGED <<services, kind, gen, ended>>,
           converted' \subseteq DOMAIN handles,
           reply' \in [answered : BOOLEAN, error : BOOLEAN, moved : Nat],
           is_domainobj' \in BOOLEAN, running' \in BOOLEAN
    PROVE  IInv'
  BY SameMemory, NoHandleIInv

(* An out parameter that is not assigned (the error path of GetService and *)
(* the stub implementations).                                              *)
LEMMA UnassignedIInv ==
    ASSUME IInv, NEW e \in BOOLEAN, Unassigned(e),
           UNCHANGED <<services, kind, gen, ended, converted, is_domainobj, running>>
    PROVE  IInv'
  <1>0. /\ handle_id \in Nat /\ NoHandle \in Nat /\ converted \subseteq DOMAIN handles
        /\ is_domainobj' \in BOOLEAN /\ running' \in BOOLEAN
    BY DEF IInv, TypeOK, NoHandle
  <1>1. CASE reply' = Answer(e, NoHandle) /\ NoNewHandle
    <2>1. reply' \in [answered : BOOLEAN, error : BOOLEAN, moved : Nat]
      BY <1>0, <1>1, AnswerType
    <2> QED BY <1>0, <1>1, <2>1, MoveNothing
  <1>2. ASSUME NEW p \in Used \cup {Sm, Wild}, NewHandle(p, Gen(p)), reply' = Answer(e, handle_id)
        PROVE  IInv'
    <2>1. p \in Pointer
      BY DEF Used, Pointer
    <2>2. p \in Slots => p \in Used
      BY IpcAssumption
    <2>3. Good(p, Gen(p)) /\ Gen(p) \in Nat
      BY <2>2 DEF Used, IInv, TypeOK, SlotsOK, Good, Gen
    <2>4. reply' \in [answered : BOOLEAN, error : BOOLEAN, moved : Nat]
      BY <1>0, <1>2, AnswerType
    <2> QED BY <1>0, <1>2, <2>1, <2>3, <2>4, MovePointer
  <1> QED BY <1>1, <1>2 DEF Unassigned

(* Registering a name, new or not (Service/Sm.cpp:20-27).                  *)
LEMMA RegisterIInv ==
    ASSUME IInv, NEW name \in Names, RegisterService(name),
           UNCHANGED <<converted, is_domainobj, running>>
    PROVE  IInv'
  <1>1. PICK s \in Slots :
            /\ Allocate(s, "base")
            /\ services' = Put(services, name, s)
            /\ NewHandle(s, gen'[s])
            /\ reply' = Answer(FALSE, handle_id)
            /\ UNCHANGED ended
    BY DEF RegisterService
  <1>2. "base" \in Kinds \ {"free"}
    BY DEF Kinds
  <1>3. /\ kind' \in [Slots -> Kinds] /\ gen' \in [Slots -> Nat]
        /\ Live(s)' /\ ~Live(s)
        /\ \A q \in Slots : Live(q) => Live(q)'
        /\ SlotsOK'
        /\ \A q \in Slots, m \in Nat : Good(q, m) => Good(q, m)'
    BY <1>1, <1>2, AllocateKeeps
  <1>4. /\ DOMAIN services' = DOMAIN services \cup {name}
        /\ services'[name] = s
        /\ \A n \in DOMAIN services : n # name => services'[n] = services[n]
    BY <1>1 DEF Put
  <1>5. /\ DOMAIN services' \subseteq Names
        /\ \A n \in DOMAIN services' : services'[n] \in Slots
    BY <1>4 DEF IInv, TypeOK
  <1>6. ServicesLive'
    <2>1. \A n \in DOMAIN services : services[n] \in Slots /\ Live(services[n]) /\ services[n] # s
      BY <1>3 DEF IInv, TypeOK, ServicesLive
    <2>2. \A n \in DOMAIN services' : kind'[services'[n]] # "free"
      BY <1>3, <1>4, <2>1 DEF Live
    <2>3. \A n, o \in DOMAIN services' : services'[n] = services'[o] => n = o
      BY <1>4, <2>1 DEF IInv, ServicesLive
    <2> QED BY <2>2, <2>3 DEF ServicesLive, Live
  <1>7. /\ handle_id \in Nat /\ is_domainobj' \in BOOLEAN /\ running' \in BOOLEAN
        /\ ended' \subseteq Slots \X Nat
    BY <1>1 DEF IInv, TypeOK
  <1>8. reply' \in [answered : BOOLEAN, error : BOOLEAN, moved : Nat]
    BY <1>1, <1>7, AnswerType
  <1>9. s \in Pointer /\ gen'[s] \in Nat
    BY <1>3 DEF Pointer
  <1> QED BY <1>1, <1>3, <1>5, <1>6, <1>7, <1>8, <1>9, HandleIInv

(* Opening an object of a generated service.                               *)
LEMMA OpenIInv ==
    ASSUME IInv, OpenObject, UNCHANGED <<services, converted, is_domainobj, running>>
    PROVE  IInv'
  <1>1. PICK s \in Slots :
            /\ Allocate(s, "builtin")
            /\ NewHandle(s, gen'[s])
            /\ reply' = Answer(FALSE, handle_id)
            /\ UNCHANGED ended
    BY DEF OpenObject
  <1>2. "builtin" \in Kinds \ {"free"}
    BY DEF Kinds
  <1>3. /\ kind' \in [Slots -> Kinds] /\ gen' \in [Slots -> Nat]
        /\ Live(s)' /\ ~Live(s)
        /\ \A q \in Slots : Live(q) => Live(q)'
        /\ SlotsOK'
        /\ \A q \in Slots, m \in Nat : Good(q, m) => Good(q, m)'
    BY <1>1, <1>2, AllocateKeeps
  <1>4. /\ DOMAIN services' \subseteq Names
        /\ \A n \in DOMAIN services' : services'[n] \in Slots
    BY DEF IInv, TypeOK
  <1>5. ServicesLive'
    BY <1>3 DEF IInv, TypeOK, ServicesLive
  <1>6. /\ handle_id \in Nat /\ is_domainobj' \in BOOLEAN /\ running' \in BOOLEAN
        /\ ended' \subseteq Slots \X Nat
    BY <1>1 DEF IInv, TypeOK
  <1>7. reply' \in [answered : BOOLEAN, error : BOOLEAN, moved : Nat]
    BY <1>1, <1>6, AnswerType
  <1>8. s \in Pointer /\ gen'[s] \in Nat
    BY <1>3 DEF Pointer
  <1> QED BY <1>1, <1>3, <1>4, <1>5, <1>6, <1>7, <1>8, HandleIInv

(* Unregistering a name (Service/Sm.cpp:29-41): no other name had its      *)
(* object, and the handles that did are accounted for.                     *)
LEMMA UnregisterIInv ==
    ASSUME IInv, NEW name \in Names, UnregisterService(name),
           UNCHANGED <<converted, is_domainobj, running>>
    PROVE  IInv'
  <1> DEFINE s == services[name]
  <1>1. /\ name \in DOMAIN services /\ s \in Slots
        /\ kind' = [kind EXCEPT ![s] = "free"]
        /\ ended' = ended \cup {<<s, gen[s]>>}
        /\ services' = [n \in DOMAIN services \ {name} |-> services[n]]
        /\ reply' = Answer(FALSE, NoHandle) /\ NoNewHandle /\ gen' = gen
    BY DEF UnregisterService, IInv, TypeOK
  <1>2. /\ kind \in [Slots -> Kinds] /\ gen \in [Slots -> Nat] /\ Live(s)
    BY <1>1 DEF IInv, TypeOK, ServicesLive
  <1> HIDE DEF s
  <1>3. /\ kind' \in [Slots -> Kinds] /\ kind'[s] = "free"
        /\ \A q \in Slots : q # s => kind'[q] = kind[q]
    BY <1>1, <1>2 DEF Kinds
  <1>4. ended' \subseteq Slots \X Nat
    BY <1>1, <1>2 DEF IInv, TypeOK
  <1>5. /\ DOMAIN services' = DOMAIN services \ {name}
        /\ \A n \in DOMAIN services' : services'[n] = services[n]
    BY <1>1
  <1>6. /\ DOMAIN services' \subseteq Names
        /\ \A n \in DOMAIN services' : services'[n] \in Slots
    BY <1>5 DEF IInv, TypeOK
  <1>7. \A n \in DOMAIN services' : services[n] # s
    BY <1>1, <1>5 DEF IInv, ServicesLive, s
  <1>8. ServicesLive'
    BY <1>3, <1>5, <1>6, <1>7 DEF IInv, ServicesLive, Live
  <1>9. SlotsOK'
    <2>1. gen[s] > 0
      BY <1>1, <1>2 DEF IInv, SlotsOK
    <2>2. ASSUME NEW q \in Slots
          PROVE  /\ Live(q)' => gen'[q] > 0
                 /\ gen'[q] > 0 /\ ~Live(q)' => <<q, gen'[q]>> \in ended'
                 /\ \A m \in Nat : <<q, m>> \in ended' => gen'[q] > 0
      <3>1. CASE q = s
        BY <1>1, <1>3, <2>1, <3>1 DEF Live
      <3>2. CASE q # s
        BY <1>1, <1>3, <3>2 DEF IInv, SlotsOK, Live
      <3> QED BY <3>1, <3>2
    <2> QED BY <2>2 DEF SlotsOK
  <1>10. \A q \in Slots, m \in Nat : Good(q, m) => Good(q, m)'
    BY <1>1, <1>3 DEF Good, Live
  <1>11. /\ reply' \in [answered : BOOLEAN, error : BOOLEAN, moved : Nat]
         /\ is_domainobj' \in BOOLEAN /\ running' \in BOOLEAN
         /\ converted' \subseteq DOMAIN handles
    BY <1>1, AnswerType DEF IInv, TypeOK, NoHandle
  <1> QED BY <1>1, <1>3, <1>4, <1>6, <1>8, <1>9, <1>10, <1>11, NoHandleIInv

(* A request the service manager reads a name from has one.                *)
LEMMA NamedCommand ==
    ASSUME NEW d \in Commands, d.op \in NameOps
    PROVE  d.name \in Names
  BY DEF Commands, NameOps, ServiceOps

(* What the guest sends is a command.                                      *)
LEMMA SentAreCommands == \A h, domain : Sent(h, domain) \subseteq Commands
  <1>1. [op |-> "call"] \in Commands
    BY DEF Commands, ServiceOps
  <1>2. (CHOOSE c \in Commands : TRUE) \in Commands
    BY <1>1
  <1> QED BY <1>2 DEF Sent

(* A normal message, whatever its command was understood as.               *)
LEMMA NormalIInv ==
    ASSUME IInv, NEW h, NEW domain, NEW c \in Sent(h, domain), Normal(h, c, domain)
    PROVE  IInv'
  <1>1. PICK d \in Understood(c, domain) :
            \/ SmDispatch(d)
            \/ ServiceDispatch(d)
            \/ BaseDispatch
    BY DEF Normal
  <1>2. d \in Commands
    BY SentAreCommands DEF Understood
  <1>3. UNCHANGED <<converted, is_domainobj, running>>
    BY DEF Normal
  <1>4. /\ converted' \subseteq DOMAIN handles /\ is_domainobj' \in BOOLEAN
        /\ running' \in BOOLEAN
        /\ NoHandle \in Nat /\ Answer(FALSE, NoHandle) \in
              [answered : BOOLEAN, error : BOOLEAN, moved : Nat]
        /\ Answer(TRUE, NoHandle) \in
              [answered : BOOLEAN, error : BOOLEAN, moved : Nat]
    BY <1>3, AnswerType DEF IInv, TypeOK, NoHandle
  <1>5. ASSUME GetService(d.name) PROVE IInv'
    <2>1. services[d.name] \in Slots /\ Live(services[d.name])
      BY <1>5 DEF GetService, IInv, TypeOK, ServicesLive
    <2>5. gen[services[d.name]] \in Nat /\ Good(services[d.name], gen[services[d.name]])
      BY <2>1 DEF IInv, TypeOK, Good
    <2>2. reply' \in [answered : BOOLEAN, error : BOOLEAN, moved : Nat]
      BY <1>5, AnswerType DEF GetService, IInv, TypeOK
    <2>3. services[d.name] \in Pointer
      BY <2>1 DEF Pointer
    <2>4. NewHandle(services[d.name], gen[services[d.name]]) /\ UNCHANGED <<services, kind, gen, ended>>
      BY <1>5 DEF GetService, NoAllocation
    <2> QED BY <1>3, <1>4, <2>2, <2>3, <2>4, <2>5, MovePointer
  <1>6. CASE SmDispatch(d)
    <2>1. CASE Initialize
      BY <1>3, <1>4, <2>1, MoveNothing DEF Initialize, NoAllocation
    <2>2. CASE GetUnknownService(d.name)
      BY <1>3, <2>2, UnassignedIInv DEF GetUnknownService, NoAllocation
    <2>3. CASE d.op = "RegisterService" /\ RegisterService(d.name)
      BY <1>2, <1>3, <2>3, NamedCommand, RegisterIInv DEF NameOps
    <2>4. CASE d.op = "UnregisterService" /\ UnregisterService(d.name)
      BY <1>2, <1>3, <2>4, NamedCommand, UnregisterIInv DEF NameOps
    <2>5. CASE UnregisterUnknown(d.name)
      BY <1>3, <1>4, <2>5, MoveNothing DEF UnregisterUnknown, NoAllocation
    <2> QED BY <1>5, <1>6, <2>1, <2>2, <2>3, <2>4, <2>5 DEF SmDispatch
  <1>7. CASE ServiceDispatch(d)
    <2>1. CASE reply' = Answer(FALSE, NoHandle) /\ NoNewHandle /\ NoAllocation
      BY <1>3, <1>4, <1>7, <2>1, MoveNothing DEF ServiceDispatch, NoAllocation
    <2>2. CASE OpenObject
      BY <1>3, <1>7, <2>2, OpenIInv DEF ServiceDispatch
    <2>3. CASE Unassigned(FALSE) /\ NoAllocation
      BY <1>3, <1>7, <2>3, UnassignedIInv DEF ServiceDispatch, NoAllocation
    <2> QED BY <1>7, <2>1, <2>2, <2>3 DEF ServiceDispatch
  <1>8. CASE BaseDispatch
    BY <1>3, <1>4, <1>8, MoveNothing DEF BaseDispatch, NoAllocation
  <1> QED BY <1>1, <1>6, <1>7, <1>8

(* Commands 2 and 4 (Ipc.cpp:133-155): the new handle leads where the old  *)
(* one does, and is as good.                                               *)
LEMMA DuplicateIInv ==
    ASSUME IInv, NEW h \in DOMAIN handles, NewHandle(handles[h], made[h]),
           UNCHANGED <<services, kind, gen, ended, converted>>,
           reply' \in [answered : BOOLEAN, error : BOOLEAN, moved : Nat],
           is_domainobj' \in BOOLEAN, running' \in BOOLEAN
    PROVE  IInv'
  <1>1. handles[h] \in Pointer /\ made[h] \in Nat
    BY DEF IInv, TypeOK
  <1>2. Good(handles[h], made[h])
    BY DEF IInv, SessionKeepsService, Good
  <1> QED BY <1>1, <1>2, MovePointer

(* Every step.                                                             *)
LEMMA NextIInv == IInv /\ [Next]_vars => IInv'
  <1> SUFFICES ASSUME IInv, [Next]_vars PROVE IInv'
    OBVIOUS
  <1>0. /\ handle_id \in Nat /\ NoHandle \in Nat /\ gen \in [Slots -> Nat]
        /\ converted \subseteq DOMAIN handles
        /\ is_domainobj \in BOOLEAN /\ running \in BOOLEAN
        /\ reply \in [answered : BOOLEAN, error : BOOLEAN, moved : Nat]
        /\ Echo \in [answered : BOOLEAN, error : BOOLEAN, moved : Nat]
    BY DEF IInv, TypeOK, NoHandle, Echo
  <1>1. ASSUME Halt PROVE IInv'
    BY <1>0, <1>1, MoveNothing DEF Halt, NoNewHandle
  <1>2. ASSUME UNCHANGED vars PROVE IInv'
    BY <1>0, <1>2, MoveNothing DEF vars, NoNewHandle
  <1>3. ASSUME NEW h \in HandleBase..(MaxHandle + 1), NEW domain \in BOOLEAN,
               NEW c \in Sent(h, domain),
               Normal(h, c, domain) \/ NormalFails(h, c, domain)
        PROVE  IInv'
    BY <1>1, <1>3, NormalIInv DEF NormalFails
  <1>4. ASSUME NEW h, ConvertSessionToDomain(h) PROVE IInv'
    <2>1. converted' \subseteq DOMAIN handles /\ is_domainobj' \in BOOLEAN
      BY <1>0, <1>4 DEF ConvertSessionToDomain
    <2> QED BY <1>0, <1>4, <2>1, MoveNothing DEF ConvertSessionToDomain, NoNewHandle
  <1>5. ASSUME NEW h, DuplicateSession(h) PROVE IInv'
    <2>1. reply' \in [answered : BOOLEAN, error : BOOLEAN, moved : Nat]
      BY <1>0, <1>5, AnswerType DEF DuplicateSession
    <2>2. is_domainobj' \in BOOLEAN /\ running' \in BOOLEAN
      BY <1>0, <1>5 DEF DuplicateSession
    <2> QED BY <1>5, <2>1, <2>2, DuplicateIInv DEF DuplicateSession
  <1>6. ASSUME NEW h, QueryPointerBufferSize(h) PROVE IInv'
    <2>1. reply' \in [answered : BOOLEAN, error : BOOLEAN, moved : Nat]
      BY <1>0, <1>6, AnswerType DEF QueryPointerBufferSize
    <2> QED BY <1>0, <1>6, <2>1, MoveNothing DEF QueryPointerBufferSize, NoNewHandle
  <1>7. ASSUME NEW h, ControlFails(h) \/ SendToUnknownHandle(h) PROVE IInv'
    BY <1>1, <1>7 DEF ControlFails, SendToUnknownHandle
  <1>8. ASSUME NEW h, Unanswered(h) PROVE IInv'
    BY <1>0, <1>8, MoveNothing DEF Unanswered, NoNewHandle
  <1>9. ASSUME NEW h, CloseHandle(h) PROVE IInv'
    BY <1>2, <1>9 DEF CloseHandle
  <1>10. ASSUME ConnectToPort PROVE IInv'
    <2>1. Sm \in Pointer /\ 0 \in Nat /\ Good(Sm, 0)
      BY IpcAssumption DEF Pointer, Good
    <2>2. reply' = reply /\ is_domainobj' = is_domainobj /\ running' = running
      BY <1>10 DEF ConnectToPort
    <2> QED BY <1>0, <1>10, <2>1, <2>2, MovePointer DEF ConnectToPort
  <1>11. ASSUME ConnectToUnknownPort PROVE IInv'
    BY <1>1, <1>11 DEF ConnectToUnknownPort
  <1> QED BY <1>2, <1>3, <1>4, <1>5, <1>6, <1>7, <1>8, <1>9, <1>10, <1>11 DEF Next

----------------------------------------------------------------------------
(* The theorems.                                                           *)

(* The inductive invariant holds of every state.                           *)
THEOREM Inductive == Spec => []IInv
  <1> QED BY InitIInv, NextIInv, PTL DEF Spec

(* The variables keep their types, and handles are issued one after the    *)
(* other without a gap (Nsemu.hpp:49-53).                                  *)
THEOREM TypeCorrect == Spec => []TypeOK
  <1>1. IInv => TypeOK
    BY DEF IInv
  <1> QED BY <1>1, Inductive, PTL

(* The service map never holds a deleted object or one object twice        *)
(* (Service/Sm.cpp:8-41).                                                  *)
THEOREM MapIsLive == Spec => []ServicesLive
  <1>1. IInv => ServicesLive
    BY DEF IInv
  <1> QED BY <1>1, Inductive, PTL

(* A session stays with the service it was opened to until that service is *)
(* unregistered (Nsemu.hpp:49-53, Service/Sm.cpp:20-41).                   *)
THEOREM SessionsKeepTheirService == Spec => []SessionKeepsService
  <1>1. IInv => SessionKeepsService
    BY DEF IInv
  <1> QED BY <1>1, Inductive, PTL

(* No handle is taken back or pointed elsewhere (Nsemu.hpp:49-53).         *)
THEOREM HandlesAreForEver == Spec => HandlesOnlyGrow
  <1> DEFINE Kept == \A h \in DOMAIN handles : h \in DOMAIN handles' /\ handles'[h] = handles[h]
  <1>1. ASSUME TypeOK, [Next]_vars PROVE Kept
    <2>0. \A h \in DOMAIN handles : h # handle_id
      BY <1>1, IpcAssumption DEF TypeOK
    <2>1. ASSUME NEW p, NEW m, NewHandle(p, m) PROVE Kept
      BY <2>0, <2>1 DEF NewHandle, Put
    <2>2. ASSUME handles' = handles PROVE Kept
      BY <2>2
    <2>3. ASSUME NEW e, Unassigned(e) PROVE Kept
      BY <2>1, <2>2, <2>3 DEF Unassigned, NoNewHandle
    <2>4. ASSUME NEW c, SmDispatch(c) PROVE Kept
      BY <2>1, <2>2, <2>3, <2>4
      DEF SmDispatch, Initialize, GetService, GetUnknownService, RegisterService,
          UnregisterService, UnregisterUnknown, NoNewHandle
    <2>5. ASSUME NEW c, ServiceDispatch(c) PROVE Kept
      BY <2>1, <2>2, <2>3, <2>5 DEF ServiceDispatch, OpenObject, NoNewHandle
    <2>6. ASSUME NEW h, NEW c, NEW domain, Normal(h, c, domain) PROVE Kept
      BY <2>2, <2>4, <2>5, <2>6 DEF Normal, BaseDispatch, NoNewHandle
    <2>7. ASSUME Halt PROVE Kept
      BY <2>2, <2>7 DEF Halt
    <2> QED
      BY <1>1, <2>1, <2>2, <2>6, <2>7
      DEF Next, vars, NormalFails, ConvertSessionToDomain, DuplicateSession,
          QueryPointerBufferSize, ControlFails, Unanswered, SendToUnknownHandle,
          CloseHandle, ConnectToPort, ConnectToUnknownPort
  <1>2. TypeOK /\ [Next]_vars => [Kept]_vars
    BY <1>1
  <1> QED BY <1>2, TypeCorrect, PTL DEF Spec, HandlesOnlyGrow

----------------------------------------------------------------------------
(***************************************************************************)
(* The refinement of Sessions.  Beyond IInv it needs that identities are   *)
(* never used again: what was deleted at a slot came before what is there, *)
(* and what is not an object counts none.                                  *)
(***************************************************************************)
Identities ==
    /\ \A s \in Slots, m \in Nat :
          <<s, m>> \in ended => m < gen[s] \/ (m = gen[s] /\ ~Live(s))
    /\ \A h \in DOMAIN handles : handles[h] \notin Slots => made[h] = 0

(* How a step changes the memory and the table (Nsemu.hpp:49-53,           *)
(* Service/Sm.cpp:20-41).                                                  *)
LEMMA StepsOfMemory ==
    ASSUME IInv, [Next]_vars
    PROVE  \/ UNCHANGED <<kind, gen, ended>>
           \/ \E s \in Slots : (Allocate(s, "base") \/ Allocate(s, "builtin")) /\ UNCHANGED ended
           \/ \E n \in DOMAIN services :
                 /\ kind' = [kind EXCEPT ![services[n]] = "free"]
                 /\ ended' = ended \cup {<<services[n], gen[services[n]]>>}
                 /\ UNCHANGED gen
  <1> DEFINE Steps ==
          \/ UNCHANGED <<kind, gen, ended>>
          \/ \E s \in Slots : (Allocate(s, "base") \/ Allocate(s, "builtin")) /\ UNCHANGED ended
          \/ \E n \in DOMAIN services :
                /\ kind' = [kind EXCEPT ![services[n]] = "free"]
                /\ ended' = ended \cup {<<services[n], gen[services[n]]>>}
                /\ UNCHANGED gen
  <1>1. ASSUME NEW c, SmDispatch(c) PROVE Steps
    BY <1>1 DEF SmDispatch, Initialize, GetService, GetUnknownService, RegisterService,
                UnregisterService, UnregisterUnknown, NoAllocation
  <1>2. ASSUME NEW c, ServiceDispatch(c) PROVE Steps
    BY <1>2 DEF ServiceDispatch, OpenObject, NoAllocation
  <1>3. ASSUME NEW h, NEW c, NEW domain, Normal(h, c, domain) PROVE Steps
    BY <1>1, <1>2, <1>3 DEF Normal, BaseDispatch, NoAllocation
  <1>4. ASSUME UNCHANGED <<kind, gen, ended>> PROVE Steps
    BY <1>4
  <1> QED
    BY <1>3, <1>4
    DEF Next, vars, Halt, NormalFails, ConvertSessionToDomain, DuplicateSession,
        QueryPointerBufferSize, ControlFails, Unanswered, SendToUnknownHandle,
        CloseHandle, ConnectToPort, ConnectToUnknownPort

LEMMA StepsOfTable ==
    ASSUME IInv, Identities, [Next]_vars
    PROVE  NoNewHandle \/ \E p \in Pointer, m \in Nat : NewHandle(p, m) /\ (p \notin Slots => m = 0)
  <1> DEFINE Steps == NoNewHandle \/ \E p \in Pointer, m \in Nat : NewHandle(p, m) /\ (p \notin Slots => m = 0)
  <1>0. /\ gen \in [Slots -> Nat] /\ \A s \in Slots : s \in Pointer
        /\ \A h \in DOMAIN handles : handles[h] \in Pointer /\ made[h] \in Nat
    BY DEF IInv, TypeOK, Pointer
  <1>1. ASSUME NEW p \in Pointer, NEW m \in Nat, NewHandle(p, m), p \notin Slots => m = 0
        PROVE  Steps
    BY <1>1
  <1>2. ASSUME NoNewHandle PROVE Steps
    BY <1>2
  <1> HIDE DEF Steps
  <1>3. ASSUME NEW e, Unassigned(e) PROVE Steps
    <2>1. ASSUME NEW p \in Used \cup {Sm, Wild}, NewHandle(p, Gen(p)) PROVE Steps
      <3>1. p \in Pointer /\ Gen(p) \in Nat /\ (p \notin Slots => Gen(p) = 0)
        BY <1>0 DEF Used, Pointer, Gen
      <3> QED BY <1>1, <2>1, <3>1
    <2> QED BY <1>2, <1>3, <2>1 DEF Unassigned
  <1>4. ASSUME NEW n \in DOMAIN services, NewHandle(services[n], gen[services[n]]) PROVE Steps
    <2>1. services[n] \in Slots
      BY DEF IInv, TypeOK
    <2> QED BY <1>0, <1>1, <1>4, <2>1
  <1>5. ASSUME NEW s \in Slots, NEW k, Allocate(s, k), NewHandle(s, gen'[s]) PROVE Steps
    <2>1. gen'[s] \in Nat
      BY <1>0, <1>5 DEF Allocate
    <2> QED BY <1>0, <1>1, <1>5, <2>1
  <1>6. ASSUME NEW c, SmDispatch(c) PROVE Steps
    BY <1>2, <1>3, <1>4, <1>5, <1>6
    DEF SmDispatch, Initialize, GetService, GetUnknownService, RegisterService,
        UnregisterService, UnregisterUnknown
  <1>7. ASSUME NEW c, ServiceDispatch(c) PROVE Steps
    BY <1>2, <1>3, <1>5, <1>7 DEF ServiceDispatch, OpenObject
  <1>8. ASSUME NEW h, NEW c, NEW domain, Normal(h, c, domain) PROVE Steps
    BY <1>2, <1>6, <1>7, <1>8 DEF Normal, BaseDispatch
  <1>9. ASSUME UNCHANGED <<handles, handle_id, made>> PROVE Steps
    BY <1>2, <1>9 DEF NoNewHandle
  <1>10. ASSUME NEW h, DuplicateSession(h) PROVE Steps
    BY <1>0, <1>1, <1>10 DEF DuplicateSession, Identities
  <1>11. ASSUME ConnectToPort PROVE Steps
    BY <1>1, <1>11 DEF ConnectToPort, Pointer
  <1>12. Steps
    BY <1>8, <1>9, <1>10, <1>11
    DEF Next, vars, Halt, NormalFails, ConvertSessionToDomain,
        QueryPointerBufferSize, ControlFails, Unanswered, SendToUnknownHandle,
        CloseHandle, ConnectToUnknownPort
  <1> QED BY <1>12 DEF Steps

LEMMA NextIdentities == IInv /\ Identities /\ [Next]_vars => Identities'
  <1> SUFFICES ASSUME IInv, Identities, [Next]_vars PROVE Identities'
    OBVIOUS
  <1>0. /\ kind \in [Slots -> Kinds] /\ gen \in [Slots -> Nat] /\ TypeOK
        /\ \A n \in DOMAIN services : services[n] \in Slots /\ Live(services[n])
    BY DEF IInv, TypeOK, ServicesLive
  <1>1. ASSUME NEW s \in Slots, NEW m \in Nat, <<s, m>> \in ended'
        PROVE  m < gen'[s] \/ (m = gen'[s] /\ ~Live(s)')
    <2>0. <<s, m>> \in ended => m < gen[s] \/ (m = gen[s] /\ ~Live(s))
      BY DEF Identities
    <2>1. CASE UNCHANGED <<kind, gen, ended>>
      BY <1>1, <2>0, <2>1 DEF Live
    <2>2. ASSUME NEW t \in Slots, Allocate(t, "base") \/ Allocate(t, "builtin"), UNCHANGED ended
          PROVE  m < gen'[s] \/ (m = gen'[s] /\ ~Live(s)')
      <3>1. /\ gen' = [gen EXCEPT ![t] = @ + 1]
            /\ \A q \in Slots : q # t => kind'[q] = kind[q]
        BY <1>0, <2>2 DEF Allocate
      <3>2. CASE s = t
        BY <1>0, <1>1, <2>0, <2>2, <3>1, <3>2
      <3>3. CASE s # t
        BY <1>0, <1>1, <2>0, <2>2, <3>1, <3>3 DEF Live
      <3> QED BY <3>2, <3>3
    <2>3. ASSUME NEW n \in DOMAIN services,
                 kind' = [kind EXCEPT ![services[n]] = "free"],
                 ended' = ended \cup {<<services[n], gen[services[n]]>>},
                 UNCHANGED gen
          PROVE  m < gen'[s] \/ (m = gen'[s] /\ ~Live(s)')
      <3>1. services[n] \in Slots /\ Live(services[n])
        BY <1>0
      <3>2. CASE s = services[n]
        BY <1>0, <1>1, <2>0, <2>3, <3>1, <3>2 DEF Live
      <3>3. CASE s # services[n]
        BY <1>0, <1>1, <2>0, <2>3, <3>1, <3>3 DEF Live
      <3> QED BY <3>2, <3>3
    <2> QED BY <2>1, <2>2, <2>3, StepsOfMemory
  <1>2. ASSUME NEW h \in DOMAIN handles', handles'[h] \notin Slots PROVE made'[h] = 0
    <2>1. CASE NoNewHandle
      BY <1>2, <2>1 DEF NoNewHandle, Identities
    <2>2. ASSUME NEW p \in Pointer, NEW m \in Nat, NewHandle(p, m), p \notin Slots => m = 0
          PROVE  made'[h] = 0
      <3>1. /\ DOMAIN handles' = DOMAIN handles \cup {handle_id}
            /\ handles'[handle_id] = p /\ made'[handle_id] = m
            /\ \A k \in DOMAIN handles : handles'[k] = handles[k] /\ made'[k] = made[k]
        BY <1>0, <2>2, NewHandleTyped
      <3>2. CASE h = handle_id
        BY <1>2, <2>2, <3>1, <3>2
      <3>3. CASE h \in DOMAIN handles
        BY <1>2, <3>1, <3>3 DEF Identities
      <3> QED BY <3>1, <3>2, <3>3
    <2> QED BY <2>1, <2>2, StepsOfTable
  <1> QED BY <1>1, <1>2 DEF Identities

(* No identity comes back (Service/Sm.cpp:20-41).                          *)
THEOREM IdentitiesAreForEver == Spec => [](IInv /\ Identities)
  <1>1. Init => Identities
    <2> SUFFICES ASSUME Init PROVE Identities
      OBVIOUS
    <2> QED BY DEF Init, Identities
  <1> QED BY <1>1, NextIdentities, Inductive, PTL DEF Spec

----------------------------------------------------------------------------
(* What Sessions sees of a step: the objects, the names and the sessions.  *)
Objects == {<<s, gen[s]>> : s \in {t \in Slots : Live(t)}}
Bound == [n \in DOMAIN services |-> <<services[n], gen[services[n]]>>]
With == [h \in DOMAIN handles |-> <<handles[h], made[h]>>]

LEMMA SameObjects ==
    ASSUME IInv, UNCHANGED <<kind, gen, ended>>
    PROVE  Objects' = Objects /\ View!KeepObjects
  <1>1. Objects' = Objects
    BY DEF Objects, Live
  <1> QED BY <1>1 DEF View!KeepObjects, Objects

LEMMA SameNames ==
    ASSUME IInv, UNCHANGED services, \A n \in DOMAIN services : gen'[services[n]] = gen[services[n]]
    PROVE  Bound' = Bound
  BY DEF Bound

LEMMA SameSessions == ASSUME NoNewHandle PROVE With' = With
  BY DEF NoNewHandle, With

(* A handle is a new session (Nsemu.hpp:49-53).                            *)
LEMMA BeginsSession ==
    ASSUME TypeOK, NEW p \in Pointer, NEW m \in Nat, NewHandle(p, m),
           NEW w, w = <<p, m>>
    PROVE  /\ View!Begin(handle_id, w)
           /\ handle_id \in DOMAIN With'
  <1>1. /\ DOMAIN handles' = DOMAIN handles \cup {handle_id}
        /\ handles'[handle_id] = p /\ made'[handle_id] = m
        /\ \A h \in DOMAIN handles : /\ h # handle_id
                                     /\ handles'[h] = handles[h]
                                     /\ made'[h] = made[h]
    BY NewHandleTyped
  <1>2. DOMAIN With = DOMAIN handles /\ DOMAIN With' = DOMAIN handles'
    BY DEF With
  <1>3. handle_id \notin DOMAIN With
    BY <1>1, <1>2
  <1>4. With' = [x \in DOMAIN With \cup {handle_id} |->
                    IF x = handle_id THEN <<p, m>> ELSE With[x]]
    <2>1. ASSUME NEW x \in DOMAIN handles'
          PROVE  <<handles'[x], made'[x]>>
                    = IF x = handle_id THEN <<p, m>> ELSE With[x]
      BY <1>1, <2>1 DEF With
    <2> QED BY <1>1, <1>2, <2>1 DEF With
  <1> QED BY <1>1, <1>2, <1>3, <1>4 DEF View!Begin, View!Put, With

LEMMA BringsSession ==
    ASSUME TypeOK, NEW p \in Pointer, NEW m \in Nat, NEW e \in BOOLEAN,
           NewHandle(p, m), reply' = Answer(e, handle_id),
           NEW w, w = <<p, m>>
    PROVE  View!Brings(w, e)
  <1>1. View!Begin(handle_id, w) /\ handle_id \in DOMAIN With'
    BY BeginsSession
  <1>2. View!Says(e, handle_id)
    BY DEF View!Says, Answer
  <1> QED BY <1>1, <1>2 DEF View!Brings, With

(* An answer without a handle, and none.                                   *)
LEMMA Acknowledged ==
    ASSUME IInv, NoNewHandle, UNCHANGED <<services, kind, gen, ended>>
    PROVE  /\ \A e \in BOOLEAN : reply' = Answer(e, NoHandle) => View!Acknowledge(e)
           /\ reply' = Echo => View!Ignore
  <1>1. \A e \in BOOLEAN : reply' = Answer(e, NoHandle) => View!Says(e, NoHandle)
    BY DEF View!Says, Answer
  <1>2. reply' = Echo => reply' = View!NoAnswer
    BY DEF View!NoAnswer, Echo
  <1>3. View!KeepObjects /\ Bound' = Bound /\ With' = With
    BY SameObjects, SameNames, SameSessions
  <1> QED BY <1>1, <1>2, <1>3 DEF View!Acknowledge, View!Ignore, Bound, With

(* new makes an object that never was (Ipc.hpp:75-85, Service/Sm.cpp:20-27)*)
LEMMA Creates ==
    ASSUME IInv, Identities, NEW s \in Slots, NEW k \in Kinds \ {"free"}, Allocate(s, k),
           UNCHANGED ended, NEW o, o = <<s, gen'[s]>>
    PROVE  /\ View!Create(o) /\ o \in Objects'
           /\ \A q \in Slots : Live(q) => gen'[q] = gen[q]
  <1>1. /\ kind' = [kind EXCEPT ![s] = k] /\ gen' = [gen EXCEPT ![s] = @ + 1]
        /\ kind \in [Slots -> Kinds] /\ gen \in [Slots -> Nat] /\ ~Live(s)
    BY DEF Allocate, IInv, TypeOK
  <1>2. /\ gen'[s] = gen[s] + 1 /\ gen[s] \in Nat /\ kind'[s] = k
        /\ \A q \in Slots : q # s => gen'[q] = gen[q] /\ kind'[q] = kind[q]
    BY <1>1
  <1>3. <<s, gen'[s]>> \notin Objects
    BY <1>1 DEF Objects
  <1>4. <<s, gen'[s]>> \notin ended
    BY <1>2 DEF Identities
  <1>5. Live(s)' /\ \A q \in Slots : q # s => (Live(q)' <=> Live(q))
    BY <1>2 DEF Live
  <1>6. Objects' = Objects \cup {<<s, gen'[s]>>}
    <2>1. ASSUME NEW x \in Objects' PROVE x \in Objects \cup {<<s, gen'[s]>>}
      <3>1. PICK q \in Slots : Live(q)' /\ x = <<q, gen'[q]>>
        BY <2>1 DEF Objects
      <3> QED BY <1>2, <1>5, <3>1 DEF Objects
    <2>2. ASSUME NEW x \in Objects PROVE x \in Objects'
      <3>1. PICK q \in Slots : Live(q) /\ x = <<q, gen[q]>>
        BY <2>2 DEF Objects
      <3>2. Live(q)' /\ x = <<q, gen'[q]>>
        BY <1>1, <1>2, <1>5, <3>1
      <3> QED BY <3>2 DEF Objects
    <2>3. <<s, gen'[s]>> \in Objects'
      BY <1>5 DEF Objects
    <2> QED BY <2>1, <2>2, <2>3
  <1>7. \A q \in Slots : Live(q) => gen'[q] = gen[q]
    BY <1>1, <1>2
  <1> QED BY <1>3, <1>4, <1>6, <1>7 DEF View!Create, Objects

(* Opening an object of a generated service.                               *)
LEMMA OpenIsOpen ==
    ASSUME IInv, Identities, OpenObject, UNCHANGED services
    PROVE  View!Open
  <1>1. PICK s \in Slots :
            /\ Allocate(s, "builtin")
            /\ NewHandle(s, gen'[s])
            /\ reply' = Answer(FALSE, handle_id)
            /\ UNCHANGED ended
    BY DEF OpenObject
  <1>2. TypeOK /\ s \in Pointer /\ "builtin" \in Kinds \ {"free"}
    BY DEF IInv, Pointer, Kinds
  <1>3. gen'[s] \in Nat
    BY <1>1, <1>2, AllocateKeeps
  <1>0. PICK o : o = <<s, gen'[s]>>
    OBVIOUS
  <1>4. /\ View!Create(o) /\ o \in Objects'
        /\ \A q \in Slots : Live(q) => gen'[q] = gen[q]
    BY <1>1, <1>2, <1>0, Creates
  <1>5. View!Brings(o, FALSE)
    BY <1>1, <1>2, <1>3, <1>0, BringsSession
  <1>6. Bound' = Bound
    BY <1>4, SameNames DEF IInv, ServicesLive, TypeOK
  <1> QED BY <1>4, <1>5, <1>6 DEF View!Open, Objects, Bound

LEMMA RegisterIsRegister ==
    ASSUME IInv, Identities, NEW name \in Names, RegisterService(name)
    PROVE  View!Register(name)
  <1>1. PICK s \in Slots :
            /\ Allocate(s, "base")
            /\ services' = Put(services, name, s)
            /\ NewHandle(s, gen'[s])
            /\ reply' = Answer(FALSE, handle_id)
            /\ UNCHANGED ended
    BY DEF RegisterService
  <1>2. TypeOK /\ s \in Pointer /\ "base" \in Kinds \ {"free"}
    BY DEF IInv, Pointer, Kinds
  <1>3. gen'[s] \in Nat
    BY <1>1, <1>2, AllocateKeeps
  <1>0. PICK o : o = <<s, gen'[s]>>
    OBVIOUS
  <1>4. /\ View!Create(o) /\ o \in Objects'
        /\ \A q \in Slots : Live(q) => gen'[q] = gen[q]
    BY <1>1, <1>2, <1>0, Creates
  <1>5. View!Brings(o, FALSE)
    BY <1>1, <1>2, <1>3, <1>0, BringsSession
  <1>6. /\ DOMAIN services' = DOMAIN services \cup {name}
        /\ services'[name] = s
        /\ \A n \in DOMAIN services : n # name => services'[n] = services[n]
    BY <1>1 DEF Put
  <1>7. Bound' = [n \in DOMAIN Bound \cup {name} |->
                     IF n = name THEN <<s, gen'[s]>> ELSE Bound[n]]
    <2>1. DOMAIN Bound = DOMAIN services /\ DOMAIN Bound' = DOMAIN services'
      BY DEF Bound
    <2>2. ASSUME NEW n \in DOMAIN services'
          PROVE  <<services'[n], gen'[services'[n]]>>
                    = IF n = name THEN <<s, gen'[s]>> ELSE Bound[n]
      <3>1. CASE n = name
        BY <1>6, <3>1
      <3>2. CASE n # name
        <4>1. n \in DOMAIN services /\ services[n] \in Slots /\ Live(services[n])
          BY <1>6, <3>2 DEF IInv, ServicesLive, TypeOK
        <4> QED BY <1>4, <1>6, <3>2, <4>1 DEF Bound
      <3> QED BY <3>1, <3>2
    <2> QED BY <1>6, <2>1, <2>2 DEF Bound
  <1> QED BY <1>4, <1>5, <1>7, <1>0 DEF View!Register, View!Put, Objects, Bound

LEMMA UnregisterIsUnregister ==
    ASSUME IInv, NEW name \in Names, UnregisterService(name)
    PROVE  View!Unregister(name)
  <1> DEFINE s == services[name]
  <1>1. /\ name \in DOMAIN services /\ s \in Slots
        /\ kind' = [kind EXCEPT ![s] = "free"]
        /\ ended' = ended \cup {<<s, gen[s]>>}
        /\ services' = [n \in DOMAIN services \ {name} |-> services[n]]
        /\ reply' = Answer(FALSE, NoHandle) /\ NoNewHandle /\ gen' = gen
        /\ kind \in [Slots -> Kinds]
    BY DEF UnregisterService, IInv, TypeOK
  <1>2. Bound[name] = <<s, gen[s]>> /\ DOMAIN Bound = DOMAIN services
    BY <1>1 DEF Bound
  <1> HIDE DEF s
  <1>3. kind'[s] = "free" /\ \A q \in Slots : q # s => kind'[q] = kind[q]
    BY <1>1
  <1>4. Objects' = Objects \ {<<s, gen[s]>>}
    <2>1. ASSUME NEW o \in Objects' PROVE o \in Objects \ {<<s, gen[s]>>}
      <3>1. PICK q \in Slots : Live(q)' /\ o = <<q, gen'[q]>>
        BY <2>1 DEF Objects
      <3>2. q # s
        BY <1>3, <3>1 DEF Live
      <3> QED BY <1>1, <1>3, <3>1, <3>2 DEF Objects, Live
    <2>2. ASSUME NEW o \in Objects, o # <<s, gen[s]>> PROVE o \in Objects'
      <3>1. PICK q \in Slots : Live(q) /\ o = <<q, gen[q]>>
        BY <2>2 DEF Objects
      <3>2. Live(q)' /\ o = <<q, gen'[q]>>
        BY <1>1, <1>3, <2>2, <3>1 DEF Live
      <3> QED BY <3>2 DEF Objects
    <2> QED BY <2>1, <2>2
  <1>5. Bound' = [n \in DOMAIN Bound \ {name} |-> Bound[n]]
    BY <1>1, <1>2 DEF Bound
  <1>6. View!Says(FALSE, NoHandle) /\ With' = With
    BY <1>1, SameSessions DEF View!Says, Answer
  <1> QED BY <1>1, <1>2, <1>4, <1>5, <1>6 DEF View!Unregister, Objects, Bound, With

(* An out parameter nobody assigned leads to what there is or was.         *)
LEMMA UnassignedIsStray ==
    ASSUME IInv, NEW e \in BOOLEAN, Unassigned(e), UNCHANGED <<services, kind, gen, ended>>
    PROVE  View!Stray(e)
  <1>0. TypeOK /\ gen \in [Slots -> Nat]
    BY DEF IInv, TypeOK
  <1>1. View!KeepObjects /\ Bound' = Bound
    BY SameObjects, SameNames
  <1>2. CASE reply' = Answer(e, NoHandle) /\ NoNewHandle
    <2>1. View!Says(e, NoHandle) /\ With' = With
      BY <1>2, SameSessions DEF View!Says, Answer
    <2> QED BY <1>1, <2>1 DEF View!Stray, Bound, With
  <1>3. ASSUME NEW p \in Used \cup {Sm, Wild}, NewHandle(p, Gen(p)), reply' = Answer(e, handle_id)
        PROVE  View!Stray(e)
    <2>1. p \in Pointer /\ Gen(p) \in Nat
      BY <1>0 DEF Used, Pointer, Gen
    <2>2. View!Brings(<<p, Gen(p)>>, e)
      BY <1>0, <1>3, <2>1, BringsSession
    <2>3. <<p, Gen(p)>> \in Objects \cup ended \cup {<<Sm, 0>>, <<Wild, 0>>}
      <3>1. CASE p \in Used
        <4>1. p \in Slots /\ gen[p] > 0 /\ Gen(p) = gen[p]
          BY <3>1 DEF Used, Gen
        <4>2. Live(p) \/ <<p, gen[p]>> \in ended
          BY <4>1 DEF IInv, SlotsOK
        <4> QED BY <4>1, <4>2 DEF Objects
      <3>2. CASE p \in {Sm, Wild}
        BY <3>2, IpcAssumption DEF Gen
      <3> QED BY <3>1, <3>2
    <2> QED BY <1>1, <2>2, <2>3 DEF View!Stray, Objects, Bound
  <1> QED BY <1>2, <1>3 DEF Unassigned

(* A request the service manager gets (Service/Sm.cpp:6-41).               *)
LEMMA LookupIsLookup ==
    ASSUME IInv, NEW n \in Names, GetService(n)
    PROVE  View!Lookup(n)
  <1>0. TypeOK /\ gen \in [Slots -> Nat] /\ DOMAIN Bound = DOMAIN services
    BY DEF IInv, TypeOK, Bound
  <1>1. /\ n \in DOMAIN services /\ services[n] \in Slots
        /\ NewHandle(services[n], gen[services[n]]) /\ reply' = Answer(FALSE, handle_id)
        /\ UNCHANGED <<services, kind, gen, ended>>
    BY DEF GetService, NoAllocation, IInv, TypeOK
  <1>2. services[n] \in Pointer /\ gen[services[n]] \in Nat
    BY <1>0, <1>1 DEF Pointer
  <1>3. View!Brings(<<services[n], gen[services[n]]>>, FALSE)
    BY <1>0, <1>1, <1>2, BringsSession
  <1>4. View!KeepObjects /\ Bound' = Bound /\ Bound[n] = <<services[n], gen[services[n]]>>
    BY <1>1, SameObjects, SameNames DEF Bound
  <1> QED BY <1>0, <1>1, <1>3, <1>4 DEF View!Lookup, Bound

LEMMA SmManages ==
    ASSUME IInv, Identities, NEW d \in Commands, SmDispatch(d)
    PROVE  (\E n \in Names : View!Manage(n)) \/ View!Acknowledge(FALSE)
  <1>0. DOMAIN Bound = DOMAIN services
    BY DEF Bound
  <1>1. CASE Initialize
    BY <1>1, Acknowledged DEF Initialize, NoAllocation
  <1>2. ASSUME NEW n \in Names, GetService(n) PROVE View!Manage(n)
    BY <1>2, LookupIsLookup DEF View!Manage
  <1>3. ASSUME NEW n \in Names, GetUnknownService(n) PROVE View!Manage(n)
    <2>1. View!Stray(TRUE) /\ n \notin DOMAIN Bound
      BY <1>0, <1>3, UnassignedIsStray DEF GetUnknownService, NoAllocation
    <2> QED BY <2>1 DEF View!Manage, Bound
  <1>4. ASSUME NEW n \in Names, RegisterService(n) PROVE View!Manage(n)
    BY <1>4, RegisterIsRegister DEF View!Manage
  <1>5. ASSUME NEW n \in Names, UnregisterService(n) PROVE View!Manage(n)
    BY <1>5, UnregisterIsUnregister DEF View!Manage
  <1>6. ASSUME NEW n \in Names, UnregisterUnknown(n) PROVE View!Manage(n)
    <2>1. View!Acknowledge(TRUE) /\ n \notin DOMAIN Bound
      BY <1>0, <1>6, Acknowledged DEF UnregisterUnknown, NoAllocation
    <2> QED BY <2>1 DEF View!Manage, Bound
  <1>7. d.op \in NameOps => d.name \in Names
    BY NamedCommand
  <1> QED BY <1>1, <1>2, <1>3, <1>4, <1>5, <1>6, <1>7 DEF SmDispatch, NameOps

(* A normal message.                                                       *)
LEMMA NormalIsRequest ==
    ASSUME IInv, Identities, NEW h, NEW domain, NEW c \in Sent(h, domain), Normal(h, c, domain)
    PROVE  h \in DOMAIN With /\ View!Request(h)
  <1>1. h \in DOMAIN handles /\ DOMAIN With = DOMAIN handles
    BY DEF Normal, With
  <1>2. PICK d \in Understood(c, domain) :
            \/ handles[h] = Sm /\ SmDispatch(d)
            \/ handles[h] \in Slots /\ kind[handles[h]] = "builtin" /\ ServiceDispatch(d)
            \/ handles[h] \in Slots /\ kind[handles[h]] = "base" /\ BaseDispatch
    BY DEF Normal
  <1>3. d \in Commands
    BY SentAreCommands DEF Understood
  <1>4. With[h] = <<handles[h], made[h]>>
    BY <1>1 DEF With
  <1>5. ASSUME handles[h] \in Slots, Live(handles[h]) PROVE View!Reaches(h)
    <2>1. <<handles[h], gen[handles[h]]>> \in Objects
      BY <1>5 DEF Objects
    <2>2. With[h] \in Objects \/ With[h] \in ended
      BY <1>1, <1>4, <1>5, <2>1 DEF IInv, SessionKeepsService
    <2> QED BY <2>1, <2>2 DEF View!Reaches, With, Objects
  <1>6. CASE handles[h] = Sm /\ SmDispatch(d)
    <2>1. With[h] = <<Sm, 0>>
      BY <1>1, <1>4, <1>6, IpcAssumption DEF Identities
    <2>2. (\E n \in Names : View!Manage(n)) \/ View!Acknowledge(FALSE)
      BY <1>3, <1>6, SmManages
    <2> QED BY <1>1, <2>1, <2>2 DEF View!Request, With
  <1>7. CASE handles[h] \in Slots /\ kind[handles[h]] = "builtin" /\ ServiceDispatch(d)
    <2>1. View!Reaches(h)
      BY <1>5, <1>7 DEF Live
    <2>2. CASE reply' = Answer(FALSE, NoHandle) /\ NoNewHandle /\ NoAllocation
      <3>1. View!Acknowledge(FALSE)
        BY <1>7, <2>2, Acknowledged DEF ServiceDispatch, NoAllocation
      <3> QED BY <1>1, <3>1 DEF View!Request
    <2>3. CASE OpenObject
      <3>1. View!Open
        BY <1>7, <2>3, OpenIsOpen DEF ServiceDispatch
      <3> QED BY <1>1, <2>1, <3>1 DEF View!Request, View!Serve
    <2>4. CASE Unassigned(FALSE) /\ NoAllocation
      <3>1. View!Stray(FALSE)
        BY <1>7, <2>4, UnassignedIsStray DEF ServiceDispatch, NoAllocation
      <3> QED BY <1>1, <2>1, <3>1 DEF View!Request, View!Serve
    <2> QED BY <1>7, <2>2, <2>3, <2>4 DEF ServiceDispatch
  <1>8. CASE handles[h] \in Slots /\ kind[handles[h]] = "base" /\ BaseDispatch
    <2>1. View!Reaches(h)
      BY <1>5, <1>8 DEF Live
    <2>2. PICK e \in BOOLEAN : View!Acknowledge(e)
      BY <1>8, Acknowledged DEF BaseDispatch, NoAllocation
    <2> QED BY <1>1, <2>1, <2>2 DEF View!Request, View!Serve
  <1> QED BY <1>2, <1>7, <1>8, <1>6

(* Commands 2 and 4: the session goes on under a second handle.            *)
LEMMA DuplicateIsDuplicate ==
    ASSUME IInv, NEW h, DuplicateSession(h)
    PROVE  h \in DOMAIN With /\ View!Request(h)
  <1>1. /\ h \in DOMAIN handles /\ NewHandle(handles[h], made[h])
        /\ reply' = Answer(FALSE, handle_id)
        /\ UNCHANGED <<services, kind, gen, ended>>
        /\ handles[h] \in Pointer /\ made[h] \in Nat /\ TypeOK
    BY DEF DuplicateSession, IInv, TypeOK
  <1>2. View!Brings(<<handles[h], made[h]>>, FALSE)
    BY <1>1, BringsSession
  <1>3. h \in DOMAIN With /\ With[h] = <<handles[h], made[h]>>
    BY <1>1 DEF With
  <1>4. View!KeepObjects /\ Bound' = Bound
    BY <1>1, SameObjects, SameNames
  <1> QED BY <1>2, <1>3, <1>4 DEF View!Request, View!Duplicate, With, Bound

(* The service manager is there for the asking (Svc.cpp:284-298).          *)
LEMMA ConnectIsConnect == ASSUME IInv, ConnectToPort PROVE View!Connect
  <1>1. /\ NewHandle(Sm, 0) /\ UNCHANGED <<services, kind, gen, ended, reply>>
        /\ Sm \in Pointer /\ TypeOK
    BY DEF ConnectToPort, IInv, Pointer
  <1>2. View!Begin(handle_id, <<Sm, 0>>) /\ handle_id \in DOMAIN With'
    BY <1>1, BeginsSession
  <1>3. View!KeepObjects /\ Bound' = Bound
    BY <1>1, SameObjects, SameNames
  <1> QED BY <1>1, <1>2, <1>3 DEF View!Connect, With, Bound

LEMMA InitIsInit == Init => View!Init
  <1> SUFFICES ASSUME Init PROVE View!Init
    OBVIOUS
  <1>1. /\ services = Mapping /\ ended = {} /\ running /\ reply = Echo
        /\ DOMAIN handles = {HandleBase} /\ handles[HandleBase] = MainThread
        /\ made[HandleBase] = 0
        /\ \A s \in Slots : Live(s) <=> \E n \in DOMAIN services : services[n] = s
        /\ \A n \in DOMAIN services : gen[services[n]] = 1
        /\ \A s \in Slots : Live(s) => gen[s] = 1
    BY IpcAssumption DEF Init, Live
  <1>2. DOMAIN Bound = DOMAIN services /\ \A n \in DOMAIN services : Bound[n] = <<services[n], 1>>
    BY <1>1 DEF Bound
  <1>3. Objects = {Bound[n] : n \in DOMAIN Bound} /\ DOMAIN Bound \subseteq Names
    <2>1. ASSUME NEW o \in Objects PROVE o \in {Bound[n] : n \in DOMAIN Bound}
      <3>1. PICK s \in Slots : Live(s) /\ o = <<s, gen[s]>>
        BY <2>1 DEF Objects
      <3>2. PICK n \in DOMAIN services : services[n] = s
        BY <1>1, <3>1
      <3> QED BY <1>1, <1>2, <3>1, <3>2
    <2>2. ASSUME NEW n \in DOMAIN Bound PROVE Bound[n] \in Objects
      <3>1. services[n] \in Slots
        BY <1>1, <1>2, <2>2, IpcAssumption
      <3>2. Live(services[n]) /\ gen[services[n]] = 1 /\ Bound[n] = <<services[n], 1>>
        BY <1>1, <1>2, <2>2, <3>1
      <3> QED BY <3>1, <3>2 DEF Objects
    <2> QED BY <1>1, <1>2, <2>1, <2>2, IpcAssumption
  <1>4. \A n, o \in DOMAIN Bound : Bound[n] = Bound[o] => n = o
    BY <1>1, <1>2, IpcAssumption
  <1>5. HandleBase \in DOMAIN With /\ With = [x \in {HandleBase} |-> <<MainThread, 0>>]
    BY <1>1 DEF With
  <1>6. reply = View!NoAnswer
    BY <1>1 DEF Echo, View!NoAnswer
  <1> QED BY <1>1, <1>3, <1>4, <1>5, <1>6 DEF View!Init, Objects, Bound, With

(* Every step.                                                             *)
LEMMA StepIsStep == ASSUME IInv, Identities, [Next]_vars PROVE [View!Next]_(View!vars)
  <1>1. ASSUME NEW h \in DOMAIN With, View!Request(h), running, UNCHANGED running
        PROVE  View!Next
    BY <1>1 DEF View!Next, With
  <1>2. ASSUME running, Halt PROVE View!Next
    <2>1. View!KeepObjects /\ Bound' = Bound /\ With' = With
      BY <1>2, SameObjects, SameNames, SameSessions DEF Halt, NoNewHandle
    <2>2. running' = FALSE /\ reply' = reply
      BY <1>2 DEF Halt
    <2> QED BY <1>2, <2>1, <2>2 DEF View!Next, View!KeepObjects, Bound, With
  <1>3. ASSUME UNCHANGED vars PROVE UNCHANGED View!vars
    <2>1. View!KeepObjects /\ Bound' = Bound /\ With' = With
      BY <1>3, SameObjects, SameNames, SameSessions DEF vars, NoNewHandle
    <2>2. UNCHANGED <<running, reply>>
      BY <1>3 DEF vars
    <2> QED BY <2>1, <2>2 DEF View!vars, View!KeepObjects, Bound, With
  <1>4. ASSUME NEW h \in DOMAIN handles, running, UNCHANGED running, NoNewHandle,
               reply' = Answer(FALSE, NoHandle) \/ reply' = Echo,
               UNCHANGED <<services, kind, gen, ended>>
        PROVE  View!Next
    <2>1. (View!Acknowledge(FALSE) \/ View!Ignore) /\ h \in DOMAIN With
      BY <1>4, Acknowledged DEF With
    <2> QED BY <1>1, <1>4, <2>1 DEF View!Request
  <1>5. ASSUME NEW h, NEW domain, NEW c \in Sent(h, domain), Normal(h, c, domain) PROVE View!Next
    BY <1>1, <1>5, NormalIsRequest DEF Normal
  <1>6. ASSUME NEW h, NEW domain, NEW c, NormalFails(h, c, domain) PROVE View!Next
    BY <1>2, <1>6 DEF NormalFails
  <1>7. ASSUME NEW h, ConvertSessionToDomain(h) PROVE View!Next
    BY <1>4, <1>7 DEF ConvertSessionToDomain, NoNewHandle
  <1>8. ASSUME NEW h, DuplicateSession(h) PROVE View!Next
    BY <1>1, <1>8, DuplicateIsDuplicate DEF DuplicateSession
  <1>9. ASSUME NEW h, QueryPointerBufferSize(h) PROVE View!Next
    BY <1>4, <1>9 DEF QueryPointerBufferSize, NoNewHandle
  <1>10. ASSUME NEW h, ControlFails(h) \/ SendToUnknownHandle(h) PROVE View!Next
    BY <1>2, <1>10 DEF ControlFails, SendToUnknownHandle
  <1>11. ASSUME NEW h, Unanswered(h) PROVE View!Next
    BY <1>4, <1>11 DEF Unanswered, NoNewHandle
  <1>12. ASSUME ConnectToPort PROVE View!Next
    BY <1>12, ConnectIsConnect DEF View!Next, ConnectToPort
  <1>13. ASSUME ConnectToUnknownPort PROVE View!Next
    BY <1>2, <1>13 DEF ConnectToUnknownPort
  <1> QED
    BY <1>3, <1>5, <1>6, <1>7, <1>8, <1>9, <1>10, <1>11, <1>12, <1>13 DEF Next, CloseHandle

(***************************************************************************)
(* The handle table, the service map and the objects implement Sessions,   *)
(* whichever memory new finds for an object and whatever the messages say  *)
(* (Nsemu.hpp:49-53, Ipc.cpp:103-160, Ipc.hpp:75-85, Service/Sm.cpp:6-41). *)
(***************************************************************************)
THEOREM IpcIsSessions == Spec => IsSessions
  <1>1. Init => View!Init
    BY InitIsInit
  <1>2. IInv /\ Identities /\ [Next]_vars => [View!Next]_(View!vars)
    BY StepIsStep
  <1> QED BY <1>1, <1>2, IdentitiesAreForEver, PTL DEF Spec, IsSessions, View!Spec

============================================================================
