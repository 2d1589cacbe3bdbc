------------------------------ MODULE Sessions ------------------------------
(***************************************************************************)
(* What a program is promised of its handles and of the services it can    *)
(* name, wherever the objects behind them are in memory.  An object has an *)
(* identity, which no other one ever gets.  A handle is a session with one *)
(* thing for ever, and names are bound to objects that exist, an object to *)
(* one name at most.                                                       *)
(*                                                                         *)
(* A request without an answer has changed no session, object or name, and *)
(* an answer says what was changed.  (How the next messages are framed is  *)
(* no part of this.)  A session whose object was deleted promises nothing  *)
(* but that what it reaches, if anything, is an object.  An out parameter  *)
(* nobody assigned may bring a session with whatever was made before, and  *)
(* an object that builds no answer may seem to report any error.           *)
(***************************************************************************)
EXTENDS Naturals

CONSTANTS
    Names,       \* names of services
    Manager,     \* the service manager
    Thread,      \* the main thread
    Garbage,     \* what is not an object and never was
    NoHandle     \* the handle an answer has that brings none

VARIABLES
    objects,     \* the objects there are
    deleted,     \* those there were
    names,       \* name -> object
    sessions,    \* handle -> what the session is with
    answer,      \* whether there is one to the last request, whether it is
                 \* an error, and the handle it brings
    running      \* the process runs

vars == <<objects, deleted, names, sessions, answer, running>>

Put(f, key, value) ==
    [x \in DOMAIN f \cup {key} |-> IF x = key THEN value ELSE f[x]]
NoAnswer == [answered |-> FALSE, error |-> FALSE, moved |-> NoHandle]
Says(error, h) == answer' = [answered |-> TRUE, error |-> error, moved |-> h]

KeepObjects == UNCHANGED <<objects, deleted>>

Init ==
    /\ objects = {names[n] : n \in DOMAIN names} /\ DOMAIN names \subseteq Names
    /\ \A n, o \in DOMAIN names : names[n] = names[o] => n = o
    /\ deleted = {}
    /\ \E h \in DOMAIN sessions : sessions = [x \in {h} |-> Thread]
    /\ answer = NoAnswer
    /\ running = TRUE

(* A new session, with a handle no session ever had.                       *)
Begin(h, what) ==
    /\ h \notin DOMAIN sessions
    /\ sessions' = Put(sessions, h, what)

(* A new session that the answer brings.                                   *)
Brings(what, error) ==
    \E h \in DOMAIN sessions' : Begin(h, what) /\ Says(error, h)

(* An object that never was before.                                        *)
Create(o) ==
    /\ o \notin objects \cup deleted
    /\ objects' = objects \cup {o}
    /\ UNCHANGED deleted

Ignore ==
    /\ answer' = NoAnswer
    /\ KeepObjects /\ UNCHANGED <<names, sessions>>

Acknowledge(error) ==
    /\ Says(error, NoHandle)
    /\ KeepObjects /\ UNCHANGED <<names, sessions>>

(* Nothing, or a session with anything.                                    *)
Stray(error) ==
    /\ \/ Says(error, NoHandle) /\ UNCHANGED sessions
       \/ \E what \in objects \cup deleted \cup {Manager, Garbage} : Brings(what, error)
    /\ KeepObjects /\ UNCHANGED names

(* What the service manager does.                                          *)
Lookup(n) ==
    /\ n \in DOMAIN names
    /\ Brings(names[n], FALSE)
    /\ KeepObjects /\ UNCHANGED names

Register(n) ==
    \E o \in objects' :
        /\ Create(o)
        /\ names' = Put(names, n, o)
        /\ Brings(o, FALSE)

Unregister(n) ==
    /\ n \in DOMAIN names
    /\ objects' = objects \ {names[n]}
    /\ deleted' = deleted \cup {names[n]}
    /\ names' = [m \in DOMAIN names \ {n} |-> names[m]]
    /\ Says(FALSE, NoHandle)
    /\ UNCHANGED sessions

Manage(n) ==
    \/ Lookup(n)
    \/ n \notin DOMAIN names /\ Stray(TRUE)
    \/ Register(n)
    \/ Unregister(n)
    \/ n \notin DOMAIN names /\ Acknowledge(TRUE)

(* What an object does: it opens another one, forgets to say what it       *)
(* brings, or forgets to answer at all.                                    *)
Open ==
    /\ \E o \in objects' : Create(o) /\ Brings(o, FALSE)
    /\ UNCHANGED names

Serve == Open \/ Stray(FALSE) \/ \E error \in BOOLEAN : Acknowledge(error)

(* A session reaches its object, or whatever took its place.               *)
Reaches(h) ==
    \/ sessions[h] \in objects
    \/ sessions[h] \in deleted /\ objects # {}

Duplicate(h) ==
    /\ Brings(sessions[h], FALSE)
    /\ KeepObjects /\ UNCHANGED names

Request(h) ==
    \/ Ignore
    \/ Acknowledge(FALSE)
    \/ sessions[h] = Manager /\ \E n \in Names : Manage(n)
    \/ Reaches(h) /\ Serve
    \/ Duplicate(h)

(* A session with the manager is there for the asking.                     *)
Connect ==
    /\ \E h \in DOMAIN sessions' : Begin(h, Manager)
    /\ KeepObjects /\ UNCHANGED <<names, answer>>

Next ==
    /\ running
    /\ \/ /\ (\E h \in DOMAIN sessions : Request(h)) \/ Connect
          /\ UNCHANGED running
       \/ running' = FALSE /\ UNCHANGED <<objects, deleted, names, sessions, answer>>

Spec == Init /\ [][Next]_vars
=============================================================================
