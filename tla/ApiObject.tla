------------------------------ MODULE ApiObject ------------------------------
(***************************************************************************)
(* Objects of the Kubernetes API server that clients change by Get and     *)
(* Update.  The server is outside the repository; it is modelled from how  *)
(* internal/data/k8sInstance.go uses it: Get returns the whole object with *)
(* its resourceVersion, and Update replaces the whole object and is        *)
(* refused with a conflict when that version is no longer the current one. *)
(*                                                                         *)
(* Version numbers are not counted.  held[c] is the object whose version   *)
(* client c read and nobody has moved since; an Update that changes an     *)
(* object takes it away from everyone who held it, and an Update that      *)
(* writes back what is already there moves no version.                     *)
(***************************************************************************)
EXTENDS TLAPS

CONSTANTS Clients, Objects, Unread, NoObject

VARIABLES store,  \* [Objects -> content]: what the server keeps
          copy,   \* [Clients -> content]: the object a client read last
          held    \* [Clients -> object whose current version the client knows]

Init0(content) ==
    /\ store = [o \in Objects |-> content]
    /\ copy = [c \in Clients |-> Unread]
    /\ held = [c \in Clients |-> NoObject]

TypeOK(Contents) ==
    /\ store \in [Objects -> Contents]
    /\ copy \in [Clients -> Contents]
    /\ held \in [Clients -> Objects \cup {NoObject}]

Current(c, o) == held[c] = o

Get(c, o) ==
    /\ copy' = [copy EXCEPT ![c] = store[o]]
    /\ held' = [held EXCEPT ![c] = o]
    /\ UNCHANGED store

\* An Update the server accepts, as it does when the version is Current.
Put(c, o, content) ==
    /\ store' = [store EXCEPT ![o] = content]
    /\ copy' = [copy EXCEPT ![c] = Unread]
    /\ held' = [d \in Clients |->
                  IF d = c \/ (held[d] = o /\ content # store[o])
                  THEN NoObject ELSE held[d]]

\* A Create or a Delete, which names no version.
Overwrite(o, content) ==
    /\ store' = [store EXCEPT ![o] = content]
    /\ held' = [c \in Clients |-> IF held[c] = o THEN NoObject ELSE held[c]]
    /\ UNCHANGED copy

\* The client gives its copy up: the Update was refused or never sent.
Drop(c) ==
    /\ copy' = [copy EXCEPT ![c] = Unread]
    /\ held' = [held EXCEPT ![c] = NoObject]
    /\ UNCHANGED store

DropAll ==
    /\ copy' = [c \in Clients |-> Unread]
    /\ held' = [c \in Clients |-> NoObject]
    /\ UNCHANGED store

\* A version that is still current belongs to a copy that is still equal.
FreshCopy == \A c \in Clients : held[c] # NoObject => copy[c] = store[held[c]]
-----------------------------------------------------------------------------
\* A Get, an Update or giving up keeps the content of the objects typed.
LEMMA AccessTyped ==
    ASSUME NEW Contents, NEW c \in Clients, NEW o \in Objects, NEW v \in Contents,
           Unread \in Contents, TypeOK(Contents),
           Get(c, o) \/ Put(c, o, v) \/ Drop(c) \/ DropAll
    PROVE  TypeOK(Contents)'
<1>1. CASE Get(c, o)
  BY <1>1 DEF Get, TypeOK
<1>2. CASE Put(c, o, v)
  BY <1>2 DEF Put, TypeOK
<1>3. CASE Drop(c)
  BY <1>3 DEF Drop, TypeOK
<1>4. CASE DropAll
  BY <1>4 DEF DropAll, TypeOK
<1>5. QED
  BY <1>1, <1>2, <1>3, <1>4

\* Whatever a client does, a version that is still current keeps belonging to a
\* copy equal to the stored object: the reason an accepted Update is based on
\* what the server holds.
LEMMA AccessKeepsFresh ==
    ASSUME NEW Contents, NEW c \in Clients, NEW o \in Objects, NEW v,
           NoObject \notin Objects, TypeOK(Contents), FreshCopy,
           Get(c, o) \/ Put(c, o, v) \/ Drop(c) \/ DropAll
    PROVE  FreshCopy'
<1>1. CASE Get(c, o)
  BY <1>1 DEF Get, TypeOK, FreshCopy
<1>2. CASE Put(c, o, v)
  <2> SUFFICES ASSUME NEW d \in Clients, held'[d] # NoObject
               PROVE  copy'[d] = store'[held'[d]]
    BY DEF FreshCopy
  <2>1. d # c /\ held'[d] = held[d] /\ (held[d] = o => v = store[o])
    BY <1>2 DEF Put
  <2>2. copy'[d] = copy[d] /\ copy[d] = store[held[d]]
    BY <1>2, <2>1 DEF Put, TypeOK, FreshCopy
  <2>3. store'[held[d]] = store[held[d]]
    BY <1>2, <2>1 DEF Put, TypeOK
  <2>4. QED
    BY <2>1, <2>2, <2>3
<1>3. CASE Drop(c)
  BY <1>3 DEF Drop, TypeOK, FreshCopy
<1>4. CASE DropAll
  BY <1>4 DEF DropAll, FreshCopy
<1>5. QED
  BY <1>1, <1>2, <1>3, <1>4

\* So does a Create or a Delete, for nobody knows the new version.
LEMMA OverwriteKeepsFresh ==
    ASSUME NEW Contents, NEW o \in Objects, NEW v \in Contents,
           NoObject \notin Objects, TypeOK(Contents), FreshCopy, Overwrite(o, v)
    PROVE  TypeOK(Contents)' /\ FreshCopy'
<1>1. TypeOK(Contents)'
  BY DEF Overwrite, TypeOK
<1>2. QED
  BY <1>1 DEF Overwrite, TypeOK, FreshCopy
=============================================================================
