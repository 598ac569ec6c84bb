---------------------------- MODULE OperatorRuntime ----------------------------
(***************************************************************************)
(* The read-only operator API: production-runtime.ts and createOperatorApi *)
(* of services/operator-api/src/. Files are mounted; what is served of     *)
(* them was read at the start, except the events, which are read again for *)
(* every answer. Somebody may replace or remove a file between any two     *)
(* reads, also while the process starts; a replacement never brings an     *)
(* earlier content back.                                                   *)
(***************************************************************************)
EXTENDS Naturals, FiniteSets

CONSTANTS
    Documents,   \* config, artifact and manifest
    EventsFile, TokenFile,
    Valid,       \* contents that parse, numbered in the order they appear
    MaxReplaced, \* bound of the replacements
    MaxStarts    \* bound of the starts

ASSUME RuntimeAssumption ==
    /\ Valid \subseteq Nat \ {0}
    /\ EventsFile \notin Documents /\ TokenFile \notin Documents /\ EventsFile # TokenFile

VARIABLES
    mounted,     \* content of each file; 0: missing or malformed
    snapshot,    \* captureDependencySnapshot
    loaded,      \* what createOperatorApi read, and the token read before it
    server,      \* where the process is
    replaced, starts

runtimeVars == <<mounted, snapshot, loaded, server, replaced, starts>>

Files == Documents \cup {EventsFile, TokenFile}
Nothing == [f \in Files |-> 0]

RuntimeInit ==
    /\ mounted = [f \in Files |-> 1]
    /\ snapshot = Nothing /\ loaded = Nothing
    /\ server = "down" /\ replaced = 0 /\ starts = 0

-----------------------------------------------------------------------------
(* A file gets a content it never had, or is lost.                           *)
Replace(f) ==
    /\ replaced < MaxReplaced
    /\ \E content \in {0, replaced + 2} :
          content \in Valid \cup {0} /\ mounted' = [mounted EXCEPT ![f] = content]
    /\ replaced' = replaced + 1
    /\ UNCHANGED <<snapshot, loaded, server, starts>>

(* Mutation: the files are looked at, but not compared with the snapshot. *)
ReadableNow(files) == \A f \in Files : mounted[f] # 0
dependenciesReady(files) == \A f \in Files : mounted[f] # 0 /\ mounted[f] = files[f]

ReadToken ==
    /\ server = "down" /\ starts < MaxStarts
    /\ starts' = starts + 1
    /\ IF mounted[TokenFile] = 0
       THEN UNCHANGED <<loaded, server>>
       ELSE /\ loaded' = [Nothing EXCEPT ![TokenFile] = mounted[TokenFile]]
            /\ server' = "capturing"
    /\ UNCHANGED <<mounted, snapshot, replaced>>

CaptureSnapshot ==
    /\ server = "capturing"
    /\ snapshot' = mounted
    /\ server' = "checking"
    /\ UNCHANGED <<mounted, loaded, replaced, starts>>

CheckDependencies ==
    /\ server = "checking"
    /\ server' = IF dependenciesReady(snapshot) THEN "creating" ELSE "down"
    /\ UNCHANGED <<mounted, snapshot, loaded, replaced, starts>>

(* createOperatorApi and listen, which throw for most of what is malformed   *)
(* and go on without a manifest or events that are missing. Of the event     *)
(* index only its path is kept.                                              *)
CreateApi ==
    /\ server = "creating"
    /\ \/ /\ loaded' = [f \in Files |-> IF f \in Documents THEN mounted[f] ELSE loaded[f]]
          /\ server' = "up"
       \/ server' = "down" /\ UNCHANGED loaded
    /\ UNCHANGED <<mounted, snapshot, replaced, starts>>

StopServer ==
    /\ server = "up"
    /\ server' = "down"
    /\ UNCHANGED <<mounted, snapshot, loaded, replaced, starts>>

RuntimeNext ==
    \/ \E f \in Files : Replace(f)
    \/ ReadToken \/ CaptureSnapshot \/ CheckDependencies \/ CreateApi \/ StopServer

RuntimeSpec == RuntimeInit /\ [][RuntimeNext]_runtimeVars

-----------------------------------------------------------------------------
(* While /api/v1/ready says yes, each document and the events a client gets   *)
(* are those of the reviewed snapshot and of the mounts, wherever in the      *)
(* start or the life of the process a file was replaced.                      *)
Served(f) == IF f = EventsFile THEN mounted[f] ELSE loaded[f]
ReadyServesReviewed ==
    server = "up" /\ dependenciesReady(snapshot) =>
        \A f \in Documents \cup {EventsFile} : Served(f) = snapshot[f] /\ Served(f) = mounted[f]
=============================================================================
