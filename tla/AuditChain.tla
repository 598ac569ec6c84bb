------------------------------- MODULE AuditChain -------------------------------
(***************************************************************************)
(* HashChainAuditLog of services/compliance-data/src/audit.ts: a chain in  *)
(* memory that is appended to a file line by line, read back and checked   *)
(* by the next process. A write of the file may fail, in part or as a      *)
(* whole, the process may die at any time, and somebody may alter a line.  *)
(***************************************************************************)
EXTENDS Naturals, Sequences, SequencesExt

CONSTANTS
    Records,     \* audit records that pass validateRecord
    MaxLines     \* bound of the appends of one behaviour

VARIABLES
    entries,     \* this.entries of the running process
    file,        \* the lines of the file
    logState,    \* "open", "down", or "refused" when the constructor throws
    acked,       \* observation: the entries whose append returned
    attempts     \* observation: appends so far, bounded by MaxLines

auditVars == <<entries, file, logState, acked, attempts>>

ZERO_HASH == <<>>
Torn == [sequence |-> 0, previousHash |-> ZERO_HASH, recordHash |-> ZERO_HASH, record |-> "torn"]

(* A hash is injective: it is the tuple it is taken of.                     *)
hash(sequence, previousHash, record) == <<sequence, previousHash, record>>

AuditInit ==
    /\ entries = <<>> /\ file = <<>> /\ acked = <<>>
    /\ logState = "open" /\ attempts = 0

lastHash(log) == IF log = <<>> THEN ZERO_HASH ELSE Last(log).recordHash

Entry(record) ==
    LET sequence == Len(entries) + 1 IN
    [sequence |-> sequence, previousHash |-> lastHash(entries),
     recordHash |-> hash(sequence, lastHash(entries), record), record |-> record]

(* A line after a torn one continues it: the line stays unreadable.         *)
Written(line) ==
    IF file # <<>> /\ Last(file) = Torn THEN file ELSE Append(file, line)

AckedIf(entry, written) == IF written THEN Append(acked, entry) ELSE acked

(* append: in memory first, then in the file. A failed write throws to the  *)
(* caller but leaves the entry in memory.                                   *)
AppendEntry(record) ==
    /\ logState = "open"
    /\ attempts < MaxLines
    /\ attempts' = attempts + 1
    /\ entries' = Append(entries, Entry(record))
    /\ \/ file' = Written(Entry(record)) /\ acked' = AckedIf(Entry(record), TRUE)
       \/ file' \in {file, Written(Torn)} /\ acked' = AckedIf(Entry(record), FALSE)
    /\ UNCHANGED logState

(* The process dies inside an append, with any part of the line written.    *)
CrashInAppend(record) ==
    /\ logState = "open"
    /\ attempts < MaxLines
    /\ attempts' = attempts + 1
    /\ logState' = "down" /\ entries' = <<>>
    /\ file' \in {file, Written(Torn), Written(Entry(record))}
    /\ UNCHANGED acked

(* TransferSurveillance.observe: only transfers outside the approved router *)
(* are appended.                                                            *)
Observe(route, record) == route # "APPROVED_ROUTER" /\ AppendEntry(record)

(* The process dies; its memory is lost.                                    *)
Stop ==
    /\ logState = "open"
    /\ logState' = "down" /\ entries' = <<>>
    /\ UNCHANGED <<file, acked, attempts>>

(* Somebody rewrites the record of a line, or takes out a line that others  *)
(* follow, without computing the hashes that come after.                    *)
Tamper ==
    /\ logState = "down"
    /\ \E i \in DOMAIN file :
          /\ file[i] # Torn
          /\ \/ \E r \in Records \ {file[i].record} : file' = [file EXCEPT ![i].record = r]
             \/ i < Len(file) /\ file' = RemoveAt(file, i)
    /\ UNCHANGED <<entries, logState, acked, attempts>>

(* Mutation: each line is checked against the hash it names itself. *)
ValidEachAlone(log) ==
    \A i \in DOMAIN log :
        /\ log[i] # Torn
        /\ log[i].recordHash = hash(log[i].sequence, log[i].previousHash, log[i].record)
(* assertValid, after every line has been parsed.                           *)
assertValid(log) ==
    \A i \in DOMAIN log :
        LET previousHash == lastHash(SubSeq(log, 1, i - 1)) IN
        /\ log[i] # Torn
        /\ log[i].sequence = i
        /\ log[i].previousHash = previousHash
        /\ log[i].recordHash = hash(i, previousHash, log[i].record)

(* The constructor of the next process.                                     *)
Reopen ==
    /\ logState = "down"
    /\ IF assertValid(file)
       THEN logState' = "open" /\ entries' = file
       ELSE logState' = "refused" /\ entries' = <<>>
    /\ UNCHANGED <<file, acked, attempts>>

AuditNext ==
    \/ \E r \in Records, route \in {"APPROVED_ROUTER", "UNKNOWN"} : Observe(route, r)
    \/ \E r \in Records : AppendEntry(r)
    \/ \E r \in Records : CrashInAppend(r)
    \/ Stop
    \/ Tamper
    \/ Reopen

AuditSpec == AuditInit /\ [][AuditNext]_auditVars

-----------------------------------------------------------------------------
(* Each acknowledged entry is at its place in the log, in the order of the  *)
(* acknowledgements.                                                        *)
Listed(log) ==
    /\ \A i \in DOMAIN acked : /\ acked[i].sequence \in DOMAIN log
                               /\ log[acked[i].sequence] = acked[i]
    /\ \A i, j \in DOMAIN acked : i < j => acked[i].sequence < acked[j].sequence

(* What append acknowledged is in every log that opens, in its order and    *)
(* with its content, across failed writes, crashes and altered files: a log *)
(* that cannot say so refuses to open.                                      *)
AckedIsListed == logState = "open" => Listed(entries)
=============================================================================
