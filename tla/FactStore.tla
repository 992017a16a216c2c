----------------------------- MODULE FactStore -----------------------------
(***************************************************************************)
(* FactStore of src/core/fact_store.cpp: facts kept in memory under the    *)
(* hash of their type and content, and appended to a file, one line a fact.*)
(* A string is the sequence of its characters.  The process may stop       *)
(* between two operations or inside an append, and a write may fail after  *)
(* some characters.                                                        *)
(***************************************************************************)
EXTENDS Integers, FiniteSets, SequencesExt

CONSTANTS Facts,      \* the facts appended: records of a type and a content
          MaxLength,  \* bound on the characters of the file
          MaxFaults   \* bound on the torn writes and the failed reads and opens

(* The repository appends facts of type "tool_result".  Types hold none of *)
(* the characters that are escaped: digest_hex puts a newline between type *)
(* and content, so no two facts have the same id, not even those read from *)
(* a torn line.                                                            *)
ASSUME FactAssumption ==
  /\ Facts \subseteq [type : Seq(STRING), content : Seq(STRING)]
  /\ \A f \in Facts : \A i \in DOMAIN f.type : f.type[i] \notin {"\\", "\n", "\r", "\t"}
  /\ MaxLength \in Nat /\ MaxFaults \in Nat

VARIABLES disk,     \* the file, a sequence of characters
          stream,   \* out_: closed, good, or bad after a failed write
          up,       \* the store is constructed
          entries,  \* entries_, the id being determined by the fact
          unread,   \* history: the constructor could not read the file
          appended, \* history: the facts ever given to append
          written,  \* history: the facts whose line was written whole ...
          spoiled,  \* ... and those among them that only follow a torn line
          faults

fileVars == <<disk, written, spoiled>>
storeVars == <<fileVars, stream, up, entries, unread, appended, faults>>

-----------------------------------------------------------------------------
(* The format of a line.                                                   *)

(* Mutant of Escaped: the backslash itself is not escaped.                 *)
EscapedControls(c) ==
  CASE c = "\n" -> <<"\\", "n">> [] c = "\r" -> <<"\\", "r">>
    [] c = "\t" -> <<"\\", "t">> [] OTHER -> <<c>>

Escaped(c) ==
  CASE c = "\\" -> <<"\\", "\\">> [] c = "\n" -> <<"\\", "n">>
    [] c = "\r" -> <<"\\", "r">> [] c = "\t" -> <<"\\", "t">> [] OTHER -> <<c>>

Escape(s) ==
  LET out[n \in 0..Len(s)] == IF n = 0 THEN <<>> ELSE out[n - 1] \o Escaped(s[n])
  IN  out[Len(s)]

Meaning == [c \in {"\\", "n", "r", "t"} |->
              CASE c = "n" -> "\n" [] c = "r" -> "\r" [] c = "t" -> "\t" [] OTHER -> c]

(* One character is read; esc: the one before is a backslash still to be   *)
(* understood.  Before any other character it stands for itself.           *)
ReadChar(st, c) ==
  CASE st.esc /\ c \in DOMAIN Meaning ->
         [text |-> Append(st.text, Meaning[c]), esc |-> FALSE]
    [] st.esc /\ c \notin DOMAIN Meaning -> [text |-> st.text \o <<"\\", c>>, esc |-> FALSE]
    [] ~ st.esc /\ c = "\\" -> [text |-> st.text, esc |-> TRUE]
    [] ~ st.esc /\ c # "\\" -> [text |-> Append(st.text, c), esc |-> FALSE]

(* So it does at the end.                                                  *)
Unescape(s) ==
  LET read[n \in 0..Len(s)] ==
        IF n = 0 THEN [text |-> <<>>, esc |-> FALSE] ELSE ReadChar(read[n - 1], s[n])
      end == read[Len(s)]
  IN  IF end.esc THEN Append(end.text, "\\") ELSE end.text

Line(f) == Escape(f.type) \o <<"\t">> \o Escape(f.content) \o <<"\n">>

(* getline: the stretches between newlines, a last one without newline too *)
(* and without the carriage return they may end in.                        *)
Newlines(text) == {j \in DOMAIN text : text[j] = "\n"}

LineStarts(text) == {1} \cup {j + 1 : j \in Newlines(text)}

LineAt(text, i) ==
  LET end == Min({j \in Newlines(text) \cup {Len(text) + 1} : j >= i}) - 1
  IN  SubSeq(text, i, IF end >= i /\ text[end] = "\r" THEN end - 1 ELSE end)

(* The facts read back: the lines with a tab, split at the first one.      *)
Tabs(line) == {k \in DOMAIN line : line[k] = "\t"}

Parsed(line) == [type    |-> Unescape(SubSeq(line, 1, Min(Tabs(line)) - 1)),
                 content |-> Unescape(SubSeq(line, Min(Tabs(line)) + 1, Len(line)))]

FactsOn(text) ==
  {Parsed(LineAt(text, i)) : i \in {k \in LineStarts(text) : Tabs(LineAt(text, k)) # {}}}

Id(f) == f.type \o <<"\n">> \o f.content
Holds(es, f) == \E g \in es : Id(g) = Id(f)

-----------------------------------------------------------------------------
StoreInit ==
  /\ disk = <<>> /\ stream = "closed" /\ up = FALSE /\ entries = {} /\ unread = FALSE
  /\ appended = {} /\ written = {} /\ spoiled = {} /\ faults = 0

(* The constructor: reads the file, then opens it to append.  Neither open *)
(* is an error if it fails: a file that cannot be read counts as empty.    *)
OpenStore(path) ==
  /\ ~ up
  /\ up' = TRUE
  /\ \E read, opened \in BOOLEAN :
       /\ (read /\ opened) \/ (path /\ faults < MaxFaults)
       /\ entries' = IF read THEN FactsOn(disk) ELSE {}
       /\ stream' = IF path /\ opened THEN "good" ELSE "closed"
       /\ unread' = ~ read
       /\ faults' = IF read /\ opened THEN faults ELSE faults + 1
  /\ UNCHANGED <<fileVars, appended>>

Torn == disk # <<>> /\ Last(disk) # "\n"

WriteLine(f) ==
  /\ Len(disk) + Len(Line(f)) <= MaxLength
  /\ disk' = disk \o Line(f)
  /\ written' = written \cup {f}
  /\ spoiled' = IF ~ Torn THEN spoiled \ {f}
                ELSE IF f \in written THEN spoiled ELSE spoiled \cup {f}

(* append.  Once a write failed the stream is bad, and the later ones are  *)
(* kept in memory only.                                                    *)
AppendFact(f) ==
  /\ up
  /\ appended' = appended \cup {f}
  /\ IF Holds(entries, f) THEN UNCHANGED <<entries, fileVars>>
     ELSE /\ entries' = entries \cup {f}
          /\ IF stream = "good" THEN WriteLine(f) ELSE UNCHANGED fileVars
  /\ UNCHANGED <<stream, up, unread, faults>>

TearLine(f, n) ==
  /\ up /\ stream = "good" /\ ~ Holds(entries, f) /\ faults < MaxFaults
  /\ Len(disk) + n <= MaxLength
  /\ appended' = appended \cup {f} /\ faults' = faults + 1
  /\ disk' = disk \o SubSeq(Line(f), 1, n)
  /\ UNCHANGED <<written, spoiled, unread>>

(* The write fails after n characters: append returns all the same.        *)
AppendFails(f, n) ==
  /\ n < Len(Line(f)) /\ TearLine(f, n)
  /\ entries' = entries \cup {f}
  /\ stream' = "bad" /\ UNCHANGED up

(* The process stops after n characters.                                   *)
CrashInAppend(f, n) ==
  /\ TearLine(f, n)
  /\ entries' = {} /\ stream' = "closed" /\ up' = FALSE

(* The destructor, or a stop of the process between two operations: every  *)
(* append has flushed its line.                                            *)
CloseStore ==
  /\ up
  /\ entries' = {} /\ stream' = "closed" /\ up' = FALSE
  /\ UNCHANGED <<fileVars, unread, appended, faults>>

StoreNext ==
  \/ OpenStore(TRUE) \/ CloseStore
  \/ \E f \in Facts : AppendFact(f)
  \/ \E f \in Facts : \E n \in 0..Len(Line(f)) : AppendFails(f, n) \/ CrashInAppend(f, n)

-----------------------------------------------------------------------------
(* What a store read back from its file holds (fact_store.cpp:74-90): every*)
(* fact whose line was written whole is there again, whatever characters it*)
(* is made of, unless its line follows a torn one or the file could not be *)
(* read; and each torn line makes at most one fact nobody appended.        *)
ReloadIsFaithful ==
  up /\ stream # "closed" =>
    /\ ~ unread => written \ spoiled \subseteq entries
    /\ Cardinality(entries \ appended) <= faults
=============================================================================
