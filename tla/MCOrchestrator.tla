--------------------------- MODULE MCOrchestrator ---------------------------
(* One file.  The call lists hold one for each thing that can happen       *)
(* between the calls of a turn: no call, a write, two equal reads and an   *)
(* unknown tool, a read and a write of the same file followed by a call    *)
(* that conflicts with neither and is run before the write, and a throwing *)
(* call beside a write.                                                    *)
EXTENDS Orchestrator

CONSTANTS f, c0, c1

MCCall == Call
MCCallLists ==
  {<<>>, <<Write(f, c0)>>, <<Read(f), Read(f), Unknown>>,
   <<Read(f), Write(f, c0), Unknown>>, <<Malformed, Write(f, c0)>>}
MCStaleLists == {<<Read(f)>>, <<Write(f, c1)>>}
MCDefaultThreshold == <<1, 10>>
MCDep == {ReadDep, WriteDep} \cup Path
MCDepList == {<<>>, <<ReadDep>>, <<WriteDep>>}
MCValue == Content \cup {Written}
=============================================================================
