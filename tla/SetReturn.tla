------------------------------ MODULE SetReturn ------------------------------
(***************************************************************************)
(* tool/Set_Return.py and tool/Set_ACT_Return.py go through the test       *)
(* environments below the current directory and, for the cases 1, 2, 3 ... *)
(* of one function, put a return value in the last line of the case's DAT  *)
(* file.  The second tool also runs each case and, when the run fails,     *)
(* replaces the value by the one the run reports.                          *)
(*                                                                         *)
(* Both are one long loop over global variables, and a variable that an    *)
(* iteration does not assign keeps the value of an earlier file.  A file   *)
(* is <<e, x>>, XML file x of environment e, and names also the DAT file   *)
(* with the number of that XML file.  XML files of one case may have one   *)
(* number, as R-<n>.XML has that of the file whose run it reports, and     *)
(* then one DAT file, named after one of them.  An absent and an empty DAT *)
(* file are handled alike and are one here.                                *)
(***************************************************************************)
EXTENDS Integers, Sequences, SequencesExt

CONSTANT Dirs            \* Dirs[e] is the number of XML files of environment e

ASSUME DirsAssumption == Dirs \in Seq(Nat \ {0}) /\ Dirs # <<>>

Files == UNION {{<<e, x>> : x \in 1..Dirs[e]} : e \in DOMAIN Dirs}
NoFile == <<0, 0>>
FilesOf(e) == {f \in Files : f[1] = e}
Cases == UNION {1..Dirs[e] : e \in DOMAIN Dirs}

\* A line of a DAT file: the file whose prefix it has, its value, and the case
\* whose run has reported the value.
Line(f, v, by) == [of |-> f, val |-> v, by |-> by]
Values == {"none", "old", "new", "true"}       \* "none": a line without `%'

\* What a DAT file may hold when the tool starts.
Holds(f, had) == CASE had = "plain" -> <<Line(f, "none", NoFile)>>
                   [] had = "value" -> <<Line(f, "none", NoFile), Line(f, "old", NoFile)>>
                   [] OTHER         -> <<>>

VARIABLES
  tool,        \* which of the two runs
  xml,         \* per file: the case it names, whether its own name has a number,
               \* whether it has unit and subprogram; the DAT file with its number,
               \* and what the DAT file named after it had at the start
  dat,         \* per file: the lines of its DAT file
  pc,          \* where the tool is
  env, index,  \* the environment and the case
  todo, found, \* XML files the search has still to visit, and its result
  mem          \* dat_path, lines and prefix, as the last assignment left them

vars == <<tool, xml, dat, pc, env, index, todo, found, mem>>

\* XML files with one number are of one case, and have one DAT file.
NumbersFit(s) ==
  \A f \in Files : LET d == s[f].dat IN
    /\ d[1] = f[1] /\ s[d].dat = d /\ s[d].case = s[f].case
    /\ d # f => s[f].numbered /\ s[d].numbered /\ s[f].had = "nothing"

Init ==
  /\ tool \in {"Set_Return", "Set_ACT_Return"}
  /\ xml \in {s \in [Files -> [case : Cases, numbered : BOOLEAN, tagged : BOOLEAN,
                               dat : Files,
                               had : {"nothing", "plain", "value", "unreadable"}]] :
                NumbersFit(s) /\ \A f \in Files : s[f].case <= Dirs[f[1]]}
  /\ dat = [f \in Files |-> Holds(f, xml[f].had)]
  /\ pc = "env" /\ env = 0 /\ index = 1
  /\ todo = {} /\ found = FALSE
  /\ mem = [dat |-> NoFile, lines |-> <<>>, prefix |-> NoFile]

-----------------------------------------------------------------------------
Case(n) == index' = n /\ todo' = FilesOf(env') /\ found' = FALSE /\ pc' = "search"

EnterEnv ==
  /\ pc = "env" /\ env < Len(Dirs)
  /\ env' = env + 1
  /\ Case(1)
  /\ UNCHANGED <<tool, xml, dat, mem>>

\* Set_ACT_Return.py alone wants a .tu.c file and goes on without the environment.
SkipEnv ==
  /\ pc = "env" /\ env < Len(Dirs)
  /\ tool = "Set_ACT_Return"
  /\ env' = env + 1
  /\ UNCHANGED <<tool, xml, dat, pc, index, todo, found, mem>>

\* No param.xml, no such directory or no index in it: the tool ends, whatever
\* environments are left.
NoGlobalId ==
  /\ pc = "env"
  /\ pc' = "end"
  /\ UNCHANGED <<tool, xml, dat, env, index, todo, found, mem>>

Visited(f) == f \in todo /\ pc = "search" /\ todo' = todo \ {f}

NotNamed(f) ==
  /\ Visited(f) /\ xml[f].case # index
  /\ UNCHANGED <<tool, xml, dat, pc, env, index, found, mem>>

\* The case is found, and no DAT file with it.
Unnumbered(f) ==
  /\ Visited(f) /\ xml[f].case = index /\ ~xml[f].numbered
  /\ found' = TRUE
  /\ UNCHANGED <<tool, xml, dat, pc, env, index, mem>>

Matches(f) ==
  /\ Visited(f) /\ xml[f].case = index /\ xml[f].numbered
  /\ found' = TRUE
  /\ UNCHANGED <<tool, xml, pc, env, index>>

Dat(f) == xml[f].dat
Had(f) == xml[Dat(f)].had
Readable(f) == dat[Dat(f)] # <<>> /\ Had(f) # "unreadable"

\* Mutant of Names: dat_path is assigned where the file is read.
NamesNothing(f) == mem' = mem

\* What is left in memory of a DAT file that is not read, or is.
Names(f) == mem' = [mem EXCEPT !.dat = Dat(f)]
Reads(f, lines) == mem' = [dat |-> Dat(f), lines |-> lines, prefix |-> mem.prefix]

Created(f) == IF xml[f].tagged THEN <<Line(Dat(f), "new", NoFile)>> ELSE <<>>

Create(f) ==
  /\ Matches(f) /\ dat[Dat(f)] = <<>> /\ Had(f) # "unreadable"
  /\ dat' = [dat EXCEPT ![Dat(f)] = Created(f)]
  /\ Names(f)

Unreadable(f) ==                \* the exception is caught around the whole file
  /\ Matches(f) /\ Had(f) = "unreadable"
  /\ Names(f)
  /\ UNCHANGED dat

AppendTo(f) ==                  \* `lines' keeps what was read, without the new line
  /\ Matches(f) /\ Readable(f) /\ Last(dat[Dat(f)]).val = "none"
  /\ dat' = [dat EXCEPT ![Dat(f)] = @ \o Created(f)]
  /\ Reads(f, dat[Dat(f)])

Modify(f) ==
  /\ Matches(f) /\ Readable(f) /\ Last(dat[Dat(f)]).val # "none"
  /\ LET of  == Last(dat[Dat(f)]).of
         new == Front(dat[Dat(f)]) \o <<Line(of, "new", NoFile)>>
     IN  /\ dat' = [dat EXCEPT ![Dat(f)] = new]
         /\ mem' = [dat |-> Dat(f), lines |-> new, prefix |-> of]

\* Mutant of NotFound: the numbers go on after the last case.
NotFoundGoesOn ==
  /\ pc = "search" /\ todo = {} /\ ~found
  /\ env' = env
  /\ Case(index + 1)
  /\ UNCHANGED <<tool, xml, dat, mem>>

NotFound ==
  /\ pc = "search" /\ todo = {} /\ ~found
  /\ pc' = "env"
  /\ UNCHANGED <<tool, xml, dat, env, index, todo, found, mem>>

NextCase == env' = env /\ Case(index + 1)

\* Set_Return.py runs nothing; a run of Set_ACT_Return.py may succeed.
RunPasses ==
  /\ pc = "search" /\ todo = {} /\ found
  /\ NextCase
  /\ UNCHANGED <<tool, xml, dat, mem>>

RunFails ==
  /\ pc = "search" /\ todo = {} /\ found /\ tool = "Set_ACT_Return"
  /\ pc' = IF mem.lines = <<>> THEN "dead" ELSE "retry"    \* last_line has no value
  /\ UNCHANGED <<tool, xml, dat, env, index, todo, found, mem>>

NoTrueValue ==
  /\ pc = "retry"
  /\ NextCase
  /\ UNCHANGED <<tool, xml, dat, mem>>

\* The result of the second run is not looked at.
TrueValue ==
  /\ pc = "retry" /\ mem.prefix # NoFile
  /\ LET new == Front(mem.lines) \o <<Line(mem.prefix, "true", <<env, index>>)>>
     IN  /\ dat' = [dat EXCEPT ![mem.dat] = new]
         /\ mem' = [mem EXCEPT !.lines = new]
  /\ NextCase
  /\ UNCHANGED <<tool, xml>>

NoPrefix ==
  /\ pc = "retry" /\ mem.prefix = NoFile
  /\ pc' = "dead"
  /\ UNCHANGED <<tool, xml, dat, env, index, todo, found, mem>>

AllDone ==
  /\ pc = "env" /\ env = Len(Dirs)
  /\ pc' = "end"
  /\ UNCHANGED <<tool, xml, dat, env, index, todo, found, mem>>

Visit(f) == \/ NotNamed(f) \/ Unnumbered(f) \/ Create(f)
            \/ Unreadable(f) \/ AppendTo(f) \/ Modify(f)

Next == \/ EnterEnv \/ SkipEnv \/ AllDone
        \/ NoGlobalId /\ env < Len(Dirs)
        \/ \E f \in Files : Visit(f)
        \/ NotFound \/ RunPasses \/ RunFails
        \/ NoTrueValue \/ TrueValue \/ NoPrefix

Spec == Init /\ [][Next]_vars

-----------------------------------------------------------------------------
Lines == [of : Files, val : Values, by : (DOMAIN Dirs \cup {0}) \X (Cases \cup {0})]

(* Type invariant of the two tools: a case number never goes past the      *)
(* first one no file names, Set_Return.py:165 and Set_ACT_Return.py:209.   *)
TypeOK ==
  /\ tool \in {"Set_Return", "Set_ACT_Return"}
  /\ \A f \in Files : dat[f] \in Seq(Lines)
  /\ pc \in {"env", "search", "retry", "end", "dead"}
  /\ env \in 0..Len(Dirs) /\ index \in {1} \cup {n + 1 : n \in Cases}
  /\ todo \subseteq Files /\ found \in BOOLEAN
  /\ mem.dat \in Files \cup {NoFile} /\ mem.prefix \in Files \cup {NoFile}
  /\ mem.lines \in Seq(Lines)

(* Set_ACT_Return.py:228-230: the retry writes `lines' and `prefix' to the *)
(* DAT file named last.  A DAT file holds a line with the prefix of        *)
(* another only if it had no line with a value to be read when its turn    *)
(* came, and never after Set_Return.py.                                    *)
OwnLinesIfRead ==
  \A f \in Files : (\E i \in DOMAIN dat[f] : dat[f][i].of # f) =>
    tool = "Set_ACT_Return" /\ xml[f].had # "value"

(* Set_ACT_Return.py:139-147: a value some run has reported is in the DAT  *)
(* file of the case that ran, unless an XML file of that case has no       *)
(* number, which leaves dat_path at an earlier case, or environment.       *)
OwnRunIfNumbered ==
  \A f \in Files : \A i \in DOMAIN dat[f] :
    dat[f][i].val = "true" =>
      \/ dat[f][i].by = <<f[1], xml[f].case>>
      \/ \E g \in Files : ~xml[g].numbered /\ <<g[1], xml[g].case>> = dat[f][i].by

(* Both tools: once past a case, each DAT file of the case that could be   *)
(* read or made ends in a value the tool has put there, whatever the runs  *)
(* and their retries did to it or to others.                               *)
PastCasesSet ==
  \A f \in FilesOf(env) :
    xml[f].case < index /\ pc \in {"search", "retry"}
      /\ xml[f].numbered /\ xml[f].tagged /\ Had(f) # "unreadable"
    => Last(dat[Dat(f)]).val \in {"new", "true"}

(* Set_ACT_Return.py:222: the tool dies of an unassigned variable only     *)
(* while no case up to this one has had a DAT file with a value.           *)
DiesOnlyBeforeValue ==
  pc = "dead" => ~\E f \in FilesOf(env) :
                    xml[f].numbered /\ Had(f) = "value" /\ xml[f].case <= index

(* Every case the tools have passed has its value in its own DAT file,     *)
(* and no file has what belongs to another, but for those exceptions: an   *)
(* XML file without a number, a DAT file that could not be read, or was    *)
(* without a value, before.                                                *)
ValuesBelong ==
  OwnLinesIfRead /\ OwnRunIfNumbered /\ PastCasesSet /\ DiesOnlyBeforeValue
==============================================================================
