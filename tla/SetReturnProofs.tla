-------------------------- MODULE SetReturnProofs --------------------------
(***************************************************************************)
(* Proofs about SetReturn for any environments and any number of files.    *)
(***************************************************************************)
EXTENDS SetReturn, TLAPS

(* The types TypeOK leaves out: the XML files, which nothing changes, and   *)
(* files and memory as functions.                                          *)
XmlFiles == [case : Cases, numbered : BOOLEAN, tagged : BOOLEAN, dat : Files,
             had : {"nothing", "plain", "value", "unreadable"}]
Typed ==
  /\ xml \in [Files -> XmlFiles] /\ NumbersFit(xml)
  /\ dat \in [Files -> Seq(Lines)]
  /\ mem \in [dat : Files \cup {NoFile}, lines : Seq(Lines), prefix : Files \cup {NoFile}]

Own(f, s)   == \A i \in DOMAIN s : s[i].of = f
OnlyLast(s) == \A i \in DOMAIN s : s[i].val = "true" => i = Len(s)

(* A DAT file ends in a value of the tool.                                 *)
Set(s)      == s # <<>> /\ s[Len(s)].val \in {"new", "true"}

(* What a DAT file may hold.                                               *)
Explained(f, s) ==
  \A i \in DOMAIN s : s[i].val = "true" =>
    \/ s[i].by = <<f[1], xml[f].case>>
    \/ \E g \in Files : ~xml[g].numbered /\ <<g[1], xml[g].case>> = s[i].by
Fits(f, s) ==
  /\ xml[f].had = "value" => s # <<>> /\ s[Len(s)].val # "none"
  /\ tool = "Set_Return" \/ xml[f].had = "value" => Own(f, s)
  /\ OnlyLast(s)
  /\ Explained(f, s)

(* What the variables left over from a file may hold.                      *)
MemFits ==
  /\ OnlyLast(mem.lines)
  /\ mem.dat \in Files /\ xml[mem.dat].had = "value" =>
       Own(mem.dat, mem.lines) /\ mem.prefix = mem.dat

Data == (\A f \in Files : Fits(f, dat[f])) /\ MemFits

(* While a case is looked for, or run: an environment has been entered, a  *)
(* case that is found has a file that names it, which dat_path names, or   *)
(* one without a number; and the files the search has passed are done.     *)
Busy      == pc \in {"search", "retry"}
Called(f) == f[1] = env /\ xml[f].case = index
Passed(f) == f[1] = env /\ (xml[f].case < index \/ (xml[f].case = index /\ f \notin todo))

Where ==
  /\ Busy => env \in 1..Len(Dirs) /\ todo \subseteq FilesOf(env)
  /\ pc = "retry" => tool = "Set_ACT_Return" /\ todo = {} /\ found /\ mem.lines # <<>>
Source ==
  Busy /\ found => \/ mem.dat \in Files /\ Called(mem.dat)
                   \/ \E g \in Files : ~xml[g].numbered /\ Called(g)
Done ==
  Busy => \A f \in Files : Passed(f) /\ xml[f].numbered =>
    /\ xml[f].tagged /\ Had(f) # "unreadable" => Set(dat[Dat(f)])
    /\ Had(f) = "value" => mem.lines # <<>> /\ mem.prefix # NoFile

IInv == TypeOK /\ Typed /\ Data /\ Where /\ Source /\ Done /\ DiesOnlyBeforeValue

-----------------------------------------------------------------------------
LEMMA FilesFacts ==
  ASSUME NEW f \in Files
  PROVE  f[1] \in DOMAIN Dirs /\ f # NoFile
<1>1. PICK e \in DOMAIN Dirs : \E x \in 1..Dirs[e] : f = <<e, x>>
  BY DEF Files
<1>2. DOMAIN Dirs = 1..Len(Dirs)
  BY DirsAssumption
<1>. QED
  BY <1>1, <1>2, DirsAssumption DEF NoFile

(* The DAT file of an XML file is of its environment and case.             *)
LEMMA DatFacts ==
  ASSUME Typed, NEW f \in Files
  PROVE  /\ Dat(f) \in Files /\ Dat(f)[1] = f[1] /\ xml[Dat(f)].case = xml[f].case
         /\ dat[Dat(f)] \in Seq(Lines)
BY DEF Typed, XmlFiles, NumbersFit, Dat

LEMMA CasesFacts == Cases \subseteq Nat \ {0} /\ 1 \in Cases
<1>1. DOMAIN Dirs = 1..Len(Dirs) /\ 1 \in DOMAIN Dirs
  BY DirsAssumption
<1>. QED
  BY <1>1, DirsAssumption DEF Cases

(* The last line replaced.                                                 *)
LEMMA ReplaceLast ==
  ASSUME NEW S, NEW s \in Seq(S), NEW x \in S
  PROVE  LET n == Front(s) \o <<x>>
         IN  /\ n \in Seq(S) /\ n # <<>> /\ n[Len(n)] = x
             /\ \A i \in DOMAIN n : i # Len(n) => i \in DOMAIN s /\ i # Len(s) /\ n[i] = s[i]
BY DEF Front

(* A line added.                                                           *)
LEMMA AddLine ==
  ASSUME NEW S, NEW s \in Seq(S), NEW x \in S
  PROVE  LET n == s \o <<x>>
         IN  /\ n \in Seq(S) /\ n # <<>> /\ n[Len(n)] = x
             /\ \A i \in DOMAIN n : i # Len(n) => i \in DOMAIN s /\ n[i] = s[i]
OBVIOUS

LEMMA CaseNumbers ==
  ASSUME IInv
  PROVE  (\A g \in Files : xml[g].case \in Nat \ {0}) /\ index \in Nat
<1>1. \A n \in Cases : n \in Nat \ {0} /\ n + 1 \in Nat
  BY CasesFacts
<1>2. \A g \in Files : xml[g].case \in Cases
  BY DEF IInv, Typed, XmlFiles
<1>3. index \in {1} \cup {n + 1 : n \in Cases}
  BY DEF IInv, TypeOK
<1>. QED
  BY <1>1, <1>2, <1>3

(* Memory and files in which nothing has changed still fit.                *)
LEMMA DataKept ==
  ASSUME Data, UNCHANGED <<tool, xml, dat, mem>>
  PROVE  Data'
BY DEF Data, MemFits, Fits, Own, OnlyLast, Explained

(* A file that is written anew fits when what is written does.             *)
LEMMA Written ==
  ASSUME Typed, Data, NEW f \in Files, NEW s \in Seq(Lines), Fits(f, s),
         dat' = [dat EXCEPT ![f] = s], UNCHANGED <<tool, xml>>
  PROVE  /\ \A g \in Files : Fits(g, dat[g])'
         /\ dat' \in [Files -> Seq(Lines)]
<1>1. dat' \in [Files -> Seq(Lines)]
  BY DEF Typed
<1>2. ASSUME NEW g \in Files
      PROVE  Fits(g, dat[g])'
  <2>1. Fits(g, dat'[g])
    BY DEF Typed, Data
  <2>. QED
    BY <2>1 DEF Fits, Own, OnlyLast, Explained
<1>. QED
  BY <1>1, <1>2

-----------------------------------------------------------------------------
(* What the visit of a file does to the DAT file and to what is left over. *)
Wrote(f, s) ==
  /\ s \in Seq(Lines) /\ Fits(Dat(f), s)
  /\ (xml[f].tagged /\ Had(f) # "unreadable") \/ Set(dat[Dat(f)]) => Set(s)

LEMMA CreatedFits ==
  ASSUME Typed, NEW f \in Files
  PROVE  /\ Created(f) \in Seq(Lines)
         /\ xml[f].tagged => Created(f) = <<Line(Dat(f), "new", NoFile)>>
         /\ ~xml[f].tagged => Created(f) = <<>>
         /\ Line(Dat(f), "new", NoFile) \in Lines
<1>1. Line(Dat(f), "new", NoFile) \in Lines
  BY DatFacts DEF Line, Lines, Values, NoFile
<1>. QED
  BY <1>1 DEF Created

(* The DAT file of an XML file, as the invariant has it.                   *)
LEMMA DatFits ==
  ASSUME IInv, NEW f \in Files
  PROVE  /\ Dat(f) \in Files /\ Had(f) = xml[Dat(f)].had
         /\ dat[Dat(f)] \in Seq(Lines) /\ Fits(Dat(f), dat[Dat(f)])
BY DatFacts DEF IInv, Data, Had

LEMMA CreateWrites ==
  ASSUME IInv, NEW f \in Files, Create(f)
  PROVE  /\ Wrote(f, Created(f)) /\ dat' = [dat EXCEPT ![Dat(f)] = Created(f)]
         /\ mem'.dat = Dat(f) /\ mem'.lines = mem.lines /\ mem'.prefix = mem.prefix
         /\ Had(f) # "value"
<1>1. Had(f) # "value"
  BY DatFacts DEF IInv, Data, Fits, Create, Had
<1>. DEFINE s == Created(f)
<1>. DEFINE x == Line(Dat(f), "new", NoFile)
<1>2. /\ s \in Seq(Lines) /\ \A i \in DOMAIN s : s[i].of = Dat(f) /\ s[i].val = "new"
      /\ xml[f].tagged => s # <<>> /\ s[Len(s)].val = "new"
  <2>0. x.of = Dat(f) /\ x.val = "new" /\ x \in Lines
    BY CreatedFits DEF IInv, Line
  <2>1. CASE xml[f].tagged
    <3>1. s = <<x>> /\ s \in Seq(Lines)
      BY <2>1, CreatedFits DEF IInv
    <3>2. DOMAIN <<x>> = {1} /\ <<x>>[1] = x /\ Len(<<x>>) = 1 /\ <<x>> # <<>>
      OBVIOUS
    <3>. QED
      BY <2>0, <3>1, <3>2
  <2>2. CASE ~xml[f].tagged
    BY <2>2, CreatedFits DEF IInv
  <2>. QED
    BY <2>1, <2>2
<1>3. Wrote(f, s)
  <2>1. Fits(Dat(f), s)
    BY <1>1, <1>2 DEF Fits, Own, OnlyLast, Explained, Had
  <2>2. ~Set(dat[Dat(f)])
    BY DEF Create, Set
  <2>. QED
    BY <1>2, <2>1, <2>2 DEF Wrote, Set
<1>4. dat' = [dat EXCEPT ![Dat(f)] = s] /\ mem' = [mem EXCEPT !.dat = Dat(f)]
  BY DEF Create, Names
<1>5. mem'.dat = Dat(f) /\ mem'.lines = mem.lines /\ mem'.prefix = mem.prefix
  BY <1>4 DEF IInv, Typed
<1>. QED
  BY <1>1, <1>3, <1>4, <1>5

LEMMA AppendWrites ==
  ASSUME IInv, NEW f \in Files, AppendTo(f), NEW d, d = Dat(f)
  PROVE  /\ Wrote(f, dat[d] \o Created(f)) /\ dat' = [dat EXCEPT ![d] = dat[d] \o Created(f)]
         /\ mem'.dat = d /\ mem'.lines = dat[d] /\ mem'.prefix = mem.prefix
         /\ Had(f) # "value"
<1>0. d \in Files /\ Had(f) = xml[d].had /\ dat[d] \in Seq(Lines) /\ Fits(d, dat[d])
  BY DatFits
<1>. USE DEF IInv, Typed
<1>1. dat[d] \in Seq(Lines) /\ dat[d] # <<>> /\ dat[d][Len(dat[d])].val = "none"
  BY <1>0 DEF AppendTo, Readable, Last
<1>2. Had(f) # "value" /\ Fits(d, dat[d]) /\ ~Set(dat[d])
  BY <1>0, <1>1 DEF Fits, Set
<1>3. Wrote(f, dat[d] \o Created(f))
  <2>1. CASE xml[f].tagged
    <3>. DEFINE n == dat[d] \o <<Line(d, "new", NoFile)>>
    <3>1. /\ n \in Seq(Lines) /\ n # <<>> /\ n[Len(n)] = Line(d, "new", NoFile)
          /\ \A i \in DOMAIN n : i # Len(n) => i \in DOMAIN dat[d] /\ n[i] = dat[d][i]
      BY <1>1, <2>1, CreatedFits, AddLine
    <3>2. \A i \in DOMAIN dat[d] : dat[d][i].val # "true"
      BY <1>1, <1>2 DEF Fits, OnlyLast
    <3>3. \A i \in DOMAIN n : n[i].val # "true"
      BY <3>1, <3>2 DEF Line
    <3>4. tool = "Set_Return" => Own(d, n)
      BY <1>2, <3>1 DEF Fits, Own, Line
    <3>5. Fits(d, n)
      BY <1>0, <1>2, <3>3, <3>4 DEF Fits, OnlyLast, Explained
    <3>6. n[Len(n)].val = "new"
      BY <3>1 DEF Line
    <3>. QED
      BY <2>1, <3>1, <3>5, <3>6, CreatedFits DEF Wrote, Set
  <2>2. CASE ~xml[f].tagged
    <3>1. dat[d] \o Created(f) = dat[d]
      BY <1>1, <2>2, CreatedFits
    <3>. QED
      BY <1>1, <1>2, <2>2, <3>1 DEF Wrote
  <2>. QED
    BY <2>1, <2>2
<1>. QED
  BY <1>1, <1>2, <1>3 DEF AppendTo, Reads

LEMMA ModifyWrites ==
  ASSUME IInv, NEW f \in Files, Modify(f), NEW d, d = Dat(f)
  PROVE  \E s \in Seq(Lines) :
               /\ Wrote(f, s) /\ dat' = [dat EXCEPT ![d] = s] /\ s # <<>> /\ OnlyLast(s)
               /\ mem'.dat = d /\ mem'.lines = s /\ mem'.prefix \in Files
               /\ Had(f) = "value" => mem'.prefix = d
<1>0. d \in Files /\ Had(f) = xml[d].had /\ dat[d] \in Seq(Lines) /\ Fits(d, dat[d])
  BY DatFits
<1>. USE DEF IInv, Typed
<1>. DEFINE of == dat[d][Len(dat[d])].of
            x  == Line(of, "new", NoFile)
            s  == Front(dat[d]) \o <<x>>
<1>1. dat[d] \in Seq(Lines) /\ dat[d] # <<>> /\ Fits(d, dat[d])
  BY <1>0 DEF Modify, Readable
<1>2. of \in Files /\ x \in Lines
  <2>1. dat[d][Len(dat[d])] \in Lines
    BY <1>1
  <2>2. of \in Files
    BY <2>1 DEF Lines
  <2>. QED
    BY <2>2 DEF Lines, Line, Values, NoFile
<1>3. /\ s \in Seq(Lines) /\ s # <<>> /\ s[Len(s)] = x
      /\ \A i \in DOMAIN s : i # Len(s) => i \in DOMAIN dat[d] /\ i # Len(dat[d]) /\ s[i] = dat[d][i]
  BY <1>1, <1>2, ReplaceLast
<1>4. x.val = "new" /\ x.of = of
  BY DEF Line
<1>. HIDE DEF s, x, of
<1>5. \A i \in DOMAIN s : s[i].val # "true"
  BY <1>1, <1>3, <1>4 DEF Fits, OnlyLast
<1>6. tool = "Set_Return" \/ Had(f) = "value" => Own(d, s) /\ of = d
  <2>1. SUFFICES ASSUME Own(d, dat[d]) PROVE Own(d, s) /\ of = d
    BY <1>0, <1>1 DEF Fits
  <2>2. of = d
    BY <1>1, <2>1 DEF Own, of
  <2>. QED
    BY <1>3, <1>4, <2>1, <2>2 DEF Own
<1>7. Fits(d, s) /\ OnlyLast(s)
  BY <1>0, <1>3, <1>4, <1>5, <1>6 DEF Fits, OnlyLast, Explained
<1>8. Wrote(f, s)
  BY <1>3, <1>4, <1>7 DEF Wrote, Set
<1>9. dat' = [dat EXCEPT ![d] = s] /\ mem'.dat = d /\ mem'.lines = s /\ mem'.prefix = of
  BY DEF Modify, Last, s, x, of
<1>. QED
  BY <1>2, <1>3, <1>6, <1>7, <1>8, <1>9

(* The three of them and a file that cannot be read, in one: a file that   *)
(* names the case is written, and it is what dat_path names.               *)
Remembers(f) ==
  /\ mem' \in [dat : Files \cup {NoFile}, lines : Seq(Lines), prefix : Files \cup {NoFile}]
  /\ mem'.dat = Dat(f)
  /\ mem.lines # <<>> \/ Had(f) = "value" => mem'.lines # <<>>
  /\ mem.prefix # NoFile \/ Had(f) = "value" => mem'.prefix # NoFile
  /\ OnlyLast(mem'.lines)
  /\ Had(f) = "value" => Own(Dat(f), mem'.lines) /\ mem'.prefix = Dat(f)

(* What is written for a matching file fits it, in each of the four ways.  *)
LEMMA MatchWrites ==
  ASSUME IInv, NEW f \in Files, Create(f) \/ Unreadable(f) \/ AppendTo(f) \/ Modify(f)
  PROVE  Remembers(f) /\ \E s : Wrote(f, s) /\ dat' = [dat EXCEPT ![Dat(f)] = s]
<1>0. /\ mem \in [dat : Files \cup {NoFile}, lines : Seq(Lines), prefix : Files \cup {NoFile}]
      /\ dat \in [Files -> Seq(Lines)] /\ OnlyLast(mem.lines)
      /\ Fits(Dat(f), dat[Dat(f)]) /\ Dat(f) \in Files /\ Had(f) = xml[Dat(f)].had
  BY DatFits DEF IInv, Typed, Data, MemFits
<1>1. CASE Create(f)
  <2>1. mem' = [mem EXCEPT !.dat = Dat(f)]
    BY <1>1 DEF Create, Names
  <2>. QED
    BY <1>0, <1>1, <2>1, CreateWrites DEF Remembers
<1>2. CASE Unreadable(f)
  <2>1. mem' = [mem EXCEPT !.dat = Dat(f)] /\ dat' = [dat EXCEPT ![Dat(f)] = dat[Dat(f)]]
    BY <1>0, <1>2 DEF Unreadable, Names
  <2>2. Had(f) = "unreadable"
    BY <1>2 DEF Unreadable
  <2>3. Wrote(f, dat[Dat(f)])
    BY <1>0, <2>2 DEF Wrote
  <2>. QED
    BY <1>0, <2>1, <2>2, <2>3 DEF Remembers
<1>3. CASE AppendTo(f)
  <2>1. mem' = [dat |-> Dat(f), lines |-> dat[Dat(f)], prefix |-> mem.prefix] /\ dat[Dat(f)] # <<>>
    BY <1>3 DEF AppendTo, Reads, Readable
  <2>2. OnlyLast(dat[Dat(f)]) /\ dat[Dat(f)] \in Seq(Lines)
    BY <1>0 DEF Fits
  <2>. QED
    BY <1>0, <1>3, <2>1, <2>2, AppendWrites DEF Remembers
<1>4. CASE Modify(f)
  <2>1. PICK s \in Seq(Lines) :
               /\ Wrote(f, s) /\ dat' = [dat EXCEPT ![Dat(f)] = s] /\ s # <<>> /\ OnlyLast(s)
               /\ mem'.dat = Dat(f) /\ mem'.lines = s /\ mem'.prefix \in Files
               /\ Had(f) = "value" => mem'.prefix = Dat(f)
    BY <1>4, ModifyWrites
  <2>2. mem' = [dat |-> Dat(f), lines |-> s, prefix |-> mem'.prefix]
    BY <1>4, <2>1 DEF Modify
  <2>3. mem'.prefix # NoFile
    BY <2>1, FilesFacts
  <2>4. s \in Seq(Lines) /\ (Had(f) = "value" => Own(Dat(f), s))
    BY <1>0, <2>1 DEF Wrote, Fits
  <2>5. Remembers(f)
    BY <1>0, <2>1, <2>2, <2>3, <2>4 DEF Remembers
  <2>. QED
    BY <2>1, <2>5
<1>. QED
  BY <1>1, <1>2, <1>3, <1>4

-----------------------------------------------------------------------------
(* The search.                                                             *)

(* A matching file.                                                        *)
LEMMA InductiveMatch ==
  ASSUME IInv, NEW f \in Files, Create(f) \/ Unreadable(f) \/ AppendTo(f) \/ Modify(f)
  PROVE  IInv'
<1>0. /\ pc = "search" /\ f \in todo /\ todo' = todo \ {f} /\ found' = TRUE
      /\ xml[f].case = index /\ xml[f].numbered
      /\ UNCHANGED <<tool, xml, pc, env, index>>
  BY DEF Create, Unreadable, AppendTo, Modify, Matches, Visited
<1>. DEFINE d == Dat(f)
<1>a. d \in Files /\ Had(f) = xml[d].had /\ d[1] = f[1] /\ xml[d].case = xml[f].case
  BY DatFacts, DatFits DEF IInv
<1>1. PICK s : Wrote(f, s) /\ dat' = [dat EXCEPT ![Dat(f)] = s]
  BY MatchWrites
<1>2. Remembers(f)
  BY MatchWrites
<1>3. (\A g \in Files : Fits(g, dat[g])') /\ dat' \in [Files -> Seq(Lines)]
  BY <1>0, <1>1, <1>a, Written DEF IInv, Wrote
<1>4. Typed'
  BY <1>0, <1>2, <1>3 DEF IInv, Typed, Remembers
<1>5. Data'
  BY <1>0, <1>2, <1>3, <1>a DEF Data, MemFits, Remembers, OnlyLast, Own
<1>6. TypeOK'
  BY <1>0, <1>4 DEF IInv, TypeOK, Typed
<1>7. f[1] = env
  BY <1>0 DEF IInv, Where, Busy, FilesOf
<1>8. Where' /\ Source'
  BY <1>0, <1>2, <1>7, <1>a DEF IInv, Where, Source, Busy, Called, Remembers
<1>9. Done'
  <2>1. SUFFICES ASSUME NEW g \in Files, g[1] = env, xml[g].numbered,
                        xml[g].case < index \/ (xml[g].case = index /\ (g \notin todo \/ g = f))
                 PROVE  /\ xml[g].tagged /\ Had(g) # "unreadable" => Set(dat'[Dat(g)])
                        /\ Had(g) = "value" => mem'.lines # <<>> /\ mem'.prefix # NoFile
    BY <1>0 DEF Done, Passed, Busy, Had, Dat, Set
  <2>a. Dat(g) \in Files
    BY DatFits
  <2>2. CASE g = f
    <3>1. dat'[Dat(g)] = s
      BY <1>1, <2>2, <2>a DEF IInv, Typed
    <3>. QED
      BY <1>1, <1>2, <2>2, <3>1 DEF Wrote, Remembers
  <2>3. CASE g # f
    <3>1. dat'[Dat(g)] = IF Dat(g) = Dat(f) THEN s ELSE dat[Dat(g)]
      BY <1>1, <2>a DEF IInv, Typed
    <3>2. Passed(g) /\ Busy
      BY <1>0, <2>1, <2>3 DEF Passed, Busy
    <3>3. Set(dat[Dat(g)]) => Set(dat'[Dat(g)])
      BY <1>1, <3>1 DEF Wrote
    <3>. QED
      BY <1>2, <2>1, <3>2, <3>3 DEF IInv, Done, Remembers
  <2>. QED
    BY <2>2, <2>3
<1>10. DiesOnlyBeforeValue'
  BY <1>0 DEF DiesOnlyBeforeValue
<1>. QED
  BY <1>4, <1>5, <1>6, <1>8, <1>9, <1>10 DEF IInv

(* A file that does not name the case, or has no number, changes no file.  *)
LEMMA InductivePass ==
  ASSUME IInv, NEW f \in Files, NotNamed(f) \/ Unnumbered(f)
  PROVE  IInv'
<1>0. /\ pc = "search" /\ f \in todo /\ todo' = todo \ {f}
      /\ UNCHANGED <<tool, xml, dat, pc, env, index, mem>>
  BY DEF NotNamed, Unnumbered, Visited
<1>1. /\ xml[f].case = index => ~xml[f].numbered /\ found' = TRUE
      /\ xml[f].case # index => found' = found
  BY DEF NotNamed, Unnumbered
<1>2. Typed' /\ Data'
  BY <1>0, DataKept DEF IInv, Typed
<1>3. TypeOK'
  BY <1>0, <1>1 DEF IInv, TypeOK
<1>4. f[1] = env
  BY <1>0 DEF IInv, Where, Busy, FilesOf
<1>5. Where'
  BY <1>0 DEF IInv, Where, Busy, FilesOf
<1>6. Source'
  <2>1. CASE xml[f].case = index
    BY <1>0, <1>1, <1>4, <2>1 DEF Source, Called
  <2>2. CASE xml[f].case # index
    BY <1>0, <1>1, <2>2 DEF IInv, Source, Busy, Called
  <2>. QED
    BY <2>1, <2>2
<1>7. Done' /\ DiesOnlyBeforeValue'
  BY <1>0, <1>1 DEF IInv, Done, Busy, Passed, DiesOnlyBeforeValue, Had, Dat, Set
<1>. QED
  BY <1>2, <1>3, <1>5, <1>6, <1>7 DEF IInv

-----------------------------------------------------------------------------
(* Between the environments.                                               *)

(* An environment is entered or left, or no file is found.                 *)
LEMMA InductiveEnv ==
  ASSUME IInv, EnterEnv \/ SkipEnv \/ NotFound \/ AllDone \/ (NoGlobalId /\ env < Len(Dirs))
  PROVE  IInv'
<1>0. UNCHANGED <<tool, xml, dat, mem>>
  BY DEF EnterEnv, SkipEnv, NotFound, AllDone, NoGlobalId
<1>1. Typed' /\ Data'
  BY <1>0, DataKept DEF IInv, Typed
<1>2. CASE EnterEnv
  <2>1. /\ pc' = "search" /\ index' = 1 /\ todo' = FilesOf(env') /\ found' = FALSE
        /\ env' = env + 1 /\ env < Len(Dirs)
    BY <1>2 DEF EnterEnv, Case
  <2>2. env' \in 1..Len(Dirs)
    BY <2>1, DirsAssumption DEF IInv, TypeOK
  <2>3. TypeOK'
    <3>1. todo' \subseteq Files /\ index' \in {1} \cup {n + 1 : n \in Cases}
      BY <2>1 DEF FilesOf
    <3>2. /\ \A g \in Files : dat'[g] \in Seq(Lines)
          /\ mem'.dat \in Files \cup {NoFile} /\ mem'.prefix \in Files \cup {NoFile}
          /\ mem'.lines \in Seq(Lines)
      BY <1>1 DEF Typed
    <3>3. tool' \in {"Set_Return", "Set_ACT_Return"} /\ found' \in BOOLEAN
      BY <1>0, <2>1 DEF IInv, TypeOK
    <3>. QED
      BY <2>1, <2>2, <3>1, <3>2, <3>3 DEF TypeOK
  <2>4. Where' /\ Source' /\ DiesOnlyBeforeValue'
    BY <2>1, <2>2 DEF Where, Source, DiesOnlyBeforeValue, Busy, FilesOf
  <2>5. Done'
    <3>1. \A g \in Files : xml'[g].case \in Nat \ {0}
      BY <1>0, CaseNumbers
    <3>. QED
      BY <2>1, <3>1 DEF Done, Passed, FilesOf
  <2>. QED
    BY <1>1, <2>3, <2>4, <2>5 DEF IInv
<1>3. CASE ~EnterEnv
  <2>1. /\ pc' \in {"env", "end"} /\ UNCHANGED <<index, todo, found>>
        /\ env' = env \/ (env' = env + 1 /\ env < Len(Dirs))
    BY <1>3 DEF SkipEnv, NotFound, AllDone, NoGlobalId
  <2>2. env' \in 0..Len(Dirs)
    BY <2>1, DirsAssumption DEF IInv, TypeOK
  <2>3. TypeOK'
    BY <1>0, <2>1, <2>2 DEF IInv, TypeOK
  <2>4. Where' /\ Source' /\ Done' /\ DiesOnlyBeforeValue'
    BY <2>1 DEF Where, Source, Done, DiesOnlyBeforeValue, Busy
  <2>. QED
    BY <1>1, <2>3, <2>4 DEF IInv
<1>. QED
  BY <1>2, <1>3

-----------------------------------------------------------------------------
(* The run of a case that was found.                                       *)

(* The case has a file, so its number is not past the last one.            *)
LEMMA CaseFound ==
  ASSUME IInv, Busy, found
  PROVE  index \in Cases
<1>1. \A g \in Files : xml[g].case \in Cases
  BY DEF IInv, Typed, XmlFiles
<1>. QED
  BY <1>1 DEF IInv, Source, Called

(* The next case begins with every file of this one passed; between them,  *)
(* the retry may have put another value into a file.                       *)
LEMMA CaseGoesOn ==
  ASSUME IInv, Busy, found, todo = {}, NextCase, UNCHANGED <<tool, xml>>,
         Typed', Data',
         \A g \in Files : Set(dat[g]) => Set(dat'[g]),
         mem.lines # <<>> => mem'.lines # <<>>,
         mem'.prefix = mem.prefix
  PROVE  IInv'
<1>0. /\ env' = env /\ index' = index + 1 /\ todo' = FilesOf(env) /\ found' = FALSE
      /\ pc' = "search"
  BY DEF NextCase, Case, FilesOf
<1>1. TypeOK'
  <2>1. todo' \subseteq Files /\ index' \in {1} \cup {n + 1 : n \in Cases}
    BY <1>0, CaseFound DEF FilesOf
  <2>2. env' \in 0..Len(Dirs) /\ tool' \in {"Set_Return", "Set_ACT_Return"}
    BY <1>0 DEF IInv, TypeOK
  <2>3. /\ \A g \in Files : dat'[g] \in Seq(Lines)
        /\ mem'.dat \in Files \cup {NoFile} /\ mem'.prefix \in Files \cup {NoFile}
        /\ mem'.lines \in Seq(Lines)
    BY DEF Typed
  <2>. QED
    BY <1>0, <2>1, <2>2, <2>3 DEF TypeOK
<1>2. Where' /\ Source' /\ DiesOnlyBeforeValue'
  BY <1>0 DEF IInv, Where, Source, DiesOnlyBeforeValue, Busy, FilesOf
<1>3. Done'
  <2>1. SUFFICES ASSUME NEW g \in Files, Passed(g)', xml[g].numbered
                 PROVE  /\ xml[g].tagged /\ Had(g) # "unreadable" => Set(dat'[Dat(g)])
                        /\ Had(g) = "value" => mem'.lines # <<>> /\ mem'.prefix # NoFile
    BY DEF Done, Had, Dat, Set
  <2>2. g[1] = env /\ xml[g].case < index + 1
    BY <1>0, <2>1 DEF Passed, FilesOf
  <2>3. xml[g].case \in Nat /\ index \in Nat
    BY CaseNumbers
  <2>4. Passed(g)
    BY <2>2, <2>3 DEF Passed
  <2>. QED
    BY <2>1, <2>4, DatFits DEF IInv, Done
<1>. QED
  BY <1>1, <1>2, <1>3 DEF IInv

(* A run passes.                                                           *)
LEMMA InductiveRun ==
  ASSUME IInv, RunPasses \/ NoTrueValue
  PROVE  IInv'
<1>1. /\ Busy /\ todo = {} /\ found /\ NextCase /\ UNCHANGED <<tool, xml, dat, mem>>
  BY DEF RunPasses, NoTrueValue, IInv, Where, Busy
<1>2. Typed' /\ Data'
  BY <1>1, DataKept DEF IInv, Typed
<1>. QED
  BY <1>1, <1>2, CaseGoesOn

(* A run fails.                                                            *)
LEMMA InductiveFail ==
  ASSUME IInv, RunFails \/ NoPrefix
  PROVE  IInv'
<1>0. /\ Busy /\ todo = {} /\ found /\ tool = "Set_ACT_Return" /\ pc' \in {"retry", "dead"}
      /\ UNCHANGED <<tool, xml, dat, env, index, todo, found, mem>>
  BY DEF RunFails, NoPrefix, IInv, Where, Busy
<1>1. /\ pc' = "retry" => mem.lines # <<>>
      /\ pc' = "dead" => mem.lines = <<>> \/ mem.prefix = NoFile
  BY DEF RunFails, NoPrefix
<1>2. Typed' /\ Data'
  BY <1>0, DataKept DEF IInv, Typed
<1>3. TypeOK' /\ Where' /\ Source' /\ Done'
  BY <1>0, <1>1 DEF IInv, TypeOK, Where, Source, Called, Done, Passed, Busy, FilesOf,
     Had, Dat, Set
<1>4. DiesOnlyBeforeValue'
  <2>1. \A g \in FilesOf(env) : xml[g].case <= index => Passed(g)
    <3>1. (\A g \in Files : xml[g].case \in Nat) /\ index \in Nat
      BY CaseNumbers
    <3>. QED
      BY <1>0, <3>1 DEF Passed, FilesOf
  <2>. QED
    BY <1>0, <1>1, <2>1 DEF IInv, Done, DiesOnlyBeforeValue, FilesOf, Had, Dat
<1>. QED
  BY <1>2, <1>3, <1>4 DEF IInv

(* The value a run reports goes into the last file that was named: the     *)
(* lines that fit it, if it had a value before, and else any.              *)
LEMMA InductiveTrueValue ==
  ASSUME IInv, TrueValue
  PROVE  IInv'
<1>. DEFINE x == Line(mem.prefix, "true", <<env, index>>)
            n == Front(mem.lines) \o <<x>>
            f == mem.dat
<1>0. /\ Busy /\ todo = {} /\ found /\ NextCase /\ UNCHANGED <<tool, xml>>
      /\ tool = "Set_ACT_Return" /\ mem.lines # <<>> /\ mem.prefix # NoFile
  BY DEF TrueValue, IInv, Where, Busy
<1>1. mem \in [dat : Files \cup {NoFile}, lines : Seq(Lines), prefix : Files \cup {NoFile}]
  BY DEF IInv, Typed
<1>. HIDE DEF x, n, f
<1>2. dat' = [dat EXCEPT ![f] = n] /\ mem' = [mem EXCEPT !.lines = n]
  BY DEF TrueValue, x, n, f
<1>3. x \in Lines /\ x.val = "true" /\ x.of = mem.prefix /\ x.by = <<env, index>>
  <2>1. mem.prefix \in Files /\ env \in DOMAIN Dirs /\ index \in Cases
    BY <1>0, <1>1, CaseFound, DirsAssumption DEF IInv, Where
  <2>. QED
    BY <2>1 DEF x, Line, Lines, Values
<1>4. /\ n \in Seq(Lines) /\ n # <<>> /\ n[Len(n)] = x
      /\ \A i \in DOMAIN n : i # Len(n) =>
            i \in DOMAIN mem.lines /\ i # Len(mem.lines) /\ n[i] = mem.lines[i]
  BY <1>1, <1>3, ReplaceLast DEF n
<1>5. \A i \in DOMAIN n : n[i].val = "true" => i = Len(n)
  BY <1>4 DEF IInv, Data, MemFits, OnlyLast
<1>6. /\ mem'.dat = f /\ mem'.lines = n /\ mem'.prefix = mem.prefix
      /\ mem' \in [dat : Files \cup {NoFile}, lines : Seq(Lines), prefix : Files \cup {NoFile}]
  BY <1>1, <1>2, <1>4 DEF f
<1>7. CASE f \in Files
  <2>1. xml[f].had = "value" => Own(f, n) /\ mem.prefix = f
    BY <1>3, <1>4, <1>7 DEF IInv, Data, MemFits, Own, f
  <2>2. \/ <<env, index>> = <<f[1], xml[f].case>>
        \/ \E g \in Files : ~xml[g].numbered /\ <<g[1], xml[g].case>> = <<env, index>>
    BY <1>0 DEF IInv, Source, Called, f
  <2>3. Explained(f, n)
    BY <1>3, <1>4, <1>5, <2>2 DEF Explained
  <2>4. Fits(f, n)
    BY <1>0, <1>3, <1>4, <1>5, <2>1, <2>3 DEF Fits, OnlyLast
  <2>5. (\A g \in Files : Fits(g, dat[g])') /\ dat' \in [Files -> Seq(Lines)]
    BY <1>0, <1>2, <1>4, <1>7, <2>4, Written DEF IInv
  <2>6. Data'
    BY <1>0, <1>5, <1>6, <2>1, <2>5 DEF Data, MemFits, OnlyLast, Own
  <2>7. Typed'
    BY <1>0, <1>6, <2>5 DEF IInv, Typed
  <2>8. \A g \in Files : Set(dat[g]) => Set(dat'[g])
    BY <1>2, <1>3, <1>4, <1>7 DEF IInv, Typed, Set
  <2>. QED
    BY <1>0, <1>4, <1>6, <2>6, <2>7, <2>8, CaseGoesOn
<1>8. CASE f \notin Files          \* no DAT file was named: never so
  <2>1. dat' = dat
    BY <1>2, <1>8 DEF IInv, Typed
  <2>2. Typed' /\ Data'
    BY <1>0, <1>5, <1>6, <1>8, <2>1 DEF IInv, Typed, Data, MemFits, Fits, Own, OnlyLast, Explained
  <2>. QED
    BY <1>0, <1>4, <1>6, <2>1, <2>2, CaseGoesOn
<1>. QED
  BY <1>7, <1>8

-----------------------------------------------------------------------------
(* The invariant.                                                          *)

LEMMA InitIInv == Init => IInv
<1>. SUFFICES ASSUME Init PROVE IInv
  OBVIOUS
<1>1. xml \in [Files -> XmlFiles] /\ NumbersFit(xml)
  BY DEF Init, XmlFiles
<1>2. ASSUME NEW f \in Files
      PROVE  Holds(f, xml[f].had) \in Seq(Lines) /\ Fits(f, Holds(f, xml[f].had))
  <2>. DEFINE x == Line(f, "none", NoFile)
              y == Line(f, "old", NoFile)
  <2>1. /\ x \in Lines /\ x.of = f /\ x.val = "none"
        /\ y \in Lines /\ y.of = f /\ y.val = "old"
    BY DEF Line, Lines, Values, NoFile
  <2>. DEFINE s == Holds(f, xml[f].had)
  <2>. HIDE DEF x, y
  <2>2. /\ s = <<>> \/ s = <<x>> \/ s = <<x, y>>
        /\ xml[f].had = "value" => s = <<x, y>>
    BY <1>1 DEF Holds, XmlFiles, x, y
  <2>. HIDE DEF s
  <2>3. /\ s \in Seq(Lines) /\ \A i \in DOMAIN s : s[i].of = f /\ s[i].val # "true"
        /\ xml[f].had = "value" => s # <<>> /\ s[Len(s)].val = "old"
    <3>1. CASE s = <<>>
      BY <2>2, <3>1
    <3>2. CASE s = <<x>>
      BY <2>1, <2>2, <3>2
    <3>3. CASE s = <<x, y>>
      <4>1. /\ DOMAIN <<x, y>> = {1, 2} /\ <<x, y>>[1] = x /\ <<x, y>>[2] = y
            /\ Len(<<x, y>>) = 2 /\ <<x, y>> # <<>> /\ <<x, y>> \in Seq(Lines)
        BY <2>1
      <4>. QED
        BY <2>1, <3>3, <4>1
    <3>. QED
      BY <2>2, <3>1, <3>2, <3>3
  <2>4. s \in Seq(Lines) /\ Fits(f, s)
    BY <2>3 DEF Fits, Own, OnlyLast, Explained
  <2>. QED
    BY <2>4 DEF s
<1>3. /\ dat = [f \in Files |-> Holds(f, xml[f].had)]
      /\ mem = [dat |-> NoFile, lines |-> <<>>, prefix |-> NoFile]
      /\ pc = "env" /\ env = 0 /\ index = 1 /\ todo = {} /\ found = FALSE
      /\ tool \in {"Set_Return", "Set_ACT_Return"}
  BY DEF Init
<1>4. NoFile \notin Files
  BY FilesFacts
<1>5. Typed
  BY <1>1, <1>2, <1>3 DEF Typed
<1>6. Data
  BY <1>2, <1>3, <1>4 DEF Data, MemFits, OnlyLast
<1>7. TypeOK
  <2>1. Len(Dirs) \in Nat
    BY DirsAssumption
  <2>2. \A g \in Files : dat[g] \in Seq(Lines)
    BY <1>2, <1>3
  <2>3. found \in BOOLEAN
    BY <1>3
  <2>4. todo \subseteq Files /\ mem.lines \in Seq(Lines)
    BY <1>3, <1>5 DEF Typed
  <2>. QED
    BY <1>3, <2>1, <2>2, <2>3, <2>4 DEF TypeOK
<1>8. Where /\ Source /\ Done /\ DiesOnlyBeforeValue
  BY <1>3 DEF Where, Source, Done, Busy, DiesOnlyBeforeValue
<1>. QED
  BY <1>5, <1>6, <1>7, <1>8 DEF IInv

(* Every step keeps the invariant.                                         *)
LEMMA Inductive == IInv /\ [Next]_vars => IInv'
<1>. SUFFICES ASSUME IInv, [Next]_vars PROVE IInv'
  OBVIOUS
<1>1. CASE UNCHANGED vars
  <2>1. Typed' /\ Data'
    BY <1>1, DataKept DEF IInv, Typed, vars
  <2>. QED
    BY <1>1, <2>1 DEF IInv, TypeOK, Where, Source, Called, Done, Passed, Busy,
       DiesOnlyBeforeValue, FilesOf, Had, Dat, Set, vars
<1>2. ASSUME NEW f \in Files, Visit(f)
      PROVE  IInv'
  BY <1>2, InductiveMatch, InductivePass DEF Visit
<1>. QED
  BY <1>1, <1>2, InductiveEnv, InductiveRun, InductiveFail, InductiveTrueValue DEF Next

(* Every state the tools can be in satisfies the invariant.                *)
THEOREM Strengthened == Spec => []IInv
  BY InitIInv, Inductive, PTL DEF Spec

(* Both tools keep their types: the numbers go no further than the first   *)
(* case that no file names.                                                *)
THEOREM TypeCorrect == Spec => []TypeOK
<1>1. IInv => TypeOK
  BY DEF IInv
<1>. QED
  BY <1>1, Strengthened, PTL

(* What fits belongs.                                                      *)
LEMMA IInvBelongs == IInv => ValuesBelong
<1>. SUFFICES ASSUME IInv PROVE ValuesBelong
  OBVIOUS
<1>1. OwnLinesIfRead
  <2>1. ASSUME NEW f \in Files, xml[f].had = "value" \/ tool = "Set_Return"
        PROVE  Own(f, dat[f])
    BY <2>1 DEF IInv, Data, Fits
  <2>. QED
    BY <2>1 DEF IInv, TypeOK, OwnLinesIfRead, Own
<1>2. OwnRunIfNumbered
  BY DEF IInv, Data, Fits, Explained, OwnRunIfNumbered
<1>3. PastCasesSet
  BY DEF IInv, Done, Busy, Passed, PastCasesSet, FilesOf, Last, Set
<1>. QED
  BY <1>1, <1>2, <1>3 DEF IInv, ValuesBelong

(* The exceptions that ValuesBelong names are all there are, whatever the  *)
(* environments and their files.                                           *)
THEOREM Belong == Spec => []ValuesBelong
  BY IInvBelongs, Strengthened, PTL
=============================================================================
