---------------------------- MODULE LoaderProofs ----------------------------
(***************************************************************************)
(* For every class path, every set of files and any depth of nested loads: *)
(* the compiler owns its parser, a class comes from the first file that    *)
(* defines it, the ancestors of a registered class are registered, and     *)
(* only a circular hierarchy exhausts the C++ stack.                       *)
(***************************************************************************)
EXTENDS Loader, FiniteSetTheorems, SequenceTheorems, WellFoundedInduction, TLAPS

(* ParserOwned needs one fact more to be inductive: parsers are numbered,  *)
(* so a new one is never NoParser.                                         *)
ParserInv == ParserOwned /\ parsers \in Nat

(* The steps that make or delete a parser.                                 *)
ParserStep ==
  \/ \E f \in Statements : CompileClassString(f)
  \/ CompileClass \/ CompileSystemClass \/ Assemble

(* Every other step leaves the compiler's parser alone.                    *)
LEMMA OthersKeepParser ==
  ASSUME [Next]_vars, ~ParserStep
  PROVE  UNCHANGED parserVars
<1>1. CASE UNCHANGED vars
  BY <1>1 DEF vars, parserVars
<1>2. CASE Done
  BY <1>2 DEF Done, vars, parserVars
<1>3. CASE LoadSystemClass \/ LoadSystemClassEnd \/ LoadCoreClass
             \/ LoadCoreClassEnd \/ initialize
  BY <1>3 DEF LoadSystemClass, LoadSystemClassEnd, LoadCoreClass,
              LoadCoreClassEnd, initialize
<1>4. ASSUME NEW n \in UserClass, resolve(n) \/ Load_(n)
      PROVE  UNCHANGED parserVars
  BY <1>4 DEF resolve, Load_
<1>5. ASSUME NEW n \in BlockClass, GetBlockClassWithArgs(n)
      PROVE  UNCHANGED parserVars
  BY <1>5 DEF GetBlockClassWithArgs
<1>6. CASE GetBlockClassWithArgsEnd \/ resolveEnd
  BY <1>6 DEF GetBlockClassWithArgsEnd, resolveEnd
<1>7. CASE Overflow \/ LoadClassGlobal \/ LoadClass \/ LoadClassEnd
  BY <1>7 DEF Overflow, LoadClassGlobal, LoadClass, LoadClassEnd
<1>8. CASE LoadClassBasicNext \/ LoadClassBasicFails \/ AssembleCrash
             \/ AssembleMismatch
  BY <1>8 DEF LoadClassBasicNext, LoadClassBasicFails, AssembleCrash,
              AssembleMismatch
<1> QED
  BY <1>1, <1>2, <1>3, <1>4, <1>5, <1>6, <1>7, <1>8 DEF Next, ParserStep

(* Every step keeps ParserInv: a parser step deletes the parser it finds   *)
(* before it puts a new one, or NULL, in its place.                        *)
LEMMA ParserInvKept ==
  ASSUME ParserInv, [Next]_vars
  PROVE  ParserInv'
<1> USE DEF ParserInv, ParserOwned, NoParser
<1>1. ASSUME NEW f \in Statements, CompileClassString(f)
      PROVE  ParserInv'
  BY <1>1 DEF CompileClassString
<1>2. CASE CompileClass
  BY <1>2 DEF CompileClass
<1>3. CASE CompileSystemClass
  BY <1>3 DEF CompileSystemClass
<1>4. CASE Assemble
  BY <1>4 DEF Assemble
<1>5. CASE ~ParserStep
  BY <1>5, OthersKeepParser DEF parserVars
<1> QED
  BY <1>1, <1>2, <1>3, <1>4, <1>5 DEF ParserStep

(* SourcecodeCompiler::parser is NULL or the one parser that exists: no    *)
(* nesting of CompileClass through Assemble and LoadClass, no mismatch of  *)
(* file and class names and no shell statement deletes a parser twice,     *)
(* leaves a dangling pointer or loses a parser.                            *)
THEOREM ParserIsOwned == Spec => []ParserOwned
<1>1. Init => ParserInv
  BY DEF Init, ParserInv, ParserOwned, NoParser
<1>2. ParserInv /\ [Next]_vars => ParserInv'
  BY ParserInvKept
<1>3. ParserInv => ParserOwned
  BY DEF ParserInv
<1> QED
  BY <1>1, <1>2, <1>3, PTL DEF Spec

-----------------------------------------------------------------------------
(***************************************************************************)
(* What loading keeps.  A class that LoadClass may return is Sound: it is  *)
(* a system class, or it was made from the first file of its name on the   *)
(* class path that defines it, under the class that file names.            *)
(***************************************************************************)

DiskOk ==
  /\ disk \subseteq Files
  /\ \A f, g \in disk : f.path = g.path /\ f.file = g.file => f = g

Exact(d, cs, k) ==
  /\ cs[k].super \in 1 .. k - 1
  /\ \E f \in d : /\ f.file = cs[k].name
                  /\ f.class = cs[k].name
                  /\ f.path = cs[k].path
                  /\ f.super = cs[cs[k].super].name
                  /\ \A g \in d : g.file = f.file /\ g.class = f.file => f.path <= g.path

Sound(d, cs, k) == k \in 1 .. Len(cs) /\ (k \in Systems \/ Exact(d, cs, k))

SoundAs(d, cs, k, n) == Sound(d, cs, k) /\ cs[k].name = n

ClassRecord == [name : ClassNames, super : Nat, path : Nat]

ClassesOk ==
  /\ classes \in Seq(ClassRecord)
  /\ Len(classes) >= Len(SystemClass)
  /\ \A k \in Class : /\ classes[k].super < k
                      /\ classes[k].super # 0 => Sound(disk, classes, classes[k].super)
  /\ \A k \in Systems : /\ classes[k].name = SystemClass[k]
                        /\ classes[k].super = SystemSuper[k]
                        /\ classes[k].path = 0

GlobalsOk ==
  /\ globals \in [Name -> {Null, Other} \cup Class]
  /\ \A n \in Name \ {"NewClass"} : globals[n] \in Class => SoundAs(disk, classes, globals[n], n)

-----------------------------------------------------------------------------
(***************************************************************************)
(* The call stack.                                                         *)
(***************************************************************************)
NamedCall == [fn : {"LoadClass", "LoadClassEnd", "LoadSystemClassEnd", "LoadCoreClassEnd",
                    "resolveEnd", "GetBlockClassWithArgsEnd"}, name : ClassNames]
BasicCall == [fn : {"LoadClassBasic"}, name : ClassNames, path : Nat \ {0},
              system : Systems \cup {Null}]
AssemblyCall == [fn : {"Assemble"}, file : Files \cup Statements, name : ClassNames]

Calls == NamedCall \cup BasicCall \cup AssemblyCall

\* The callers from which loading starts.
Starters == {"LoadSystemClassEnd", "LoadCoreClassEnd", "resolveEnd",
             "GetBlockClassWithArgsEnd"}

\* The paths LoadClassBasic has passed hold no file that defines the class.
Passed(c) == \A f \in disk : f.file = c.name /\ f.class = c.name => c.path <= f.path

FrameOk(c) ==
  /\ c \in Calls
  /\ c.fn = "LoadClassBasic" => Passed(c)
  /\ c.fn = "GetBlockClassWithArgsEnd" => c.name \in BlockClass

\* Call c was made by call d.
Above(c, d) ==
  /\ c.fn \in {"LoadClass", "LoadClassEnd"} =>
       \/ d.fn = "Assemble" /\ d.file.super = c.name
       \/ d.fn \in {"LoadCoreClassEnd", "resolveEnd"} /\ d.name = c.name
  /\ c.fn = "LoadClassBasic" /\ c.system = Null =>
       d.fn \in {"LoadClassEnd", "GetBlockClassWithArgsEnd"} /\ d.name = c.name
  /\ c.fn = "LoadClassBasic" /\ c.system # Null => d.fn = "LoadSystemClassEnd"
  /\ c.fn = "Assemble" =>
       /\ d.fn = "LoadClassBasic" /\ d.name = c.name /\ d.system = Null
       /\ c.file \in disk /\ c.file.file = c.name /\ c.file.path = d.path
  /\ c.fn \notin Starters

\* Call c is the outermost, made at this stage of the start-up.
Bottom(c) ==
  \/ c.fn = "LoadSystemClassEnd" /\ booted < Len(SystemClass)
  \/ /\ c.fn = "LoadCoreClassEnd"
     /\ booted >= Len(SystemClass) /\ booted < Len(Toload)
     /\ c.name = Toload[booted + 1]
  \/ /\ c.fn \in {"resolveEnd", "GetBlockClassWithArgsEnd", "LoadClass", "LoadClassEnd"}
     /\ booted = Len(Toload) + 1
  \/ /\ c.fn = "Assemble" /\ c.file.path = 0 /\ c.file.class = c.name
     /\ booted = Len(Toload) + 1

Stack(st) ==
  \A i \in 1 .. Len(st) : /\ FrameOk(st[i])
                          /\ i < Len(st) => Above(st[i], st[i + 1])
                          /\ i = Len(st) => Bottom(st[i])

\* Call c goes on with what the call it made returned, for this name.
Awaits(c) == c.fn \in {"Assemble", "LoadClassEnd", "LoadCoreClassEnd", "resolveEnd",
                      "GetBlockClassWithArgsEnd"}
Awaited(c) == IF c.fn = "Assemble" THEN c.file.super ELSE c.name

ResultOk ==
  /\ result \in {Null} \cup Class
  /\ calls # <<>> /\ Awaits(calls[1]) /\ result # Null =>
       SoundAs(disk, classes, result, Awaited(calls[1]))

BootOk ==
  /\ booted \in 0 .. Len(Toload) + 1
  /\ core \in Seq({Null} \cup Class)
  /\ booted <= Len(SystemClass) => core = <<>>
  /\ booted \in Len(SystemClass) .. Len(Toload) => Len(core) = booted - Len(SystemClass)
  /\ \A i \in DOMAIN core :
       i \in DOMAIN CoreClass /\ (core[i] # Null => SoundAs(disk, classes, core[i], CoreClass[i]))

SoundInv ==
  /\ DiskOk /\ ClassesOk /\ GlobalsOk
  /\ calls \in Seq(Calls) /\ Stack(calls)
  /\ ResultOk /\ BootOk

-----------------------------------------------------------------------------
(* Lemmas about the call stack and the class path.                         *)

LEMMA EmptyIsShort ==
  ASSUME NEW S, NEW s \in Seq(S)
  PROVE  s = <<>> <=> Len(s) = 0
OBVIOUS

LEMMA TwoPushed ==
  ASSUME NEW S, NEW a \in S, NEW b \in S, NEW t \in Seq(S)
  PROVE  <<a, b>> \o t = <<a>> \o (<<b>> \o t)
<1>1. <<b>> \o t \in Seq(S) /\ <<a>> \o (<<b>> \o t) \in Seq(S) /\ <<a, b>> \o t \in Seq(S)
  OBVIOUS
<1>2. /\ Len(<<a, b>> \o t) = Len(t) + 2
      /\ Len(<<b>> \o t) = Len(t) + 1
      /\ Len(<<a>> \o (<<b>> \o t)) = Len(t) + 2
      /\ Len(t) \in Nat
  OBVIOUS
<1>3. ASSUME NEW i \in 1 .. Len(t) + 2
      PROVE  (<<a, b>> \o t)[i] = (<<a>> \o (<<b>> \o t))[i]
  <2>1. CASE i = 1
    BY <2>1
  <2>2. CASE i = 2
    BY <2>2
  <2>3. CASE i > 2
    <3>1. (<<a, b>> \o t)[i] = t[i - 2]
      BY <2>3
    <3>2. (<<a>> \o (<<b>> \o t))[i] = (<<b>> \o t)[i - 1]
      BY <1>1, <1>2, <2>3
    <3>3. (<<b>> \o t)[i - 1] = t[i - 2]
      BY <1>2, <2>3
    <3> QED BY <3>1, <3>2, <3>3
  <2> QED BY <1>2, <2>1, <2>2, <2>3
<1> DEFINE u == <<a, b>> \o t
           v == <<a>> \o (<<b>> \o t)
<1>4. u \in Seq(S) /\ v \in Seq(S) /\ Len(u) = Len(v) /\ \A i \in 1 .. Len(u) : u[i] = v[i]
  BY <1>1, <1>2, <1>3
<1> HIDE DEF u, v
<1>5. u = v
  BY <1>4, SeqEqual
<1> QED BY <1>5 DEF u, v

LEMMA StackTail ==
  ASSUME NEW st \in Seq(Calls), Stack(st), st # <<>>
  PROVE  /\ Tail(st) \in Seq(Calls) /\ Stack(Tail(st))
         /\ st[1] \in Calls /\ FrameOk(st[1])
         /\ Tail(st) = <<>> => Bottom(st[1])
         /\ Tail(st) # <<>> => Above(st[1], st[2]) /\ Tail(st)[1] = st[2]
<1> DEFINE t == Tail(st)
<1>1. Len(st) \in Nat /\ Len(st) >= 1
  OBVIOUS
<1>2. t \in Seq(Calls) /\ Len(t) = Len(st) - 1
  OBVIOUS
<1>3. ASSUME NEW i \in 1 .. Len(t)
      PROVE  t[i] = st[i + 1]
  OBVIOUS
<1> HIDE DEF t
<1>4. t = <<>> <=> Len(st) = 1
  <2>1. t = <<>> <=> Len(t) = 0
    BY <1>2, EmptyIsShort
  <2> QED BY <1>1, <1>2, <2>1
<1>5. Stack(t)
  <2> SUFFICES ASSUME NEW i \in 1 .. Len(t)
               PROVE  /\ FrameOk(t[i])
                      /\ i < Len(t) => Above(t[i], t[i + 1])
                      /\ i = Len(t) => Bottom(t[i])
    BY DEF Stack
  <2>1. i + 1 \in 1 .. Len(st) /\ t[i] = st[i + 1]
    BY <1>1, <1>2, <1>3
  <2>2. /\ FrameOk(st[i + 1])
        /\ i + 1 < Len(st) => Above(st[i + 1], st[i + 2])
        /\ i + 1 = Len(st) => Bottom(st[i + 1])
    BY <2>1 DEF Stack
  <2>3. i < Len(t) => t[i + 1] = st[i + 2]
    BY <1>1, <1>2, <1>3
  <2> QED BY <1>1, <1>2, <2>1, <2>2, <2>3
<1>6. /\ FrameOk(st[1])
      /\ 1 < Len(st) => Above(st[1], st[2])
      /\ 1 = Len(st) => Bottom(st[1])
  <2>1. 1 \in 1 .. Len(st)
    BY <1>1
  <2> QED BY <2>1, <1>1 DEF Stack
<1>7. t # <<>> => t[1] = st[2]
  BY <1>1, <1>2, <1>3, <1>4
<1>8. st[1] \in Calls
  BY <1>1
<1> QED BY <1>1, <1>2, <1>4, <1>5, <1>6, <1>7, <1>8 DEF t

LEMMA StackPush ==
  ASSUME NEW st \in Seq(Calls), Stack(st), NEW c, FrameOk(c),
         st = <<>> => Bottom(c),
         st # <<>> => Above(c, st[1])
  PROVE  /\ <<c>> \o st \in Seq(Calls) /\ Stack(<<c>> \o st)
         /\ <<c>> \o st # <<>> /\ (<<c>> \o st)[1] = c
<1> DEFINE u == <<c>> \o st
<1>1. c \in Calls
  BY DEF FrameOk, Calls
<1>2. u \in Seq(Calls) /\ Len(u) = Len(st) + 1 /\ Len(st) \in Nat
  BY <1>1
<1>3. u[1] = c /\ \A i \in 1 .. Len(st) : u[i + 1] = st[i]
  BY <1>1
<1>4. st = <<>> <=> Len(st) = 0
  OBVIOUS
<1> HIDE DEF u
<1>5. Stack(u)
  <2> SUFFICES ASSUME NEW i \in 1 .. Len(u)
               PROVE  /\ FrameOk(u[i])
                      /\ i < Len(u) => Above(u[i], u[i + 1])
                      /\ i = Len(u) => Bottom(u[i])
    BY DEF Stack
  <2>1. CASE i = 1
    <3>1. 1 < Len(u) => u[2] = st[1] /\ st # <<>>
      <4>1. 1 < Len(u) => 1 \in 1 .. Len(st)
        BY <1>2
      <4> QED BY <1>3, <1>4, <4>1
    <3>2. 1 = Len(u) => st = <<>>
      BY <1>2, <1>4
    <3> QED BY <1>3, <2>1, <3>1, <3>2
  <2>2. CASE i # 1
    <3>1. i - 1 \in 1 .. Len(st) /\ u[i] = st[i - 1]
      <4>1. i - 1 \in 1 .. Len(st)
        BY <1>2, <2>2
      <4>2. u[(i - 1) + 1] = st[i - 1]
        BY <1>3, <4>1
      <4> QED BY <4>1, <4>2
    <3>2. i < Len(u) => u[i + 1] = st[(i - 1) + 1]
      <4>1. i < Len(u) => i \in 1 .. Len(st)
        BY <1>2
      <4> QED BY <1>3, <4>1
    <3>3. /\ FrameOk(st[i - 1])
          /\ i - 1 < Len(st) => Above(st[i - 1], st[(i - 1) + 1])
          /\ i - 1 = Len(st) => Bottom(st[i - 1])
      BY <3>1 DEF Stack
    <3> QED BY <1>2, <3>1, <3>2, <3>3
  <2> QED BY <2>1, <2>2
<1>6. u # <<>>
  BY <1>2
<1> QED BY <1>2, <1>3, <1>5, <1>6 DEF u

\* Stack depends on the class path and the stage of the start-up only.
LEMMA StackStays ==
  ASSUME UNCHANGED <<disk, booted>>, Stack(calls')
  PROVE  Stack(calls)'
BY DEF Stack, FrameOk, Above, Bottom, Passed, Toload

LEMMA FileAtFound ==
  ASSUME DiskOk, NEW p \in Nat, NEW n
  PROVE  /\ FileAt(p, n) # NoFile =>
              FileAt(p, n) \in disk /\ FileAt(p, n).path = p /\ FileAt(p, n).file = n
         /\ FileAt(p, n) = NoFile => \A f \in disk : ~(f.path = p /\ f.file = n)
<1>1. CASE \E f \in disk : f.path = p /\ f.file = n
  <2>1. FileAt(p, n) = CHOOSE f \in disk : f.path = p /\ f.file = n
    BY <1>1 DEF FileAt
  <2>2. FileAt(p, n) \in disk /\ FileAt(p, n).path = p /\ FileAt(p, n).file = n
    BY <1>1, <2>1, Zenon
  <2>3. FileAt(p, n).path \in Path
    BY <2>2, LoaderAssumption DEF DiskOk
  <2>4. NoFile.path = 0 /\ 0 \notin Path
    BY DEF NoFile, Path
  <2>5. FileAt(p, n) # NoFile
    BY <2>3, <2>4
  <2> QED BY <2>2, <2>5
<1>2. CASE ~ \E f \in disk : f.path = p /\ f.file = n
  <2>1. FileAt(p, n) = NoFile
    BY <1>2 DEF FileAt
  <2> QED BY <1>2, <2>1
<1> QED BY <1>1, <1>2

-----------------------------------------------------------------------------
(* Lemmas about what a step leaves as it was.                              *)

LEMMA SoundStays ==
  ASSUME NEW d, NEW cs \in Seq(ClassRecord), NEW r \in ClassRecord, NEW k,
         Sound(d, cs, k)
  PROVE  Sound(d, Append(cs, r), k) /\ Append(cs, r)[k] = cs[k]
<1> DEFINE bs == Append(cs, r)
<1>1. Len(bs) = Len(cs) + 1 /\ Len(cs) \in Nat /\ \A j \in 1 .. Len(cs) : bs[j] = cs[j]
  OBVIOUS
<1>2. k \in 1 .. Len(cs)
  BY DEF Sound
<1> HIDE DEF bs
<1>3. ASSUME Exact(d, cs, k)
      PROVE  Exact(d, bs, k)
  <2>1. cs[k].super \in 1 .. Len(cs)
    BY <1>2, <1>3 DEF Exact
  <2> QED BY <1>1, <1>2, <1>3, <2>1 DEF Exact
<1> QED BY <1>1, <1>2, <1>3 DEF Sound, bs

LEMMA ClassesStay ==
  ASSUME DiskOk, ClassesOk, UNCHANGED <<disk, classes>>
  PROVE  DiskOk' /\ ClassesOk'
BY DEF DiskOk, ClassesOk, Class

LEMMA GlobalsStay ==
  ASSUME GlobalsOk, UNCHANGED <<disk, classes, globals>>
  PROVE  GlobalsOk'
BY DEF GlobalsOk, Class

LEMMA BootStays ==
  ASSUME BootOk, UNCHANGED <<disk, classes, bootVars>>
  PROVE  BootOk'
BY DEF BootOk, Class, bootVars

\* The parser interns selectors; every method becomes a global.
LEMMA SelectorsSet ==
  ASSUME GlobalsOk, UNCHANGED <<disk, classes>>, NEW names,
         globals' = SetGlobals(names, Other)
  PROVE  GlobalsOk'
<1>1. Other \notin Class
  BY DEF Other, Class
<1>2. globals' \in [Name -> {Null, Other} \cup Class]
  BY DEF GlobalsOk, SetGlobals
<1>3. ASSUME NEW n \in Name \ {"NewClass"}, globals'[n] \in Class
      PROVE  SoundAs(disk, classes, globals'[n], n)
  <2>1. globals'[n] = globals[n]
    BY <1>1, <1>3 DEF SetGlobals
  <2> QED BY <1>3, <2>1 DEF GlobalsOk
<1> QED BY <1>2, <1>3 DEF GlobalsOk, Class

\* A class is made below a sound one.
LEMMA ClassMade ==
  ASSUME DiskOk, ClassesOk, GlobalsOk, BootOk, NEW r \in ClassRecord,
         Sound(disk, classes, r.super),
         classes' = Append(classes, r),
         globals' = SetGlobals({"NewClass"}, Len(classes')),
         UNCHANGED <<disk, bootVars>>
  PROVE  DiskOk' /\ ClassesOk' /\ GlobalsOk' /\ BootOk'
<1>1. /\ Len(classes') = Len(classes) + 1 /\ Len(classes) \in Nat
      /\ \A j \in 1 .. Len(classes) : classes'[j] = classes[j]
      /\ classes'[Len(classes')] = r
      /\ classes' \in Seq(ClassRecord)
  BY DEF ClassesOk
<1>2. \A k : Sound(disk, classes, k) =>
        Sound(disk, classes', k) /\ classes'[k] = classes[k]
  BY SoundStays DEF ClassesOk
<1>3. DiskOk'
  BY DEF DiskOk
<1>4. ClassesOk'
  <2>1. ASSUME NEW k \in 1 .. Len(classes')
        PROVE  /\ classes'[k].super < k
               /\ classes'[k].super # 0 => Sound(disk, classes', classes'[k].super)
    <3>1. CASE k \in 1 .. Len(classes)
      BY <1>1, <1>2, <3>1 DEF ClassesOk, Class
    <3>2. CASE k = Len(classes')
      BY <1>1, <1>2, <3>2 DEF Sound
    <3> QED BY <1>1, <3>1, <3>2
  <2>2. \A k \in Systems : k \in 1 .. Len(classes)
    BY <1>1, LoaderAssumption DEF ClassesOk, Systems
  <2> QED BY <1>1, <2>1, <2>2 DEF ClassesOk, Class
<1>5. GlobalsOk'
  <2>1. globals' \in [Name -> {Null, Other} \cup Class']
    BY <1>1 DEF GlobalsOk, SetGlobals, Class
  <2>2. ASSUME NEW n \in Name \ {"NewClass"}, globals'[n] \in Class'
        PROVE  SoundAs(disk, classes', globals'[n], n)
    <3>1. globals'[n] = globals[n]
      BY DEF SetGlobals
    <3>2. globals[n] \in Class
      <4>1. globals[n] \in {Null, Other} \cup Class
        BY DEF GlobalsOk
      <4> QED BY <2>2, <3>1, <4>1 DEF Null, Other, Class
    <3>3. SoundAs(disk, classes, globals[n], n)
      BY <3>2 DEF GlobalsOk
    <3> QED BY <1>2, <3>1, <3>3 DEF SoundAs
  <2> QED BY <2>1, <2>2 DEF GlobalsOk
<1>6. BootOk'
  <2>1. core \in Seq({Null} \cup Class')
    <3>1. Class \subseteq Class'
      BY <1>1 DEF Class
    <3> QED BY <3>1 DEF BootOk
  <2>2. \A i \in DOMAIN core : core[i] # Null => SoundAs(disk, classes', core[i], CoreClass[i])
    BY <1>2 DEF BootOk, SoundAs
  <2> QED BY <2>1, <2>2 DEF BootOk, bootVars
<1> QED BY <1>3, <1>4, <1>5, <1>6

\* A step that only makes calls or returns.
LEMMA CallStep ==
  ASSUME SoundInv, UNCHANGED <<disk, classes, globals, bootVars>>,
         calls' \in Seq(Calls), Stack(calls'), ResultOk'
  PROVE  SoundInv'
<1>1. Stack(calls)'
  BY StackStays DEF bootVars
<1> QED BY <1>1, ClassesStay, GlobalsStay, BootStays DEF SoundInv

\* A step that calls out and keeps the result of an earlier call.
LEMMA ResultStays ==
  ASSUME ResultOk, UNCHANGED <<disk, classes, result>>,
         calls' # <<>> => ~Awaits(calls'[1])
  PROVE  ResultOk'
BY DEF ResultOk, Class, Awaits

LEMMA EmptyStack ==
  <<>> \in Seq(Calls) /\ Stack(<<>>)
BY DEF Stack

-----------------------------------------------------------------------------
(* The steps that make calls.                                              *)

LEMMA NamesOfClasses ==
  /\ UserClass \subseteq ClassNames
  /\ BlockClass \subseteq ClassNames
  /\ \A f \in Files \cup Statements : f.super \in ClassNames /\ f.class \in ClassNames
  /\ \A i \in Systems : SystemClass[i] \in ClassNames /\ Toload[i] = SystemClass[i]
  /\ \A i \in DOMAIN CoreClass : /\ CoreClass[i] \in ClassNames
                                 /\ Toload[Len(SystemClass) + i] = CoreClass[i]
  /\ \A i \in DOMAIN Toload : Toload[i] \in ClassNames
  /\ Len(Toload) = Len(SystemClass) + Len(CoreClass)
  /\ Len(SystemClass) \in Nat /\ Len(CoreClass) \in Nat
  /\ ClassNames \subseteq Name
<1>1. /\ SystemClass \in Seq(Name) /\ CoreClass \in Seq(Name)
      /\ Len(SystemClass) \in Nat /\ Len(CoreClass) \in Nat
  BY LoaderAssumption
<1>2. /\ Toload \in Seq(Name)
      /\ Len(Toload) = Len(SystemClass) + Len(CoreClass)
      /\ \A i \in 1 .. Len(SystemClass) : Toload[i] = SystemClass[i]
      /\ \A i \in 1 .. Len(CoreClass) : Toload[Len(SystemClass) + i] = CoreClass[i]
  BY <1>1 DEF Toload
<1>3. DOMAIN Toload = 1 .. Len(Toload) /\ DOMAIN CoreClass = 1 .. Len(CoreClass)
  BY <1>1, <1>2
<1>4. \A i \in DOMAIN Toload : Toload[i] \in ClassNames
  BY DEF ClassNames
<1>5. \A i \in Systems : SystemClass[i] \in ClassNames
  <2> TAKE i \in Systems
  <2>1. i \in DOMAIN Toload
    BY <1>1, <1>2, <1>3 DEF Systems
  <2> QED BY <1>2, <1>4, <2>1 DEF Systems
<1>6. \A i \in DOMAIN CoreClass : CoreClass[i] \in ClassNames
  <2> TAKE i \in DOMAIN CoreClass
  <2>1. Len(SystemClass) + i \in DOMAIN Toload
    BY <1>1, <1>2, <1>3
  <2> QED BY <1>2, <1>3, <1>4, <2>1
<1>7. \A f \in Files \cup Statements : f.super \in Name /\ f.class \in Name
  <2>1. \A f \in Files : f.super \in Name /\ f.class \in Name
    BY LoaderAssumption
  <2>2. \A f \in Statements : f.super \in Name /\ f.class \in Name
    BY LoaderAssumption
  <2> QED BY <2>1, <2>2
<1>8. ClassNames \subseteq Name
  <2>1. \A i \in DOMAIN Toload : Toload[i] \in Name
    BY <1>2, <1>3
  <2>2. BlockClass \cup UserClass \subseteq Name
    BY LoaderAssumption
  <2> QED BY <1>7, <2>1, <2>2 DEF ClassNames
<1>9. \A f \in Files \cup Statements : f.super \in ClassNames /\ f.class \in ClassNames
  BY DEF ClassNames
<1> QED BY <1>1, <1>2, <1>3, <1>4, <1>5, <1>6, <1>8, <1>9 DEF ClassNames, Systems

\* The paths of files.
LEMMA FilePaths ==
  /\ \A f \in Files : f.path \in Nat /\ f.path >= 1
  /\ \A f \in Statements : f.path = 0
<1>1. Paths \in Nat
  BY LoaderAssumption
<1>2. \A f \in Files : f.path \in Path
  BY LoaderAssumption
<1>3. \A f \in Statements : f.path \in {0}
  BY LoaderAssumption
<1> QED BY <1>1, <1>2, <1>3 DEF Path

LEMMA SoundLoadSystemClass ==
  ASSUME SoundInv, LoadSystemClass
  PROVE  SoundInv'
<1> DEFINE i == booted + 1
           c == LoadClassBasicCall(SystemClass[i], 1, i)
           d == Caller("LoadSystemClassEnd", SystemClass[i])
<1>1. i \in Systems /\ booted < Len(SystemClass) /\ SystemClass[i] \in ClassNames
  BY NamesOfClasses DEF SoundInv, BootOk, LoadSystemClass, Systems
<1>2. FrameOk(d) /\ Bottom(d)
  BY <1>1 DEF FrameOk, Bottom, Calls, NamedCall, Caller
<1>3. Passed(c)
  BY FilePaths DEF Passed, LoadClassBasicCall, SoundInv, DiskOk
<1>4. FrameOk(c) /\ Above(c, d)
  BY <1>1, <1>3 DEF FrameOk, Above, Calls, BasicCall, Caller, LoadClassBasicCall, Null,
                    Systems, Starters
<1>5. calls' = <<c>> \o (<<d>> \o <<>>)
  BY DEF LoadSystemClass
<1> HIDE DEF c, d, i
<1>6. /\ <<d>> \o <<>> \in Seq(Calls) /\ Stack(<<d>> \o <<>>)
      /\ <<d>> \o <<>> # <<>> /\ (<<d>> \o <<>>)[1] = d
  BY <1>2, EmptyStack, StackPush
<1>7. calls' \in Seq(Calls) /\ Stack(calls') /\ calls'[1] = c
  BY <1>4, <1>5, <1>6, StackPush
<1>8. ~Awaits(c)
  BY DEF c, Awaits, LoadClassBasicCall
<1>9. UNCHANGED <<disk, classes, globals, result, bootVars>>
  BY DEF LoadSystemClass
<1>10. ResultOk'
  BY <1>7, <1>8, <1>9, ResultStays DEF SoundInv
<1> QED BY <1>7, <1>9, <1>10, CallStep

\* A name is loaded, and nobody waits for the class or one of the callers does.
LEMMA SoundLoadCall ==
  ASSUME SoundInv, NEW n \in ClassNames, NEW d,
         \/ calls' = <<LoadClassCall(n), d>> /\ FrameOk(d) /\ Bottom(d)
              /\ Above(LoadClassCall(n), d)
         \/ calls' = <<LoadClassCall(n)>> /\ booted = Len(Toload) + 1,
         UNCHANGED <<disk, classes, globals, result, bootVars>>
  PROVE  SoundInv'
<1> DEFINE c == LoadClassCall(n)
<1>1. FrameOk(c) /\ ~Awaits(c)
  BY DEF FrameOk, Calls, NamedCall, LoadClassCall, Awaits
<1>2. booted = Len(Toload) + 1 => Bottom(c)
  BY DEF Bottom, LoadClassCall
<1>3. CASE calls' = <<c, d>> /\ FrameOk(d) /\ Bottom(d) /\ Above(c, d)
  <2> HIDE DEF c
  <2>1. calls' = <<c>> \o (<<d>> \o <<>>)
    BY <1>3
  <2>2. /\ <<d>> \o <<>> \in Seq(Calls) /\ Stack(<<d>> \o <<>>)
        /\ <<d>> \o <<>> # <<>> /\ (<<d>> \o <<>>)[1] = d
    BY <1>3, EmptyStack, StackPush
  <2>3. calls' \in Seq(Calls) /\ Stack(calls') /\ calls'[1] = c
    BY <1>1, <1>3, <2>1, <2>2, StackPush
  <2>4. ResultOk'
    BY <1>1, <2>3, ResultStays DEF SoundInv
  <2> QED BY <2>3, <2>4, CallStep
<1>4. CASE calls' = <<c>> /\ booted = Len(Toload) + 1
  <2> HIDE DEF c
  <2>1. calls' = <<c>> \o <<>>
    BY <1>4
  <2>2. calls' \in Seq(Calls) /\ Stack(calls') /\ calls'[1] = c
    BY <1>1, <1>2, <1>4, <2>1, EmptyStack, StackPush
  <2>3. ResultOk'
    BY <1>1, <2>2, ResultStays DEF SoundInv
  <2> QED BY <2>2, <2>3, CallStep
<1> QED BY <1>3, <1>4

LEMMA SoundLoadCoreClass ==
  ASSUME SoundInv, LoadCoreClass
  PROVE  SoundInv'
<1> DEFINE n == Toload[booted + 1]
           d == Caller("LoadCoreClassEnd", n)
<1>1. /\ booted >= Len(SystemClass) /\ booted < Len(Toload) /\ booted \in Nat
      /\ booted + 1 \in 1 .. Len(Toload)
  BY NamesOfClasses DEF LoadCoreClass, Booting, SoundInv, BootOk
<1>2. n \in ClassNames
  <2>1. DOMAIN Toload = 1 .. Len(Toload)
    BY LoaderAssumption DEF Toload
  <2> QED BY <1>1, <2>1, NamesOfClasses
<1>3. FrameOk(d) /\ Bottom(d) /\ Above(LoadClassCall(n), d)
  BY <1>1, <1>2 DEF FrameOk, Bottom, Above, Calls, NamedCall, Caller, LoadClassCall, Starters
<1>4. calls' = <<LoadClassCall(n), d>>
  BY DEF LoadCoreClass
<1>5. UNCHANGED <<disk, classes, globals, result, bootVars>>
  BY DEF LoadCoreClass
<1> HIDE DEF n, d
<1> QED BY <1>2, <1>3, <1>4, <1>5, SoundLoadCall

LEMMA SoundResolve ==
  ASSUME SoundInv, NEW n \in UserClass, resolve(n) \/ Load_(n)
  PROVE  SoundInv'
<1> DEFINE d == Caller("resolveEnd", n)
<1>1. n \in ClassNames /\ booted = Len(Toload) + 1
  BY NamesOfClasses DEF resolve, Load_, Booted
<1>2. FrameOk(d) /\ Bottom(d) /\ Above(LoadClassCall(n), d)
  BY <1>1 DEF FrameOk, Bottom, Above, Calls, NamedCall, Caller, LoadClassCall, Starters
<1>3. calls' = <<LoadClassCall(n), d>> \/ calls' = <<LoadClassCall(n)>>
  BY DEF resolve, Load_
<1>4. UNCHANGED <<disk, classes, globals, result, bootVars>>
  BY DEF resolve, Load_
<1> HIDE DEF d
<1> QED BY <1>1, <1>2, <1>3, <1>4, SoundLoadCall

LEMMA SoundGetBlockClassWithArgs ==
  ASSUME SoundInv, NEW n \in BlockClass, GetBlockClassWithArgs(n)
  PROVE  SoundInv'
<1> DEFINE c == LoadClassBasicCall(n, 1, Null)
           d == Caller("GetBlockClassWithArgsEnd", n)
<1>1. n \in ClassNames /\ booted = Len(Toload) + 1
  BY NamesOfClasses DEF GetBlockClassWithArgs, Booted
<1>2. FrameOk(d) /\ Bottom(d)
  BY <1>1 DEF FrameOk, Bottom, Calls, NamedCall, Caller
<1>3. Passed(c)
  BY FilePaths DEF Passed, LoadClassBasicCall, SoundInv, DiskOk
<1>4. FrameOk(c) /\ Above(c, d)
  BY <1>1, <1>3 DEF FrameOk, Above, Calls, BasicCall, Caller, LoadClassBasicCall, Starters
<1>5. calls' = <<c>> \o (<<d>> \o <<>>)
  BY DEF GetBlockClassWithArgs
<1>8. ~Awaits(c)
  BY DEF Awaits, LoadClassBasicCall
<1> HIDE DEF c, d
<1>6. /\ <<d>> \o <<>> \in Seq(Calls) /\ Stack(<<d>> \o <<>>)
      /\ <<d>> \o <<>> # <<>> /\ (<<d>> \o <<>>)[1] = d
  BY <1>2, EmptyStack, StackPush
<1>7. calls' \in Seq(Calls) /\ Stack(calls') /\ calls'[1] = c
  BY <1>4, <1>5, <1>6, StackPush
<1>9. UNCHANGED <<disk, classes, globals, result, bootVars>>
  BY DEF GetBlockClassWithArgs
<1>10. ResultOk'
  BY <1>7, <1>8, <1>9, ResultStays DEF SoundInv
<1> QED BY <1>7, <1>9, <1>10, CallStep

LEMMA SoundCompileClassString ==
  ASSUME SoundInv, NEW f \in Statements, CompileClassString(f)
  PROVE  SoundInv'
<1> DEFINE c == LoadClassCall(f.super)
           d == AssembleCall(f, f.class)
<1>1. f.super \in ClassNames /\ f.class \in ClassNames /\ f.path = 0
  BY NamesOfClasses, FilePaths
<1>2. FrameOk(d) /\ Bottom(d)
  BY <1>1 DEF FrameOk, Bottom, Calls, AssemblyCall, AssembleCall, CompileClassString, Booted
<1>3. FrameOk(c) /\ Above(c, d) /\ ~Awaits(c)
  BY <1>1 DEF FrameOk, Above, Calls, NamedCall, AssembleCall, LoadClassCall, Starters, Awaits
<1>4. calls' = <<c>> \o (<<d>> \o <<>>)
  BY DEF CompileClassString
<1> HIDE DEF c, d
<1>5. /\ <<d>> \o <<>> \in Seq(Calls) /\ Stack(<<d>> \o <<>>)
      /\ <<d>> \o <<>> # <<>> /\ (<<d>> \o <<>>)[1] = d
  BY <1>2, EmptyStack, StackPush
<1>6. calls' \in Seq(Calls) /\ Stack(calls') /\ calls'[1] = c
  BY <1>3, <1>4, <1>5, StackPush
<1>7. /\ UNCHANGED <<disk, classes, result, bootVars>>
      /\ globals' = SetGlobals(f.selectors, Other)
  BY DEF CompileClassString
<1>8. ResultOk'
  BY <1>3, <1>6, <1>7, ResultStays DEF SoundInv
<1>9. Stack(calls)'
  BY <1>6, <1>7, StackStays DEF bootVars
<1>10. GlobalsOk'
  BY <1>7, SelectorsSet DEF SoundInv
<1> QED BY <1>6, <1>7, <1>8, <1>9, <1>10, ClassesStay, BootStays DEF SoundInv

-----------------------------------------------------------------------------
(* The steps of LoadClass and LoadClassBasic.                              *)

LEMMA SoundLoadClassGlobal ==
  ASSUME SoundInv, NewClassReserved, LoadClassGlobal
  PROVE  SoundInv'
<1> DEFINE c == calls[1]
<1>1. calls # <<>> /\ c.fn = "LoadClass" /\ calls' = Tail(calls)
  BY DEF LoadClassGlobal, Running, Returns
<1>2. /\ Tail(calls) \in Seq(Calls) /\ Stack(Tail(calls))
      /\ c \in Calls /\ FrameOk(c)
      /\ Tail(calls) # <<>> => Above(c, calls[2]) /\ Tail(calls)[1] = calls[2]
  BY <1>1, StackTail DEF SoundInv
<1>3. c.name \in ClassNames /\ c.name \in Name \ {"NewClass"}
  BY <1>1, <1>2, NamesOfClasses DEF Calls, NamedCall, BasicCall, AssemblyCall, NewClassReserved
<1>4. /\ UNCHANGED <<disk, classes, globals, bootVars>>
      /\ result' = IF globals[c.name] = Other THEN Null ELSE globals[c.name]
      /\ globals[c.name] # Null
  BY DEF LoadClassGlobal, Returns
<1>5. result' \in {Null} \cup Class
  BY <1>3, <1>4 DEF SoundInv, GlobalsOk
<1>6. result' # Null => SoundAs(disk, classes, result', c.name)
  <2>1. result' # Null => result' = globals[c.name] /\ globals[c.name] \in Class
    BY <1>3, <1>4, <1>5 DEF Null
  <2> QED BY <1>3, <2>1 DEF SoundInv, GlobalsOk
<1>7. calls' # <<>> => Awaited(calls'[1]) = c.name
  BY <1>1, <1>2 DEF Above, Awaited
<1>8. ResultOk'
  BY <1>4, <1>5, <1>6, <1>7 DEF ResultOk, Class
<1> QED BY <1>1, <1>2, <1>4, <1>8, CallStep

LEMMA SoundLoadClass ==
  ASSUME SoundInv, LoadClass
  PROVE  SoundInv'
<1> DEFINE n == calls[1].name
           b == LoadClassBasicCall(n, 1, Null)
           e == LoadClassEndCall(n)
           t == Tail(calls)
<1>1. calls # <<>> /\ calls[1].fn = "LoadClass" /\ calls' = <<b, e>> \o t
  BY DEF LoadClass, Running, Becomes
<1>2. /\ t \in Seq(Calls) /\ Stack(t)
      /\ calls[1] \in Calls /\ FrameOk(calls[1])
      /\ t = <<>> => Bottom(calls[1])
      /\ t # <<>> => Above(calls[1], calls[2]) /\ t[1] = calls[2]
  BY <1>1, StackTail DEF SoundInv
<1>3. n \in ClassNames
  BY <1>1, <1>2 DEF Calls, NamedCall, BasicCall, AssemblyCall
<1>4. FrameOk(e) /\ (t = <<>> => Bottom(e)) /\ (t # <<>> => Above(e, t[1]))
  BY <1>1, <1>2, <1>3 DEF FrameOk, Calls, NamedCall, LoadClassEndCall, Bottom, Above, Starters
<1>5. Passed(b)
  BY FilePaths DEF Passed, LoadClassBasicCall, SoundInv, DiskOk
<1>6. FrameOk(b) /\ Above(b, e) /\ ~Awaits(b)
  BY <1>3, <1>5 DEF FrameOk, Calls, BasicCall, LoadClassBasicCall, LoadClassEndCall, Above,
                    Starters, Awaits
<1>7. b \in Calls /\ e \in Calls
  BY <1>4, <1>6 DEF FrameOk
<1> HIDE DEF b, e, n, t
<1>8. calls' = <<b>> \o (<<e>> \o t)
  <2>1. t \in Seq(Calls) /\ b \in Calls /\ e \in Calls
    BY <1>2, <1>7
  <2>2. <<b, e>> \o t = <<b>> \o (<<e>> \o t)
    BY <2>1, TwoPushed
  <2> QED BY <1>1, <2>2
<1>9. /\ <<e>> \o t \in Seq(Calls) /\ Stack(<<e>> \o t)
      /\ <<e>> \o t # <<>> /\ (<<e>> \o t)[1] = e
  BY <1>2, <1>4, StackPush
<1>10. calls' \in Seq(Calls) /\ Stack(calls') /\ calls'[1] = b
  BY <1>6, <1>8, <1>9, StackPush
<1>11. UNCHANGED <<disk, classes, globals, result, bootVars>>
  BY DEF LoadClass
<1>12. ResultOk'
  BY <1>6, <1>10, <1>11, ResultStays DEF SoundInv
<1> QED BY <1>10, <1>11, <1>12, CallStep

LEMMA SoundLoadClassEnd ==
  ASSUME SoundInv, LoadClassEnd
  PROVE  SoundInv'
<1>1. calls # <<>> /\ calls[1].fn = "LoadClassEnd"
  BY DEF LoadClassEnd, Running
<1>2. /\ Tail(calls) \in Seq(Calls) /\ Stack(Tail(calls))
      /\ Tail(calls) # <<>> => Above(calls[1], calls[2]) /\ Tail(calls)[1] = calls[2]
  BY <1>1, StackTail DEF SoundInv
<1>3. UNCHANGED <<disk, classes, globals, result, bootVars>>
  BY DEF LoadClassEnd, Returns
<1>4. CASE calls' = Tail(calls)
  <2>1. calls' # <<>> => Awaited(calls'[1]) = calls[1].name
    BY <1>1, <1>2, <1>4 DEF Above, Awaited
  <2>2. Awaits(calls[1]) /\ Awaited(calls[1]) = calls[1].name
    BY <1>1 DEF Awaits, Awaited
  <2>3. ResultOk'
    BY <1>1, <1>3, <2>1, <2>2 DEF SoundInv, ResultOk, Class
  <2> QED BY <1>2, <1>3, <1>4, <2>3, CallStep
<1>5. CASE calls' = calls
  BY <1>3, <1>5, CallStep DEF SoundInv, ResultOk, Class
<1> QED BY <1>4, <1>5 DEF LoadClassEnd, Returns

LEMMA SoundLoadClassBasicNext ==
  ASSUME SoundInv, LoadClassBasicNext
  PROVE  SoundInv'
<1> DEFINE c == calls[1]
           b == [c EXCEPT !.path = @ + 1]
           t == Tail(calls)
<1>1. /\ calls # <<>> /\ c.fn = "LoadClassBasic" /\ calls' = <<b>> \o t
      /\ FileAt(c.path, c.name) = NoFile
  BY DEF LoadClassBasicNext, Running, Becomes
<1>2. /\ t \in Seq(Calls) /\ Stack(t)
      /\ c \in Calls /\ FrameOk(c)
      /\ t = <<>> => Bottom(c)
      /\ t # <<>> => Above(c, calls[2]) /\ t[1] = calls[2]
  BY <1>1, StackTail DEF SoundInv
<1>3. c \in BasicCall
  BY <1>1, <1>2 DEF Calls, NamedCall, AssemblyCall, BasicCall
<1>4. /\ b \in BasicCall /\ b.fn = c.fn /\ b.name = c.name /\ b.system = c.system
      /\ b.path = c.path + 1
  BY <1>3 DEF BasicCall
<1>5. Passed(b)
  <2>1. \A f \in disk : ~(f.path = c.path /\ f.file = c.name)
    BY <1>1, <1>3, FileAtFound DEF SoundInv, BasicCall
  <2>2. Passed(c)
    BY <1>1, <1>2 DEF FrameOk
  <2>3. \A f \in disk : f.path \in Nat
    BY FilePaths DEF SoundInv, DiskOk
  <2>4. c.path \in Nat
    BY <1>3 DEF BasicCall
  <2> HIDE DEF b, c
  <2> QED BY <1>4, <2>1, <2>2, <2>3, <2>4 DEF Passed
<1> HIDE DEF b, c, t
<1>6. FrameOk(b) /\ ~Awaits(b)
  BY <1>1, <1>4, <1>5 DEF FrameOk, Calls, Awaits
<1>7. t # <<>> => Above(b, t[1])
  BY <1>1, <1>2, <1>4 DEF Above
<1>8. t # <<>>
  BY <1>1, <1>2 DEF Bottom
<1>9. calls' \in Seq(Calls) /\ Stack(calls') /\ calls'[1] = b
  BY <1>1, <1>2, <1>6, <1>7, <1>8, StackPush
<1>10. UNCHANGED <<disk, classes, globals, result, bootVars>>
  BY DEF LoadClassBasicNext
<1>11. ResultOk'
  BY <1>6, <1>9, <1>10, ResultStays DEF SoundInv
<1> QED BY <1>9, <1>10, <1>11, CallStep

LEMMA SoundLoadClassBasicFails ==
  ASSUME SoundInv, LoadClassBasicFails
  PROVE  SoundInv'
<1>1. calls # <<>> /\ calls' = Tail(calls) /\ result' = Null
  BY DEF LoadClassBasicFails, Running, Returns
<1>2. Tail(calls) \in Seq(Calls) /\ Stack(Tail(calls))
  BY <1>1, StackTail DEF SoundInv
<1>3. UNCHANGED <<disk, classes, globals, bootVars>>
  BY DEF LoadClassBasicFails
<1>4. ResultOk'
  BY <1>1 DEF ResultOk, Null
<1> QED BY <1>1, <1>2, <1>3, <1>4, CallStep

LEMMA SoundCompileClass ==
  ASSUME SoundInv, CompileClass
  PROVE  SoundInv'
<1> DEFINE b == calls[1]
           f == FileAt(b.path, b.name)
           c == LoadClassCall(f.super)
           d == AssembleCall(f, b.name)
<1>1. /\ calls # <<>> /\ b.fn = "LoadClassBasic" /\ b.system = Null /\ f # NoFile
      /\ calls' = <<c, d>> \o calls
      /\ globals' = SetGlobals(f.selectors, Other)
      /\ UNCHANGED <<disk, classes, result, bootVars>>
  BY DEF CompileClass, Running
<1>2. b \in Calls
  BY <1>1, StackTail DEF SoundInv
<1>3. b \in BasicCall
  BY <1>1, <1>2 DEF Calls, NamedCall, AssemblyCall, BasicCall
<1>4. b.path \in Nat /\ b.name \in ClassNames
  BY <1>3 DEF BasicCall
<1>5. f \in disk /\ f.path = b.path /\ f.file = b.name /\ f \in Files
  BY <1>1, <1>4, FileAtFound DEF SoundInv, DiskOk
<1>6. f.super \in ClassNames
  BY <1>5, NamesOfClasses
<1> HIDE DEF f, b
<1>7. FrameOk(d) /\ Above(d, b)
  BY <1>1, <1>4, <1>5 DEF FrameOk, Above, Calls, AssemblyCall, AssembleCall, Starters
<1>8. FrameOk(c) /\ Above(c, d) /\ ~Awaits(c)
  BY <1>6 DEF FrameOk, Above, Calls, NamedCall, AssembleCall, LoadClassCall, Starters, Awaits
<1>9. c \in Calls /\ d \in Calls /\ calls \in Seq(Calls)
  BY <1>7, <1>8 DEF FrameOk, SoundInv
<1> HIDE DEF c, d
<1>10. calls' = <<c>> \o (<<d>> \o calls)
  BY <1>1, <1>9, TwoPushed
<1>11. /\ <<d>> \o calls \in Seq(Calls) /\ Stack(<<d>> \o calls)
       /\ <<d>> \o calls # <<>> /\ (<<d>> \o calls)[1] = d
  BY <1>1, <1>7, <1>9, StackPush DEF SoundInv, b
<1>12. calls' \in Seq(Calls) /\ Stack(calls') /\ calls'[1] = c
  BY <1>8, <1>10, <1>11, StackPush
<1>13. ResultOk'
  BY <1>1, <1>8, <1>12, ResultStays DEF SoundInv
<1>14. Stack(calls)'
  BY <1>1, <1>12, StackStays DEF bootVars
<1>15. GlobalsOk'
  BY <1>1, SelectorsSet DEF SoundInv
<1> QED BY <1>1, <1>12, <1>13, <1>14, <1>15, ClassesStay, BootStays DEF SoundInv

LEMMA SoundCompileSystemClass ==
  ASSUME SoundInv, CompileSystemClass
  PROVE  SoundInv'
<1> DEFINE b == calls[1]
<1>1. /\ calls # <<>> /\ b.fn = "LoadClassBasic" /\ b.system # Null
      /\ calls' = Tail(calls) /\ result' = b.system
      /\ globals' = SetGlobals(FileAt(b.path, b.name).selectors, Other)
      /\ UNCHANGED <<disk, classes, bootVars>>
  BY DEF CompileSystemClass, Running, Returns
<1>2. /\ Tail(calls) \in Seq(Calls) /\ Stack(Tail(calls)) /\ b \in Calls
      /\ Tail(calls) # <<>> => Above(b, calls[2]) /\ Tail(calls)[1] = calls[2]
  BY <1>1, StackTail DEF SoundInv
<1>3. b \in BasicCall
  BY <1>1, <1>2 DEF Calls, NamedCall, AssemblyCall, BasicCall
<1>4. b.system \in Systems
  BY <1>1, <1>3 DEF BasicCall
<1>5. result' \in Class'
  BY <1>1, <1>4, NamesOfClasses DEF SoundInv, ClassesOk, Class, Systems
<1>6. calls' # <<>> => ~Awaits(calls'[1])
  BY <1>1, <1>2 DEF Above, Awaits
<1>7. ResultOk'
  BY <1>5, <1>6 DEF ResultOk, Awaits
<1>8. Stack(calls)'
  BY <1>1, <1>2, StackStays DEF bootVars
<1>9. GlobalsOk'
  BY <1>1, SelectorsSet DEF SoundInv
<1> QED BY <1>1, <1>2, <1>7, <1>8, <1>9, ClassesStay, BootStays DEF SoundInv

\* The class that Assemble makes.
LEMMA AssembledClass ==
  ASSUME SoundInv, Running("Assemble"), result # Null
  PROVE  LET c == calls[1]
             r == NewClassOf(c.file)
         IN /\ calls # <<>> /\ c.fn = "Assemble" /\ c \in AssemblyCall /\ c.file.path \in Nat
            /\ r \in ClassRecord
            /\ r.name = c.file.class /\ r.super = result /\ r.path = c.file.path
            /\ SoundAs(disk, classes, result, c.file.super)
            /\ Tail(calls) = <<>> => c.file.path = 0
            /\ Tail(calls) # <<>> => /\ c.file.path # 0 /\ c.file \in disk
                                     /\ Above(c, calls[2]) /\ Tail(calls)[1] = calls[2]
<1> DEFINE c == calls[1]
           r == NewClassOf(c.file)
<1>1. calls # <<>> /\ c.fn = "Assemble"
  BY DEF Running
<1>2. /\ c \in Calls
      /\ Tail(calls) = <<>> => Bottom(c)
      /\ Tail(calls) # <<>> => Above(c, calls[2]) /\ Tail(calls)[1] = calls[2]
  BY <1>1, StackTail DEF SoundInv
<1>3. c \in AssemblyCall
  BY <1>1, <1>2 DEF Calls, NamedCall, BasicCall, AssemblyCall
<1>4. c.file \in Files \cup Statements
  BY <1>3 DEF AssemblyCall
<1>5. c.file.class \in ClassNames /\ c.file.path \in Nat
  BY <1>4, NamesOfClasses, FilePaths
<1>6. SoundAs(disk, classes, result, c.file.super) /\ result \in Nat
  BY <1>1 DEF SoundInv, ResultOk, Awaits, Awaited, Class, Null
<1>7. /\ r \in ClassRecord
      /\ r.name = c.file.class /\ r.super = result /\ r.path = c.file.path
  BY <1>5, <1>6 DEF NewClassOf, ClassRecord
<1>8. Tail(calls) = <<>> => c.file.path = 0
  BY <1>1, <1>2 DEF Bottom
<1>9. Tail(calls) # <<>> => c.file.path # 0 /\ c.file \in disk
  BY <1>1, <1>2, FilePaths DEF Above, SoundInv, DiskOk
<1> QED BY <1>1, <1>2, <1>3, <1>5, <1>6, <1>7, <1>8, <1>9

\* The stack under an Assemble that LoadClassBasic called.
LEMMA UnderAssemble ==
  ASSUME SoundInv, Running("Assemble"), Tail(calls) # <<>>
  PROVE  LET c == calls[1]
             b == calls[2]
             t == Tail(Tail(calls))
         IN /\ b \in BasicCall /\ b.system = Null /\ b.name = c.name
            /\ b.path = c.file.path /\ c.file.file = b.name /\ c.file \in disk
            /\ Passed(b) /\ Above(c, b)
            /\ t \in Seq(Calls) /\ Stack(t) /\ t # <<>>
            /\ t[1].fn \in {"LoadClassEnd", "GetBlockClassWithArgsEnd"}
            /\ t[1].name = b.name /\ Above(b, t[1])
<1> DEFINE c == calls[1]
           b == calls[2]
           t == Tail(Tail(calls))
<1>1. calls # <<>> /\ c.fn = "Assemble"
  BY DEF Running
<1>2. /\ Tail(calls) \in Seq(Calls) /\ Stack(Tail(calls))
      /\ Above(c, b) /\ Tail(calls)[1] = b
  BY <1>1, StackTail DEF SoundInv
<1>3. /\ b.fn = "LoadClassBasic" /\ b.name = c.name /\ b.system = Null
      /\ c.file \in disk /\ c.file.file = c.name /\ c.file.path = b.path
  BY <1>1, <1>2 DEF Above
<1>4. /\ t \in Seq(Calls) /\ Stack(t) /\ b \in Calls /\ FrameOk(b)
      /\ t = <<>> => Bottom(b)
      /\ t # <<>> => Above(b, t[1])
  <2> DEFINE u == Tail(calls)
  <2>1. u \in Seq(Calls) /\ Stack(u) /\ u # <<>> /\ u[1] = b
    BY <1>2
  <2>2. t = Tail(u)
    OBVIOUS
  <2> HIDE DEF u, b, t
  <2> QED BY <2>1, <2>2, StackTail
<1>5. b \in BasicCall
  BY <1>3, <1>4 DEF Calls, NamedCall, BasicCall, AssemblyCall
<1>6. t # <<>>
  BY <1>3, <1>4 DEF Bottom
<1>7. t[1].fn \in {"LoadClassEnd", "GetBlockClassWithArgsEnd"} /\ t[1].name = b.name
  BY <1>3, <1>4, <1>6 DEF Above
<1>8. Passed(b)
  BY <1>3, <1>4 DEF FrameOk
<1> HIDE DEF b, c, t
<1>9. /\ b \in BasicCall /\ b.system = Null /\ b.name = c.name
      /\ b.path = c.file.path /\ c.file.file = b.name /\ c.file \in disk
      /\ Passed(b) /\ Above(c, b)
      /\ t \in Seq(Calls) /\ Stack(t) /\ t # <<>>
      /\ t[1].fn \in {"LoadClassEnd", "GetBlockClassWithArgsEnd"}
      /\ t[1].name = b.name /\ Above(b, t[1])
  BY <1>2, <1>3, <1>4, <1>5, <1>6, <1>7, <1>8
<1> QED BY <1>9 DEF b, c, t

LEMMA SoundAssemble ==
  ASSUME SoundInv, Assemble
  PROVE  SoundInv'
<1> DEFINE c == calls[1]
           r == NewClassOf(c.file)
           k == Len(classes')
           t == Tail(Tail(calls))
<1>1. /\ Running("Assemble") /\ result # Null
      /\ c.file.class = c.name
      /\ classes' = Append(classes, r)
      /\ globals' = SetGlobals({"NewClass"}, k)
      /\ result' = k
      /\ calls' = IF c.file.path = 0 THEN Tail(calls) ELSE t
      /\ UNCHANGED <<disk, bootVars>>
  BY DEF Assemble
<1>2. /\ r \in ClassRecord
      /\ r.name = c.file.class /\ r.super = result /\ r.path = c.file.path
      /\ SoundAs(disk, classes, result, c.file.super)
      /\ Tail(calls) = <<>> => c.file.path = 0
      /\ Tail(calls) # <<>> => c.file.path # 0 /\ c.file \in disk
  BY <1>1, AssembledClass
<1> HIDE DEF r
<1>3. DiskOk' /\ ClassesOk' /\ GlobalsOk' /\ BootOk'
  BY <1>1, <1>2, ClassMade DEF SoundAs, SoundInv
<1>4. k \in Class'
  BY <1>1, <1>2 DEF SoundInv, ClassesOk, Class
<1>5. CASE Tail(calls) = <<>>
  <2>1. calls' = <<>>
    BY <1>1, <1>2, <1>5
  <2>2. Stack(calls)'
    BY <1>1, <2>1, StackStays, EmptyStack DEF bootVars
  <2>3. ResultOk'
    BY <1>1, <1>4, <2>1 DEF ResultOk
  <2> QED BY <1>3, <2>1, <2>2, <2>3, EmptyStack DEF SoundInv
<1>6. CASE Tail(calls) # <<>>
  <2> DEFINE b == calls[2]
  <2>1. calls' = t
    BY <1>1, <1>2, <1>6
  <2>2. /\ b \in BasicCall /\ b.system = Null /\ b.name = c.name
        /\ b.path = c.file.path /\ c.file.file = b.name /\ c.file \in disk
        /\ Passed(b)
        /\ t \in Seq(Calls) /\ Stack(t) /\ t # <<>>
        /\ t[1].fn \in {"LoadClassEnd", "GetBlockClassWithArgsEnd"}
        /\ t[1].name = b.name
    BY <1>1, <1>6, UnderAssemble
  <2>3. Stack(calls)'
    BY <1>1, <2>1, <2>2, StackStays DEF bootVars
  <2>4. /\ k = Len(classes) + 1 /\ Len(classes) \in Nat /\ classes'[k] = r
        /\ \A j \in 1 .. Len(classes) : classes'[j] = classes[j]
    BY <1>1, <1>2 DEF SoundInv, ClassesOk
  <2>5. result \in 1 .. Len(classes) /\ classes[result].name = c.file.super
    BY <1>2 DEF SoundAs, Sound
  <2> HIDE DEF k, t, b, c
  <2>6. Exact(disk, classes', k)
    <3>1. classes'[k].super \in 1 .. k - 1
      BY <1>2, <2>4, <2>5
    <3>2. classes'[classes'[k].super].name = c.file.super
      BY <1>2, <2>4, <2>5
    <3>3. \A g \in disk : g.file = c.file.file /\ g.class = c.file.file => c.file.path <= g.path
      BY <2>2 DEF Passed
    <3>4. /\ c.file \in disk /\ c.file.file = classes'[k].name
          /\ c.file.class = classes'[k].name /\ c.file.path = classes'[k].path
      BY <1>1, <1>2, <2>2, <2>4
    <3> QED BY <3>1, <3>2, <3>3, <3>4 DEF Exact
  <2>7. SoundAs(disk, classes', k, c.name)
    BY <1>1, <1>2, <1>4, <2>4, <2>6 DEF SoundAs, Sound, Class
  <2>8. Awaited(calls'[1]) = c.name
    BY <2>1, <2>2 DEF Awaited
  <2>9. ResultOk'
    BY <1>1, <1>4, <2>7, <2>8 DEF ResultOk, k
  <2> QED BY <1>3, <2>1, <2>2, <2>3, <2>9 DEF SoundInv
<1> QED BY <1>5, <1>6

LEMMA SoundAssembleMismatch ==
  ASSUME SoundInv, AssembleMismatch
  PROVE  SoundInv'
<1> DEFINE c == calls[1]
           r == NewClassOf(c.file)
           b == calls[2]
           d == [b EXCEPT !.path = @ + 1]
           t == Tail(Tail(calls))
<1>1. /\ Running("Assemble") /\ result # Null
      /\ c.file.class # c.name
      /\ classes' = Append(classes, r)
      /\ globals' = SetGlobals({"NewClass"}, Len(classes'))
      /\ calls' = <<d>> \o t
      /\ UNCHANGED <<disk, result, bootVars>>
  BY DEF AssembleMismatch
<1>2. /\ r \in ClassRecord /\ r.super = result /\ calls # <<>> /\ c.fn = "Assemble"
      /\ SoundAs(disk, classes, result, c.file.super)
  BY <1>1, AssembledClass
<1>3. Tail(calls) # <<>>
  <2>1. Tail(calls) = <<>> => Bottom(c)
    BY <1>2, StackTail DEF SoundInv
  <2> QED BY <1>1, <1>2, <2>1 DEF Bottom
<1>4. /\ b \in BasicCall /\ b.system = Null /\ b.name = c.name
      /\ b.path = c.file.path /\ c.file.file = b.name /\ c.file \in disk
      /\ Passed(b)
      /\ t \in Seq(Calls) /\ Stack(t) /\ t # <<>> /\ Above(b, t[1])
  BY <1>1, <1>3, UnderAssemble
<1> HIDE DEF r
<1>5. DiskOk' /\ ClassesOk' /\ GlobalsOk' /\ BootOk'
  BY <1>1, <1>2, ClassMade DEF SoundAs, SoundInv
<1> HIDE DEF b, c, t
<1>6. /\ d \in BasicCall /\ d.fn = b.fn /\ d.name = b.name /\ d.system = b.system
      /\ d.path = b.path + 1 /\ b.path \in Nat /\ b.fn = "LoadClassBasic"
  BY <1>4 DEF BasicCall
<1> HIDE DEF d
<1>7. Passed(d)
  <2> SUFFICES ASSUME NEW f \in disk, f.file = b.name, f.class = b.name
               PROVE  b.path + 1 <= f.path
    BY <1>6 DEF Passed
  <2>1. b.path <= f.path
    BY <1>4 DEF Passed
  <2>2. f.path # b.path
    BY <1>1, <1>4 DEF SoundInv, DiskOk
  <2>3. f.path \in Nat
    BY FilePaths DEF SoundInv, DiskOk
  <2> QED BY <1>6, <2>1, <2>2, <2>3
<1>8. FrameOk(d) /\ ~Awaits(d) /\ Above(d, t[1])
  BY <1>4, <1>6, <1>7 DEF FrameOk, Calls, Awaits, Above
<1>9. calls' \in Seq(Calls) /\ Stack(calls') /\ calls'[1] = d
  BY <1>1, <1>4, <1>8, StackPush
<1>10. Stack(calls)'
  BY <1>1, <1>9, StackStays DEF bootVars
<1>11. result \in Class'
  BY <1>1, <1>2 DEF SoundAs, Sound, Class, SoundInv, ClassesOk
<1>12. ResultOk'
  BY <1>1, <1>8, <1>9, <1>11 DEF ResultOk, Awaits
<1> QED BY <1>5, <1>9, <1>10, <1>12 DEF SoundInv

-----------------------------------------------------------------------------
(***************************************************************************)
(* Unregistered climbs the superclasses, whose indices decrease.           *)
(***************************************************************************)

\* The order of the natural numbers is contained in a well-founded relation.
LEMMA OrderWellFounded ==
  \E R : IsWellFoundedOn(R, Nat) /\ \A x, y \in Nat : x < y => <<x, y>> \in R
<1>1. \A x, y \in Nat : x < y => <<x, y>> \in OpToRel(<, Nat)
  BY Zenon DEF OpToRel
<1> QED BY <1>1, NatLessThanWellFounded, Zenon

\* A set of natural numbers that is not empty has a least element.
LEMMA Least ==
  ASSUME NEW T, T \subseteq Nat, T # {}
  PROVE  \E x \in T : \A y \in T : x <= y
<1>1. PICK R : IsWellFoundedOn(R, Nat) /\ \A x, y \in Nat : x < y => <<x, y>> \in R
  BY OrderWellFounded, Zenon
<1>2. IsWellFoundedOn(R, Nat)
  BY <1>1, Zenon
<1>3. \E x \in T : \A y \in T : ~ (<<y, x>> \in R)
  BY <1>2, WFMin, Zenon
<1>4. PICK x \in T : \A y \in T : ~ (<<y, x>> \in R)
  BY <1>3, Zenon
<1>5. ASSUME NEW y \in T
      PROVE  x <= y
  <2>1. ~ (y < x)
    BY <1>1, <1>4
  <2> QED BY <2>1
<1>6. QED
  BY <1>5

LEMMA SuperBelow ==
  ASSUME ClassesOk, NEW k \in Class
  PROVE  /\ classes[k].name \in ClassNames /\ classes[k].path \in Nat
         /\ classes[k].super \in Nat /\ classes[k].super < k
         /\ classes[k].super \in 0 .. Len(classes)
<1>1. classes[k] \in ClassRecord /\ Len(classes) \in Nat
  BY DEF ClassesOk, Class
<1>2. classes[k].super < k
  BY DEF ClassesOk
<1>3. /\ classes[k].name \in ClassNames /\ classes[k].path \in Nat
      /\ classes[k].super \in Nat
  BY <1>1 DEF ClassRecord
<1> QED BY <1>1, <1>2, <1>3 DEF Class

\* One step of the climb: from class k, where g gives the rest.
Climb(g, k) ==
  IF k = 0 THEN {}
  ELSE IF globals[classes[k].name] # Null THEN {}
  ELSE {k} \cup g[classes[k].super]

LEMMA ClimbExists ==
  ASSUME ClassesOk
  PROVE  \E g \in [0 .. Len(classes) -> SUBSET Class] :
           \A k \in 0 .. Len(classes) : g[k] = Climb(g, k)
<1> DEFINE C == 0 .. Len(classes)
           V == SUBSET Class
           Upto(g, n) == \A k \in C : k < n => g[k] = Climb(g, k)
           Bad == {n \in Nat : ~ \E g \in [C -> V] : Upto(g, n)}
<1>0. Len(classes) \in Nat
  BY DEF ClassesOk
<1>1. Bad = {}
  <2> SUFFICES ASSUME Bad # {}
               PROVE  FALSE
    OBVIOUS
  <2>1. PICK n \in Bad : \A y \in Bad : n <= y
    <3>1. Bad \subseteq Nat
      OBVIOUS
    <3> HIDE DEF Bad
    <3> QED BY <3>1, Least
  <2>2. n # 0
    <3>1. [k \in C |-> {}] \in [C -> V] /\ Upto([k \in C |-> {}], 0)
      BY <1>0
    <3> QED BY <3>1
  <2>3. n \in Nat /\ n - 1 \in Nat /\ n - 1 \notin Bad
    BY <2>1, <2>2
  <2>4. PICK g \in [C -> V] : Upto(g, n - 1)
    BY <2>3
  <2> DEFINE f == [k \in C |-> IF k = n - 1 THEN Climb(g, k) ELSE g[k]]
  <2>5. ASSUME NEW k \in C
        PROVE  /\ Climb(g, k) \in V
               /\ k # 0 => classes[k].super \in C /\ classes[k].super < k
    <3>1. k # 0 => k \in Class
      BY <1>0 DEF Class
    <3>2. k # 0 => classes[k].super \in C /\ classes[k].super < k
      BY <1>0, <3>1, SuperBelow DEF Class
    <3>3. k # 0 => g[classes[k].super] \in V
      BY <2>4, <3>2
    <3> QED BY <3>1, <3>2, <3>3 DEF Climb
  <2>6. f \in [C -> V]
    BY <2>4, <2>5
  <2>7. ASSUME NEW k \in C, k < n
        PROVE  f[k] = Climb(f, k)
    <3>1. f[k] = Climb(g, k)
      BY <2>3, <2>4, <2>7
    <3>2. k # 0 => f[classes[k].super] = g[classes[k].super]
      BY <1>0, <2>3, <2>5, <2>7
    <3> HIDE DEF f
    <3> QED BY <3>1, <3>2 DEF Climb
  <2> HIDE DEF f
  <2> QED BY <2>1, <2>6, <2>7
<1>2. PICK g \in [C -> V] : Upto(g, Len(classes) + 1)
  BY <1>0, <1>1
<1>3. \A k \in C : k < Len(classes) + 1
  BY <1>0
<1> QED BY <1>2, <1>3

LEMMA UnregisteredClimbs ==
  ASSUME ClassesOk
  PROVE  \E up : /\ \A k \in 0 .. Len(classes) : up[k] = Climb(up, k)
                 /\ \A c : Unregistered(c) = up[c]
<1> DEFINE C == 0 .. Len(classes)
           up == CHOOSE g : g = [k \in C |->
                   IF k = 0 THEN {}
                   ELSE IF globals[classes[k].name] # Null THEN {}
                   ELSE {k} \cup g[classes[k].super]]
<1>1. PICK f \in [C -> SUBSET Class] : \A k \in C : f[k] = Climb(f, k)
  BY ClimbExists
<1>2. f = [k \in C |-> IF k = 0 THEN {}
                       ELSE IF globals[classes[k].name] # Null THEN {}
                       ELSE {k} \cup f[classes[k].super]]
  <2>1. f = [k \in C |-> f[k]]
    OBVIOUS
  <2> QED BY <1>1, <2>1, Zenon DEF Climb
<1>3. up = [k \in C |-> IF k = 0 THEN {}
                        ELSE IF globals[classes[k].name] # Null THEN {}
                        ELSE {k} \cup up[classes[k].super]]
  BY <1>2, Zenon
<1>4. \A c : Unregistered(c) = up[c]
  BY Zenon DEF Unregistered
<1> HIDE DEF up
<1>5. ASSUME NEW k \in C
      PROVE  up[k] = Climb(up, k)
  BY <1>3, Zenon DEF Climb
<1> QED BY <1>4, <1>5

(* What Unregistered finds: a set of unregistered classes below one that   *)
(* is registered, which a set closed under superclasses holds, in the      *)
(* order of the climb.                                                     *)
LEMMA UnregisteredIs ==
  ASSUME ClassesOk, NEW c \in 0 .. Len(classes)
  PROVE  LET U == Unregistered(c)
         IN /\ c = 0 => U = {}
            /\ U \subseteq Class
            /\ \A k \in U : globals[classes[k].name] = Null
            /\ \A k \in U : \/ classes[k].super = 0
                            \/ classes[k].super \in U
                            \/ globals[classes[classes[k].super].name] # Null
            /\ \A S : /\ c \in S
                      /\ \A k \in S : k # 0 /\ classes[k].super # 0 => classes[k].super \in S
                      => U \subseteq S
            /\ \A i, j \in U : i < j => classes[j].super \in U /\ i <= classes[j].super
<1>1. PICK up : /\ \A k \in 0 .. Len(classes) : up[k] = Climb(up, k)
                /\ \A k : Unregistered(k) = up[k]
  BY UnregisteredClimbs, Zenon
<1> DEFINE Closed(S) == \A k \in S : k # 0 /\ classes[k].super # 0 => classes[k].super \in S
           Good(m) ==
            /\ m = 0 => up[m] = {}
            /\ up[m] \subseteq 1 .. m
            /\ up[m] # {} => m \in up[m]
            /\ \A k \in up[m] : globals[classes[k].name] = Null
            /\ \A k \in up[m] : \/ classes[k].super = 0
                                \/ classes[k].super \in up[m]
                                \/ globals[classes[classes[k].super].name] # Null
            /\ \A S : m \in S /\ Closed(S) => up[m] \subseteq S
            /\ \A i, j \in up[m] : i < j => classes[j].super \in up[m] /\ i <= classes[j].super
           Bad == {m \in 0 .. Len(classes) : ~Good(m)}
<1>0. Len(classes) \in Nat
  BY DEF ClassesOk
<1>2. ASSUME NEW m \in 0 .. Len(classes),
             \A l \in 0 .. Len(classes) : l < m => Good(l)
      PROVE  Good(m)
  <2>1. CASE up[m] = {}
    BY <2>1
  <2>2. CASE up[m] # {}
    <3> DEFINE l == classes[m].super
    <3>1. /\ m # 0 /\ globals[classes[m].name] = Null
          /\ up[m] = {m} \cup up[l]
      BY <1>1, <2>2 DEF Climb
    <3>2. l \in 0 .. Len(classes) /\ l < m /\ m \in Class
      BY <1>0, <3>1, SuperBelow DEF Class
    <3>3. Good(l)
      BY <1>2, <3>2
    <3> HIDE DEF l
    <3>4. up[m] \subseteq 1 .. m /\ m \in up[m]
      BY <3>1, <3>2, <3>3
    <3>5. \A k \in up[m] : globals[classes[k].name] = Null
      BY <3>1, <3>3
    <3>6. up[l] = {} => l = 0 \/ globals[classes[l].name] # Null
      BY <1>1, <3>2 DEF Climb
    <3>7. ASSUME NEW k \in up[m]
          PROVE  \/ classes[k].super = 0
                 \/ classes[k].super \in up[m]
                 \/ globals[classes[classes[k].super].name] # Null
      <4>1. CASE k = m
        BY <3>1, <3>3, <3>6, <4>1 DEF l
      <4>2. CASE k \in up[l]
        BY <3>1, <3>3, <4>2
      <4> QED BY <3>1, <4>1, <4>2
    <3>8. ASSUME NEW S, m \in S, Closed(S)
          PROVE  up[m] \subseteq S
      <4>1. CASE l = 0
        BY <3>1, <3>3, <3>8, <4>1
      <4>2. CASE l # 0
        <5>1. l \in S
          BY <3>1, <3>8, <4>2 DEF l
        <5> QED BY <3>1, <3>3, <3>8, <5>1
      <4> QED BY <4>1, <4>2
    <3>9. ASSUME NEW i \in up[m], NEW j \in up[m], i < j
          PROVE  classes[j].super \in up[m] /\ i <= classes[j].super
      <4>1. i \in up[l] /\ i \in 1 .. l /\ l \in up[l]
        BY <3>1, <3>2, <3>3, <3>4, <3>9
      <4>2. CASE j = m
        BY <3>1, <4>1, <4>2 DEF l
      <4>3. CASE j \in up[l]
        BY <3>1, <3>3, <3>9, <4>1, <4>3
      <4> QED BY <3>1, <4>2, <4>3
    <3> QED BY <3>1, <3>4, <3>5, <3>7, <3>8, <3>9
  <2> QED BY <2>1, <2>2
<1> HIDE DEF Good
<1>3. Bad = {}
  <2> SUFFICES ASSUME Bad # {}
               PROVE  FALSE
    OBVIOUS
  <2>1. Bad \subseteq Nat
    BY <1>0
  <2>2. PICK m \in Bad : \A y \in Bad : m <= y
    <3> HIDE DEF Bad
    <3> QED BY <2>1, Least
  <2>3. \A l \in 0 .. Len(classes) : l < m => Good(l)
    BY <1>0, <2>2
  <2> QED BY <1>2, <2>2, <2>3
<1>4. Good(c)
  BY <1>3
<1>5. Unregistered(c) = up[c] /\ 1 .. c \subseteq Class
  BY <1>0, <1>1 DEF Class
<1> QED BY <1>4, <1>5 DEF Good

-----------------------------------------------------------------------------
(* The steps that end a load.                                              *)

\* The callers from which loading starts are called by nobody.
LEMMA StarterAlone ==
  ASSUME SoundInv, NEW fn \in Starters, Running(fn)
  PROVE  /\ calls # <<>> /\ calls[1].fn = fn /\ calls[1] \in NamedCall
         /\ Tail(calls) = <<>> /\ FrameOk(calls[1]) /\ Bottom(calls[1])
<1>1. calls # <<>> /\ calls[1].fn = fn
  BY DEF Running
<1>2. /\ calls[1] \in Calls /\ FrameOk(calls[1])
      /\ Tail(calls) = <<>> => Bottom(calls[1])
      /\ Tail(calls) # <<>> => Above(calls[1], calls[2])
  BY <1>1, StackTail DEF SoundInv
<1>3. Tail(calls) = <<>>
  BY <1>1, <1>2 DEF Above
<1>4. calls[1] \in NamedCall
  BY <1>1, <1>2 DEF Calls, NamedCall, BasicCall, AssemblyCall, Starters
<1> QED BY <1>1, <1>2, <1>3, <1>4

\* A step after which nobody waits.
LEMMA EmptyStep ==
  ASSUME SoundInv, UNCHANGED <<disk, classes, result>>, calls' = <<>>, GlobalsOk', BootOk'
  PROVE  SoundInv'
<1>1. calls' \in Seq(Calls) /\ Stack(calls)'
  BY EmptyStack DEF Stack
<1>2. ResultOk'
  BY DEF SoundInv, ResultOk, Class
<1> QED BY <1>1, <1>2, ClassesStay DEF SoundInv

LEMMA SoundLoadSystemClassEnd ==
  ASSUME SoundInv, LoadSystemClassEnd
  PROVE  SoundInv'
<1>1. /\ Tail(calls) = <<>> /\ Bottom(calls[1]) /\ calls[1].fn = "LoadSystemClassEnd"
  BY StarterAlone DEF LoadSystemClassEnd, Starters
<1>2. booted < Len(SystemClass)
  BY <1>1 DEF Bottom
<1>3. /\ calls' = <<>> /\ booted' = booted + 1
      /\ UNCHANGED <<disk, globals, classes, result, core>>
  BY <1>1 DEF LoadSystemClassEnd
<1>4. BootOk'
  <2>1. booted \in Nat /\ core = <<>> /\ booted <= Len(Toload) /\ Len(core) = 0
    BY <1>2, NamesOfClasses DEF SoundInv, BootOk
  <2>2. booted' \in 0 .. Len(Toload) + 1 /\ booted' <= Len(SystemClass)
    BY <1>2, <1>3, <2>1, NamesOfClasses
  <2>3. booted' \in Len(SystemClass) .. Len(Toload) => Len(core) = booted' - Len(SystemClass)
    BY <2>1, <2>2, NamesOfClasses
  <2> QED BY <1>3, <2>1, <2>2, <2>3 DEF SoundInv, BootOk, Class
<1>5. GlobalsOk'
  BY <1>3, GlobalsStay DEF SoundInv
<1> QED BY <1>3, <1>4, <1>5, EmptyStep

\* The core class that was loaded, and its place in `core'.
LEMMA CoreLoaded ==
  ASSUME SoundInv, LoadCoreClassEnd
  PROVE  LET i == Len(core) + 1
         IN /\ calls # <<>> /\ calls[1].fn = "LoadCoreClassEnd"
            /\ i \in DOMAIN CoreClass /\ calls[1].name = CoreClass[i]
            /\ result # Null => SoundAs(disk, classes, result, CoreClass[i])
            /\ booted \in Nat /\ booted < Len(Toload) /\ booted >= Len(SystemClass)
            /\ Len(core) = booted - Len(SystemClass)
            /\ calls' = <<>> /\ booted' = booted + 1 /\ core' = Append(core, result)
            /\ UNCHANGED <<disk, globals, classes, result>>
<1> DEFINE i == Len(core) + 1
<1>1. /\ calls # <<>> /\ calls[1].fn = "LoadCoreClassEnd"
      /\ Tail(calls) = <<>> /\ Bottom(calls[1])
  BY StarterAlone DEF LoadCoreClassEnd, Starters
<1>2. /\ booted \in Nat /\ booted < Len(Toload) /\ booted >= Len(SystemClass)
      /\ Len(core) = booted - Len(SystemClass)
      /\ calls[1].name = Toload[booted + 1]
  BY <1>1, NamesOfClasses DEF Bottom, SoundInv, BootOk
<1>3. i \in DOMAIN CoreClass
  <2>1. DOMAIN CoreClass = 1 .. Len(CoreClass)
    BY LoaderAssumption
  <2> QED BY <1>2, <2>1, NamesOfClasses
<1>4. calls[1].name = CoreClass[i]
  <2>1. Toload[Len(SystemClass) + i] = CoreClass[i]
    BY <1>3, NamesOfClasses
  <2>2. Len(SystemClass) + i = booted + 1
    BY <1>2, NamesOfClasses
  <2> QED BY <1>2, <2>1, <2>2
<1>5. result # Null => SoundAs(disk, classes, result, calls[1].name)
  BY <1>1 DEF SoundInv, ResultOk, Awaits, Awaited
<1> HIDE DEF i
<1>6. /\ calls' = <<>> /\ booted' = booted + 1 /\ core' = Append(core, result)
      /\ UNCHANGED <<disk, globals, classes, result>>
  BY <1>1 DEF LoadCoreClassEnd
<1>7. /\ i \in DOMAIN CoreClass /\ calls[1].name = CoreClass[i]
      /\ result # Null => SoundAs(disk, classes, result, CoreClass[i])
  BY <1>3, <1>4, <1>5
<1> QED BY <1>1, <1>2, <1>6, <1>7 DEF i

LEMMA SoundLoadCoreClassEnd ==
  ASSUME SoundInv, LoadCoreClassEnd
  PROVE  SoundInv'
<1> DEFINE i == Len(core) + 1
<1>1. /\ i \in DOMAIN CoreClass
      /\ result # Null => SoundAs(disk, classes, result, CoreClass[i])
      /\ booted \in Nat /\ booted < Len(Toload) /\ booted >= Len(SystemClass)
      /\ Len(core) = booted - Len(SystemClass)
      /\ calls' = <<>> /\ booted' = booted + 1 /\ core' = Append(core, result)
      /\ UNCHANGED <<disk, globals, classes, result>>
  BY CoreLoaded
<1>2. core \in Seq({Null} \cup Class) /\ result \in {Null} \cup Class
  BY DEF SoundInv, BootOk, ResultOk
<1>3. /\ core' \in Seq({Null} \cup Class) /\ Len(core') = i
      /\ DOMAIN core' = 1 .. i /\ DOMAIN core = 1 .. Len(core) /\ Len(core) \in Nat
      /\ \A j \in 1 .. Len(core) : core'[j] = core[j]
      /\ core'[i] = result
  BY <1>1, <1>2
<1>4. ASSUME NEW j \in DOMAIN core'
      PROVE  /\ j \in DOMAIN CoreClass
             /\ core'[j] # Null => SoundAs(disk, classes, core'[j], CoreClass[j])
  <2>1. CASE j = i
    BY <1>1, <1>3, <2>1
  <2>2. CASE j \in DOMAIN core
    BY <1>3, <2>2 DEF SoundInv, BootOk
  <2> QED BY <1>3, <2>1, <2>2
<1>5. BootOk'
  <2>1. booted' \in 0 .. Len(Toload) + 1 /\ ~(booted' <= Len(SystemClass))
    BY <1>1, NamesOfClasses
  <2>2. Len(core') = booted' - Len(SystemClass)
    BY <1>1, <1>3, NamesOfClasses
  <2> QED BY <1>1, <1>3, <1>4, <2>1, <2>2 DEF BootOk, Class
<1>6. GlobalsOk'
  BY <1>1, GlobalsStay DEF SoundInv
<1> QED BY <1>1, <1>5, <1>6, EmptyStep

\* What initialize puts under a name.
LEMMA InitializeGlobals ==
  ASSUME SoundInv, initialize, NEW n \in Name
  PROVE  \/ n = "Frame" /\ globals'[n] = Other
         \/ /\ n # "Frame"
            /\ \E i \in DOMAIN CoreClass : /\ CoreClass[i] = n /\ i \in DOMAIN core
                                           /\ globals'[n] = core[i]
         \/ /\ n # "Frame"
            /\ \A i \in DOMAIN CoreClass : CoreClass[i] # n
            /\ globals'[n] = globals[n]
<1>1. globals'[n] = IF n = "Frame" THEN Other
                    ELSE IF \E i \in DOMAIN CoreClass : CoreClass[i] = n
                    THEN core[CHOOSE i \in DOMAIN CoreClass : CoreClass[i] = n]
                    ELSE globals[n]
  BY DEF initialize
<1>2. CASE n # "Frame" /\ \E i \in DOMAIN CoreClass : CoreClass[i] = n
  <2> DEFINE i == CHOOSE i \in DOMAIN CoreClass : CoreClass[i] = n
  <2>1. i \in DOMAIN CoreClass /\ CoreClass[i] = n
    BY <1>2, Zenon
  <2>2. DOMAIN core = DOMAIN CoreClass
    <3>1. Len(core) = Len(CoreClass)
      BY NamesOfClasses DEF initialize, SoundInv, BootOk
    <3>2. DOMAIN CoreClass = 1 .. Len(CoreClass)
      BY LoaderAssumption
    <3>3. DOMAIN core = 1 .. Len(core)
      BY DEF SoundInv, BootOk
    <3> QED BY <3>1, <3>2, <3>3
  <2>3. globals'[n] = core[i]
    BY <1>1, <1>2
  <2> HIDE DEF i
  <2> QED BY <1>2, <2>1, <2>2, <2>3
<1>3. CASE ~(n # "Frame" /\ \E i \in DOMAIN CoreClass : CoreClass[i] = n)
  BY <1>1, <1>3
<1> QED BY <1>2, <1>3

LEMMA SoundInitialize ==
  ASSUME SoundInv, initialize
  PROVE  SoundInv'
<1>1. /\ calls' = <<>> /\ booted = Len(Toload) /\ booted' = booted + 1
      /\ UNCHANGED <<disk, classes, result, core>>
  BY DEF initialize
<1>2. BootOk'
  <2>1. booted' \in 0 .. Len(Toload) + 1 /\ ~(booted' <= Len(SystemClass))
        /\ booted' \notin Len(SystemClass) .. Len(Toload)
    BY <1>1, NamesOfClasses
  <2> QED BY <1>1, <2>1 DEF SoundInv, BootOk, Class
<1>3. Other \notin Class /\ Null \notin Class
  BY DEF Other, Null, Class
<1> DEFINE Kept(n) == /\ globals'[n] \in {Null, Other} \cup Class
                      /\ n # "NewClass" /\ globals'[n] \in Class =>
                           SoundAs(disk, classes, globals'[n], n)
<1>4. ASSUME NEW n \in Name
      PROVE  Kept(n)
  <2>1. CASE globals'[n] = Other
    BY <1>3, <2>1
  <2>2. ASSUME NEW i \in DOMAIN CoreClass, CoreClass[i] = n, i \in DOMAIN core,
               globals'[n] = core[i]
        PROVE  Kept(n)
    BY <1>3, <2>2 DEF SoundInv, BootOk
  <2>3. CASE globals'[n] = globals[n]
    BY <2>3 DEF SoundInv, GlobalsOk
  <2> QED BY <2>1, <2>2, <2>3, InitializeGlobals
<1>5. GlobalsOk'
  <2>1. globals' = [n \in Name |-> globals'[n]]
    BY DEF initialize
  <2>2. globals' \in [Name -> {Null, Other} \cup Class]
    BY <1>4, <2>1
  <2> QED BY <1>1, <1>4, <2>2 DEF GlobalsOk, Class
<1> QED BY <1>1, <1>2, <1>5, EmptyStep

LEMMA SoundGetBlockClassWithArgsEnd ==
  ASSUME SoundInv, GetBlockClassWithArgsEnd
  PROVE  SoundInv'
<1> DEFINE n == calls[1].name
<1>1. /\ calls # <<>> /\ calls[1].fn = "GetBlockClassWithArgsEnd" /\ Tail(calls) = <<>>
  BY StarterAlone DEF GetBlockClassWithArgsEnd, Starters
<1>2. /\ calls' = <<>> /\ UNCHANGED <<disk, classes, result, bootVars>>
      /\ globals' = IF result = Null THEN globals ELSE SetGlobals({n}, result)
  BY <1>1 DEF GetBlockClassWithArgsEnd
<1>3. result # Null => SoundAs(disk, classes, result, n)
  BY <1>1 DEF SoundInv, ResultOk, Awaits, Awaited
<1>4. CASE result = Null
  BY <1>2, <1>4, GlobalsStay, BootStays, EmptyStep DEF SoundInv
<1>5. CASE result # Null
  <2>1. result \in Class
    BY <1>3, <1>5 DEF SoundAs, Sound, Class
  <2>2. globals' \in [Name -> {Null, Other} \cup Class]
    BY <1>2, <1>5, <2>1 DEF SetGlobals, SoundInv, GlobalsOk
  <2>3. ASSUME NEW m \in Name \ {"NewClass"}, globals'[m] \in Class
        PROVE  SoundAs(disk, classes, globals'[m], m)
    BY <1>2, <1>3, <1>5, <2>3 DEF SetGlobals, SoundInv, GlobalsOk
  <2>4. GlobalsOk'
    BY <1>2, <2>2, <2>3 DEF GlobalsOk, Class
  <2> QED BY <1>2, <2>4, BootStays, EmptyStep DEF SoundInv
<1> QED BY <1>4, <1>5

\* What resolve: puts under a name.
LEMMA ResolvedGlobals ==
  ASSUME SoundInv, resolveEnd, NEW n \in Name
  PROVE  \/ \E k \in Unregistered(result) : classes[k].name = n /\ globals'[n] = k
         \/ /\ \A k \in Unregistered(result) : classes[k].name # n
            /\ globals'[n] = globals[n]
<1> DEFINE new == Unregistered(result)
<1>1. globals'[n] = IF \E k \in new : classes[k].name = n
                    THEN CHOOSE k \in new : classes[k].name = n
                    ELSE globals[n]
  BY DEF resolveEnd
<1> HIDE DEF new
<1>2. CASE \E k \in new : classes[k].name = n
  <2> DEFINE k == CHOOSE k \in new : classes[k].name = n
  <2>1. k \in new /\ classes[k].name = n
    BY <1>2, Zenon
  <2>2. globals'[n] = k
    BY <1>1, <1>2
  <2> HIDE DEF k
  <2> QED BY <2>1, <2>2 DEF new
<1>3. CASE ~ \E k \in new : classes[k].name = n
  BY <1>1, <1>3 DEF new
<1> QED BY <1>2, <1>3

LEMMA SoundResolveEnd ==
  ASSUME SoundInv, resolveEnd
  PROVE  SoundInv'
<1> DEFINE new == Unregistered(result)
<1>1. /\ calls # <<>> /\ calls[1].fn = "resolveEnd" /\ Tail(calls) = <<>>
  BY StarterAlone DEF resolveEnd, Starters
<1>2. calls' = <<>> /\ UNCHANGED <<disk, classes, result, bootVars>>
  BY <1>1 DEF resolveEnd
<1>3. /\ result \in 0 .. Len(classes)
      /\ result # Null => Sound(disk, classes, result)
  BY <1>1 DEF SoundInv, ResultOk, Awaits, SoundAs, Class, Null, ClassesOk
<1>4. \A k \in new : k \in Class /\ Sound(disk, classes, k)
  <2> DEFINE S == {k \in 1 .. Len(classes) : Sound(disk, classes, k)}
  <2>0. ClassesOk
    BY DEF SoundInv
  <2>1. CASE result = Null
    <3>1. new = {}
      BY <1>3, <2>0, <2>1, UnregisteredIs DEF Null
    <3> QED BY <3>1
  <2>2. CASE result # Null
    <3>1. result \in S
      BY <1>3, <2>2 DEF Sound
    <3>2. \A k \in S : k # 0 /\ classes[k].super # 0 => classes[k].super \in S
      BY <2>0 DEF ClassesOk, Sound, Class
    <3> HIDE DEF S
    <3>3. new \subseteq S /\ new \subseteq Class
      BY <1>3, <2>0, <3>1, <3>2, UnregisteredIs
    <3> QED BY <3>3 DEF S
  <2> QED BY <2>1, <2>2
<1> HIDE DEF new
<1> DEFINE Kept(n) == /\ globals'[n] \in {Null, Other} \cup Class
                      /\ n # "NewClass" /\ globals'[n] \in Class =>
                           SoundAs(disk, classes, globals'[n], n)
<1>5. ASSUME NEW n \in Name
      PROVE  Kept(n)
  <2>1. \/ \E k \in new : classes[k].name = n /\ globals'[n] = k
        \/ globals'[n] = globals[n]
    BY ResolvedGlobals DEF new
  <2>2. ASSUME NEW k \in new, classes[k].name = n, globals'[n] = k
        PROVE  Kept(n)
    BY <1>4, <2>2 DEF SoundAs
  <2>3. CASE globals'[n] = globals[n]
    BY <2>3 DEF SoundInv, GlobalsOk
  <2> QED BY <2>1, <2>2, <2>3
<1>6. GlobalsOk'
  <2>1. globals' = [n \in Name |-> globals'[n]]
    BY DEF resolveEnd
  <2>2. globals' \in [Name -> {Null, Other} \cup Class]
    BY <1>5, <2>1
  <2> QED BY <1>2, <1>5, <2>2 DEF GlobalsOk, Class
<1> QED BY <1>2, <1>6, BootStays, EmptyStep DEF SoundInv

-----------------------------------------------------------------------------
(* SoundInv holds at the start and every step keeps it.                    *)

LEMMA SoundInit ==
  ASSUME Init
  PROVE  SoundInv
<1>1. DiskOk
  BY DEF Init, DiskOk
<1>2. /\ Len(classes) = Len(SystemClass) /\ Len(SystemClass) \in Nat
      /\ classes \in Seq(ClassRecord)
      /\ \A k \in Systems : /\ classes[k].name = SystemClass[k]
                            /\ classes[k].super = SystemSuper[k]
                            /\ classes[k].path = 0
      /\ \A k \in Systems : SystemSuper[k] \in 0 .. k - 1
  <2>1. Len(SystemClass) \in Nat /\ \A k \in Systems : SystemSuper[k] \in 0 .. k - 1
    BY LoaderAssumption DEF Systems
  <2>2. classes = [i \in Systems |-> [name |-> SystemClass[i], super |-> SystemSuper[i],
                                      path |-> 0]]
    BY DEF Init, Systems
  <2>3. \A i \in Systems : [name |-> SystemClass[i], super |-> SystemSuper[i],
                            path |-> 0] \in ClassRecord
    <3> TAKE i \in Systems
    <3>1. SystemSuper[i] \in Nat
      BY <2>1 DEF Systems
    <3> QED BY <3>1, NamesOfClasses DEF ClassRecord
  <2>4. classes \in [1 .. Len(SystemClass) -> ClassRecord]
    BY <2>2, <2>3 DEF Systems
  <2>5. classes \in Seq(ClassRecord) /\ Len(classes) = Len(SystemClass)
    BY <2>1, <2>4
  <2> QED BY <2>1, <2>2, <2>5
<1>3. ClassesOk
  <2>1. ASSUME NEW k \in Class
        PROVE  /\ classes[k].super < k
               /\ classes[k].super # 0 => Sound(disk, classes, classes[k].super)
    <3>1. k \in Systems /\ classes[k].super \in 0 .. k - 1
      BY <1>2 DEF Class, Systems
    <3> QED BY <1>2, <3>1 DEF Sound, Systems
  <2> QED BY <1>2, <2>1 DEF ClassesOk
<1>4. GlobalsOk
  <2> DEFINE Is(n, i) == SystemClass[i] = n
             g(n) == CHOOSE i \in DOMAIN SystemClass : Is(n, i)
  <2>1. globals = [n \in Name |-> IF \E i \in DOMAIN SystemClass : Is(n, i) THEN g(n)
                                  ELSE Null]
    BY DEF Init
  <2>2. DOMAIN SystemClass = Systems
    BY LoaderAssumption DEF Systems
  <2>3. ASSUME NEW n \in Name, \E i \in DOMAIN SystemClass : Is(n, i)
        PROVE  g(n) \in Systems /\ SystemClass[g(n)] = n
    <3>1. g(n) \in DOMAIN SystemClass /\ Is(n, g(n))
      BY <2>3, Zenon
    <3> QED BY <2>2, <3>1
  <2> HIDE DEF g, Is
  <2>4. Systems = Class /\ Null \notin Class
    BY <1>2 DEF Systems, Class, Null
  <2>5. globals \in [Name -> {Null, Other} \cup Class]
    BY <2>1, <2>3, <2>4
  <2>6. ASSUME NEW n \in Name, globals[n] \in Class
        PROVE  SoundAs(disk, classes, globals[n], n)
    <3>1. globals[n] \in Systems /\ SystemClass[globals[n]] = n
      BY <2>1, <2>3, <2>4, <2>6
    <3> QED BY <1>2, <3>1 DEF SoundAs, Sound, Systems
  <2> QED BY <2>5, <2>6 DEF GlobalsOk
<1>5. calls = <<>> /\ result = Null /\ booted = 0 /\ core = <<>>
  BY DEF Init
<1>6. ResultOk
  BY <1>5 DEF ResultOk
<1>7. BootOk
  BY <1>2, <1>5, NamesOfClasses DEF BootOk
<1> QED BY <1>1, <1>3, <1>4, <1>5, <1>6, <1>7, EmptyStack DEF SoundInv

LEMMA SoundInvKept ==
  ASSUME SoundInv, NewClassReserved, [Next]_vars
  PROVE  SoundInv'
<1>1. CASE UNCHANGED <<disk, globals, classes, calls, result, bootVars>>
  BY <1>1, CallStep DEF SoundInv, ResultOk, Class
<1>2. CASE Done \/ UNCHANGED vars \/ Overflow \/ AssembleCrash
  BY <1>1, <1>2 DEF Done, vars, Overflow, AssembleCrash, bootVars
<1>3. CASE LoadSystemClass \/ LoadSystemClassEnd \/ LoadCoreClass \/ LoadCoreClassEnd
             \/ initialize
  BY <1>3, SoundLoadSystemClass, SoundLoadSystemClassEnd, SoundLoadCoreClass,
     SoundLoadCoreClassEnd, SoundInitialize
<1>4. CASE \/ \E n \in UserClass : resolve(n) \/ Load_(n)
           \/ \E n \in BlockClass : GetBlockClassWithArgs(n)
           \/ \E f \in Statements : CompileClassString(f)
           \/ GetBlockClassWithArgsEnd \/ resolveEnd
  BY <1>4, SoundResolve, SoundGetBlockClassWithArgs, SoundCompileClassString,
     SoundGetBlockClassWithArgsEnd, SoundResolveEnd
<1>5. CASE LoadClassGlobal \/ LoadClass \/ LoadClassEnd \/ LoadClassBasicNext
             \/ LoadClassBasicFails
  BY <1>5, SoundLoadClassGlobal, SoundLoadClass, SoundLoadClassEnd,
     SoundLoadClassBasicNext, SoundLoadClassBasicFails
<1>6. CASE CompileClass \/ CompileSystemClass \/ Assemble \/ AssembleMismatch
  BY <1>6, SoundCompileClass, SoundCompileSystemClass, SoundAssemble,
     SoundAssembleMismatch
<1> QED BY <1>2, <1>3, <1>4, <1>5, <1>6 DEF Next

(* Whatever files lie on however long a class path, misnamed, doubled or   *)
(* inheriting in a circle, a class that a global names was compiled from   *)
(* the first file of its name that defines it: neither the nested loads of *)
(* superclasses between the search and Assemble nor a file passed over for *)
(* its wrong name lets a later file win.  No class may be called NewClass, *)
(* the global under which Universe::NewClass keeps the last class made,    *)
(* also the one of a misnamed file that CompileClass then throws away.     *)
THEOREM FirstFileWins ==
  ASSUME NewClassReserved
  PROVE  Spec => []FirstOnPath
<1>1. Init => SoundInv
  BY SoundInit
<1>2. SoundInv /\ [Next]_vars => SoundInv'
  BY SoundInvKept
<1>3. SoundInv => FirstOnPath
  <2> SUFFICES ASSUME SoundInv, NEW c \in Class, NEW f \in disk,
                      classes[c].path # 0, Registered(c),
                      f.file = classes[c].name, f.class = f.file
               PROVE  classes[c].path <= f.path
    BY DEF FirstOnPath
  <2>1. classes[c].name \in Name \ {"NewClass"}
    BY SuperBelow, NamesOfClasses DEF SoundInv, NewClassReserved
  <2>2. Sound(disk, classes, c)
    BY <2>1 DEF Registered, SoundInv, GlobalsOk, SoundAs
  <2>3. c \notin Systems
    BY DEF SoundInv, ClassesOk
  <2>4. Exact(disk, classes, c)
    BY <2>2, <2>3 DEF Sound
  <2> QED BY <2>4 DEF Exact
<1> QED BY <1>1, <1>2, <1>3, PTL DEF Spec

-----------------------------------------------------------------------------
(***************************************************************************)
(* Superclasses are registered with their subclasses.  That takes class    *)
(* names that nothing else uses, and core and block classes that inherit   *)
(* from what start-up has made by then: initialize and                     *)
(* GetBlockClassWithArgs register a class and not its superclasses.        *)
(***************************************************************************)
Ready == booted = Len(Toload) + 1

\* A system class keeps its global, but for Frame, which the bootstrap frame takes.
SystemsKept ==
  \A i \in Systems :
    globals[SystemClass[i]] = IF Ready /\ SystemClass[i] = "Frame" THEN Other ELSE i

Early == ~Ready => \A n \in ClassNames : globals[n] \in {Null} \cup Systems

NoOther == \A n \in ClassNames \ {"Frame"} : globals[n] # Other

CoreKept == Ready => \A i \in DOMAIN CoreClass : globals[CoreClass[i]] # Null

CoreBelowSystem ==
  \A i \in DOMAIN core : /\ core[i] # Null
                         /\ classes[core[i]].super \in Systems
                         /\ classes[classes[core[i]].super].name # "Frame"

TableInv == ResolvedUpward /\ SystemsKept /\ Early /\ NoOther /\ CoreKept /\ CoreBelowSystem

\* A class that is being loaded is no global yet.
Frames(st) == {st[i] : i \in 1 .. Len(st)}
Loads(c) == c.fn \in {"LoadClassEnd", "GetBlockClassWithArgsEnd"}
Loading == \A c \in Frames(calls) : Loads(c) => globals[c.name] = Null

\* S is closed under superclasses, and no other class has a global of theirs.
Clean(gs, cs, S) ==
  \A k \in S : /\ gs[cs[k].name] \in {Null, k}
               /\ cs[k].super # 0 => cs[k].super \in S

ResultClean ==
  calls # <<>> /\ Awaits(calls[1]) =>
    /\ calls[1].fn = "LoadCoreClassEnd" => result # Null
    /\ result # Null => \E S \in SUBSET Class : result \in S /\ Clean(globals, classes, S)

UpInv == TableInv /\ Loading /\ ResultClean

LEMMA FramesPush ==
  ASSUME NEW st \in Seq(Calls), NEW c \in Calls
  PROVE  Frames(<<c>> \o st) = {c} \cup Frames(st)
<1> DEFINE u == <<c>> \o st
<1>1. /\ Len(u) = Len(st) + 1 /\ Len(st) \in Nat
      /\ u[1] = c /\ \A i \in 1 .. Len(st) : u[i + 1] = st[i]
  OBVIOUS
<1> HIDE DEF u
<1>2. ASSUME NEW i \in 1 .. Len(u)
      PROVE  u[i] \in {c} \cup Frames(st)
  <2>1. CASE i = 1
    BY <1>1, <2>1
  <2>2. CASE i # 1
    <3>1. i - 1 \in 1 .. Len(st)
      BY <1>1, <2>2
    <3>2. u[(i - 1) + 1] = st[i - 1]
      BY <1>1, <3>1
    <3> QED BY <3>1, <3>2 DEF Frames
  <2> QED BY <2>1, <2>2
<1>3. c \in Frames(u)
  <2>1. 1 \in 1 .. Len(u)
    BY <1>1
  <2> QED BY <1>1, <2>1 DEF Frames
<1>4. ASSUME NEW i \in 1 .. Len(st)
      PROVE  st[i] \in Frames(u)
  <2>1. i + 1 \in 1 .. Len(u)
    BY <1>1
  <2> QED BY <1>1, <2>1 DEF Frames
<1>5. Frames(u) = {c} \cup Frames(st)
  BY <1>2, <1>3, <1>4 DEF Frames
<1> QED BY <1>5 DEF u

LEMMA FramesTail ==
  ASSUME NEW st \in Seq(Calls), st # <<>>
  PROVE  Frames(Tail(st)) \subseteq Frames(st) /\ st[1] \in Frames(st)
<1> DEFINE t == Tail(st)
<1>1. /\ Len(t) = Len(st) - 1 /\ Len(st) \in Nat /\ Len(st) >= 1
      /\ \A i \in 1 .. Len(t) : t[i] = st[i + 1]
  OBVIOUS
<1> HIDE DEF t
<1>2. ASSUME NEW i \in 1 .. Len(t)
      PROVE  t[i] \in Frames(st)
  <2>1. i + 1 \in 1 .. Len(st)
    BY <1>1
  <2> QED BY <1>1, <2>1 DEF Frames
<1>3. st[1] \in Frames(st)
  <2>1. 1 \in 1 .. Len(st)
    BY <1>1
  <2> QED BY <2>1 DEF Frames
<1> QED BY <1>2, <1>3 DEF Frames, t

LEMMA FramesNamed ==
  ASSUME SoundInv, NEW c \in Frames(calls)
  PROVE  c \in Calls /\ c.name \in ClassNames
<1>1. c \in Calls
  BY DEF Frames, SoundInv
<1> QED BY <1>1 DEF Calls, NamedCall, BasicCall, AssemblyCall

\* A step that leaves the globals of class names alone.
LEMMA TableStays ==
  ASSUME SoundInv, TableInv, UNCHANGED <<classes, bootVars>>,
         \A n \in ClassNames : globals'[n] = globals[n]
  PROVE  TableInv'
<1>1. \A k \in Class : Registered(k)' <=> Registered(k)
  BY SuperBelow DEF Registered, SoundInv
<1>2. ResolvedUpward'
  <2>1. ASSUME NEW k \in Class, Registered(k)', classes[k].super # 0
        PROVE  Registered(classes[k].super)'
    <3>1. Registered(classes[k].super) /\ classes[k].super \in Class
      BY <1>1, <2>1, SuperBelow DEF TableInv, ResolvedUpward, SoundInv, Class
    <3> QED BY <3>1, SuperBelow DEF Registered, SoundInv
  <2> QED BY <2>1 DEF ResolvedUpward, Class
<1>3. SystemsKept' /\ CoreKept'
  BY NamesOfClasses DEF TableInv, SystemsKept, CoreKept, Ready, bootVars
<1>4. Early' /\ NoOther'
  BY DEF TableInv, Early, NoOther, Ready, bootVars
<1>5. CoreBelowSystem'
  BY DEF TableInv, CoreBelowSystem, bootVars
<1> QED BY <1>2, <1>3, <1>4, <1>5 DEF TableInv

\* A step that makes a class; it has no global of its name yet.
LEMMA TableGrows ==
  ASSUME SoundInv, TableInv, NewClassReserved, NEW r \in ClassRecord,
         classes' = Append(classes, r),
         UNCHANGED bootVars,
         \A n \in ClassNames : globals'[n] = globals[n]
  PROVE  TableInv'
<1>0. /\ Len(classes') = Len(classes) + 1 /\ Len(classes) \in Nat
      /\ \A j \in 1 .. Len(classes) : classes'[j] = classes[j]
      /\ classes'[Len(classes')] = r /\ r.name \in ClassNames
  BY DEF SoundInv, ClassesOk, ClassRecord
<1>1. \A k \in Class : Registered(k)' <=> Registered(k)
  BY <1>0, SuperBelow DEF Registered, SoundInv, Class
<1>2. ResolvedUpward'
  <2>1. ASSUME NEW k \in 1 .. Len(classes'), globals'[classes'[k].name] = k,
               classes'[k].super # 0
        PROVE  globals'[classes'[classes'[k].super].name] = classes'[k].super
    <3>1. k # Len(classes')
      <4>1. globals[r.name] \in {Null, Other} \cup Class
        BY <1>0, NamesOfClasses DEF SoundInv, GlobalsOk
      <4>2. k = Len(classes') => globals[r.name] = Len(classes) + 1
        BY <1>0, <2>1
      <4> QED BY <1>0, <4>1, <4>2 DEF Null, Other, Class
    <3>2. k \in Class /\ classes'[k] = classes[k]
      BY <1>0, <3>1 DEF Class
    <3>3. Registered(k)
      BY <1>1, <2>1, <3>2 DEF Registered
    <3>4. Registered(classes[k].super) /\ classes[k].super \in Class
      BY <2>1, <3>2, <3>3, SuperBelow DEF TableInv, ResolvedUpward, SoundInv, Class
    <3>5. \A j \in Class : Registered(j) => globals'[classes'[j].name] = j
      BY <1>0, SuperBelow DEF Registered, SoundInv, Class
    <3> QED BY <3>2, <3>4, <3>5
  <2> QED BY <2>1 DEF ResolvedUpward, Registered, Class
<1>3. SystemsKept' /\ CoreKept'
  BY NamesOfClasses DEF TableInv, SystemsKept, CoreKept, Ready, bootVars
<1>4. Early' /\ NoOther'
  BY DEF TableInv, Early, NoOther, Ready, bootVars
<1>5. CoreBelowSystem'
  <2>1. Systems \subseteq 1 .. Len(classes)
    BY <1>0, NamesOfClasses DEF SoundInv, ClassesOk, Systems
  <2>2. \A i \in DOMAIN core : core[i] # Null => core[i] \in 1 .. Len(classes)
    BY DEF SoundInv, BootOk, SoundAs, Sound
  <2>3. ASSUME NEW i \in DOMAIN core
        PROVE  /\ core[i] # Null
               /\ classes'[core[i]].super \in Systems
               /\ classes'[classes'[core[i]].super].name # "Frame"
    <3>1. /\ core[i] # Null /\ core[i] \in 1 .. Len(classes)
          /\ classes[core[i]].super \in 1 .. Len(classes)
          /\ classes[core[i]].super \in Systems
          /\ classes[classes[core[i]].super].name # "Frame"
      BY <2>1, <2>2 DEF TableInv, CoreBelowSystem
    <3>2. classes'[core[i]] = classes[core[i]]
      BY <1>0, <3>1
    <3>3. classes'[classes[core[i]].super] = classes[classes[core[i]].super]
      BY <1>0, <3>1
    <3> QED BY <3>1, <3>2, <3>3
  <2>4. core' = core
    BY DEF bootVars
  <2> QED BY <2>3, <2>4 DEF CoreBelowSystem
<1> QED BY <1>2, <1>3, <1>4, <1>5 DEF TableInv

\* Globals of class names survive selectors and NewClass.
LEMMA ClassNamesSurvive ==
  ASSUME NEW names, names \cap ClassNames = {}, NEW v,
         globals' = SetGlobals(names, v)
  PROVE  \A n \in ClassNames : globals'[n] = globals[n]
BY NamesOfClasses DEF SetGlobals

\* The calls of a step that loads only names that are no globals.
LoadsNew == \A c \in Frames(calls') : Loads(c) =>
              c \in Frames(calls) \/ (c.name \in ClassNames /\ globals[c.name] = Null)

LEMMA LoadingStays ==
  ASSUME SoundInv, Loading, LoadsNew, \A n \in ClassNames : globals'[n] = globals[n]
  PROVE  Loading'
<1> SUFFICES ASSUME NEW c \in Frames(calls'), Loads(c)
             PROVE  globals'[c.name] = Null
  BY DEF Loading, Frames, Loads
<1>1. c.name \in ClassNames /\ globals[c.name] = Null
  BY FramesNamed DEF LoadsNew, Loading
<1> QED BY <1>1

\* A step that calls or returns, and may set selectors.
LEMMA UpCallStep ==
  ASSUME SoundInv, UpInv, UNCHANGED <<classes, bootVars>>,
         \A n \in ClassNames : globals'[n] = globals[n],
         LoadsNew, ResultClean'
  PROVE  UpInv'
BY TableStays, LoadingStays DEF UpInv

LEMMA NobodyWaits ==
  ASSUME calls' # <<>> => ~Awaits(calls'[1])
  PROVE  ResultClean'
BY DEF ResultClean, Awaits

\* A load starts with these two calls, or one.
LEMMA UpStart ==
  ASSUME SoundInv, UpInv, UNCHANGED <<classes, bootVars>>,
         \A n \in ClassNames : globals'[n] = globals[n],
         NEW c \in Calls, NEW d \in Calls,
         calls' = <<c, d>> \/ calls' = <<c>>,
         ~Awaits(c), ~Loads(c),
         Loads(d) => globals[d.name] = Null /\ d.name \in ClassNames
  PROVE  UpInv'
<1>1. Frames(<<c, d>>) \subseteq {c, d} /\ Frames(<<c>>) \subseteq {c, d}
  BY DEF Frames
<1>2. <<c, d>>[1] = c /\ <<c>>[1] = c
  OBVIOUS
<1>6. Frames(calls') \subseteq {c, d} /\ calls'[1] = c
  BY <1>1, <1>2
<1>7. LoadsNew
  BY <1>6 DEF LoadsNew
<1>8. ResultClean'
  BY <1>6, NobodyWaits
<1> QED BY <1>7, <1>8, UpCallStep

LEMMA UpStarts ==
  ASSUME SoundInv, UpInv,
         \/ LoadSystemClass \/ LoadCoreClass
         \/ \E n \in UserClass : resolve(n) \/ Load_(n)
         \/ \E n \in BlockClass : GetBlockClassWithArgs(n)
  PROVE  UpInv'
<1>1. CASE LoadSystemClass
  <2> DEFINE i == booted + 1
             c == LoadClassBasicCall(SystemClass[i], 1, i)
             d == Caller("LoadSystemClassEnd", SystemClass[i])
  <2>1. i \in Systems /\ SystemClass[i] \in ClassNames
    BY <1>1, NamesOfClasses DEF SoundInv, BootOk, LoadSystemClass, Systems
  <2>2. c \in Calls /\ d \in Calls /\ ~Awaits(c) /\ ~Loads(c) /\ ~Loads(d)
    BY <2>1 DEF Calls, NamedCall, BasicCall, LoadClassBasicCall, Caller, Awaits, Loads
  <2>3. calls' = <<c, d>> /\ UNCHANGED <<classes, globals, bootVars>>
    BY <1>1 DEF LoadSystemClass
  <2> HIDE DEF c, d
  <2> QED BY <2>2, <2>3, UpStart
<1>2. CASE LoadCoreClass
  <2> DEFINE n == Toload[booted + 1]
             c == LoadClassCall(n)
             d == Caller("LoadCoreClassEnd", n)
  <2>1. booted + 1 \in 1 .. Len(Toload)
    BY <1>2, NamesOfClasses DEF LoadCoreClass, Booting, SoundInv, BootOk
  <2>2. DOMAIN Toload = 1 .. Len(Toload)
    BY LoaderAssumption DEF Toload
  <2>3. n \in ClassNames
    BY <2>1, <2>2, NamesOfClasses
  <2>4. c \in Calls /\ d \in Calls /\ ~Awaits(c) /\ ~Loads(c) /\ ~Loads(d)
    BY <2>3 DEF Calls, NamedCall, LoadClassCall, Caller, Awaits, Loads
  <2>5. calls' = <<c, d>> /\ UNCHANGED <<classes, globals, bootVars>>
    BY <1>2 DEF LoadCoreClass
  <2> HIDE DEF c, d
  <2> QED BY <2>4, <2>5, UpStart
<1>3. ASSUME NEW n \in UserClass, resolve(n) \/ Load_(n)
      PROVE  UpInv'
  <2> DEFINE c == LoadClassCall(n)
             d == Caller("resolveEnd", n)
  <2>1. c \in Calls /\ d \in Calls /\ ~Awaits(c) /\ ~Loads(c) /\ ~Loads(d)
    BY NamesOfClasses DEF Calls, NamedCall, LoadClassCall, Caller, Awaits, Loads
  <2>2. (calls' = <<c, d>> \/ calls' = <<c>>) /\ UNCHANGED <<classes, globals, bootVars>>
    BY <1>3 DEF resolve, Load_
  <2> HIDE DEF c, d
  <2> QED BY <2>1, <2>2, UpStart
<1>4. ASSUME NEW n \in BlockClass, GetBlockClassWithArgs(n)
      PROVE  UpInv'
  <2> DEFINE c == LoadClassBasicCall(n, 1, Null)
             d == Caller("GetBlockClassWithArgsEnd", n)
  <2>1. /\ c \in Calls /\ d \in Calls /\ ~Awaits(c) /\ ~Loads(c)
        /\ d.name = n /\ n \in ClassNames
    BY NamesOfClasses DEF Calls, NamedCall, BasicCall, LoadClassBasicCall, Caller, Awaits, Loads
  <2>2. calls' = <<c, d>> /\ globals[n] = Null /\ UNCHANGED <<classes, globals, bootVars>>
    BY <1>4 DEF GetBlockClassWithArgs
  <2> HIDE DEF c, d
  <2> QED BY <2>1, <2>2, UpStart
<1> QED BY <1>1, <1>2, <1>3, <1>4

LEMMA UpCompileClassString ==
  ASSUME SoundInv, UpInv, Separate, NEW f \in Statements, CompileClassString(f)
  PROVE  UpInv'
<1> DEFINE c == LoadClassCall(f.super)
           d == AssembleCall(f, f.class)
<1>1. c \in Calls /\ d \in Calls /\ ~Awaits(c) /\ ~Loads(c) /\ ~Loads(d)
  BY NamesOfClasses DEF Calls, NamedCall, AssemblyCall, LoadClassCall, AssembleCall, Awaits, Loads
<1>2. /\ calls' = <<c, d>> /\ UNCHANGED <<classes, bootVars>>
      /\ globals' = SetGlobals(f.selectors, Other)
  BY DEF CompileClassString
<1>3. \A n \in ClassNames : globals'[n] = globals[n]
  BY <1>2, ClassNamesSurvive DEF Separate
<1> HIDE DEF c, d
<1> QED BY <1>1, <1>2, <1>3, UpStart

LEMMA UpLoadClassGlobal ==
  ASSUME SoundInv, UpInv, Separate, LoadClassGlobal
  PROVE  UpInv'
<1> DEFINE c == calls[1]
           S == {k \in Class : Registered(k)}
<1>1. /\ calls # <<>> /\ c.fn = "LoadClass" /\ calls' = Tail(calls)
      /\ UNCHANGED <<disk, classes, globals, bootVars>>
      /\ result' = IF globals[c.name] = Other THEN Null ELSE globals[c.name]
      /\ globals[c.name] # Null
  BY DEF LoadClassGlobal, Running, Returns
<1>2. /\ Frames(calls') \subseteq Frames(calls) /\ c \in Frames(calls)
  BY <1>1, FramesTail DEF SoundInv
<1>3. c.name \in ClassNames /\ c.name \in Name \ {"NewClass"}
  BY <1>2, FramesNamed, NamesOfClasses DEF Separate, NewClassReserved
<1>4. result' # Null => result' \in S
  <2>1. result' # Null => result' = globals[c.name] /\ globals[c.name] \in Class
    BY <1>1, <1>3 DEF SoundInv, GlobalsOk, Null
  <2>2. result' # Null => classes[result'].name = c.name
    BY <1>3, <2>1 DEF SoundInv, GlobalsOk, SoundAs
  <2> QED BY <2>1, <2>2 DEF Registered
<1>5. Clean(globals, classes, S)
  <2> SUFFICES ASSUME NEW k \in Class, Registered(k)
               PROVE  /\ globals[classes[k].name] \in {Null, k}
                      /\ classes[k].super # 0 => classes[k].super \in S
    BY DEF Clean
  <2>1. classes[k].super # 0 => classes[k].super \in Class
    BY SuperBelow DEF SoundInv, Class
  <2> QED BY <2>1 DEF UpInv, TableInv, ResolvedUpward, Registered
<1>6. ASSUME calls' # <<>>, calls'[1].fn = "LoadCoreClassEnd"
      PROVE  result' # Null
  <2>1. Running("LoadClass")
    BY DEF LoadClassGlobal
  <2>2. /\ Tail(calls) \in Seq(Calls) /\ Stack(Tail(calls)) /\ Tail(calls) # <<>>
    BY <1>1, <1>6, StackTail DEF SoundInv
  <2> DEFINE t == Tail(calls)
  <2>3. /\ Tail(t) = <<>> => Bottom(t[1])
        /\ Tail(t) # <<>> => Above(t[1], t[2])
    <3> HIDE DEF t
    <3>1. t \in Seq(Calls) /\ Stack(t) /\ t # <<>>
      BY <2>2 DEF t
    <3> QED BY <3>1, StackTail
  <2>4. Bottom(t[1])
    BY <1>1, <1>6, <2>3 DEF Above, Starters
  <2>5. ~Ready
    BY <1>1, <1>6, <2>4, NamesOfClasses DEF Bottom, Ready
  <2>6. globals[c.name] \in {Null} \cup Systems
    BY <1>3, <2>5 DEF UpInv, TableInv, Early
  <2> QED BY <1>1, <2>6, NamesOfClasses DEF Systems, Other, Null
<1> HIDE DEF S
<1>7. ResultClean'
  <2>1. S \in SUBSET Class'
    BY <1>1 DEF S, Class
  <2>2. Clean(globals', classes', S)
    BY <1>1, <1>5
  <2>3. result' # Null => \E T \in SUBSET Class' : result' \in T /\ Clean(globals', classes', T)
    BY <1>4, <2>1, <2>2
  <2> QED BY <1>6, <2>3 DEF ResultClean
<1>8. LoadsNew
  BY <1>2 DEF LoadsNew
<1> QED BY <1>1, <1>7, <1>8, UpCallStep

LEMMA UpLoadClass ==
  ASSUME SoundInv, UpInv, LoadClass
  PROVE  UpInv'
<1> DEFINE n == calls[1].name
           b == LoadClassBasicCall(n, 1, Null)
           e == LoadClassEndCall(n)
           t == Tail(calls)
<1>1. /\ calls # <<>> /\ calls' = <<b, e>> \o t /\ globals[n] = Null
      /\ UNCHANGED <<classes, globals, bootVars>>
  BY DEF LoadClass, Running, Becomes
<1>2. t \in Seq(Calls) /\ Frames(t) \subseteq Frames(calls) /\ n \in ClassNames
  BY <1>1, StackTail, FramesTail, FramesNamed DEF SoundInv
<1>3. b \in Calls /\ e \in Calls /\ ~Loads(b) /\ ~Awaits(b) /\ e.name = n
  BY <1>2 DEF Calls, NamedCall, BasicCall, LoadClassBasicCall, LoadClassEndCall, Loads, Awaits
<1> HIDE DEF b, e, t, n
<1>4. calls' = <<b>> \o (<<e>> \o t)
  <2>1. <<b, e>> \o t = <<b>> \o (<<e>> \o t)
    BY <1>2, <1>3, TwoPushed
  <2> QED BY <1>1, <2>1
<1>5. <<e>> \o t \in Seq(Calls)
  BY <1>2, <1>3
<1>6. Frames(calls') = {b, e} \cup Frames(t) /\ calls'[1] = b
  <2> DEFINE u == <<e>> \o t
  <2>1. u \in Seq(Calls) /\ Frames(u) = {e} \cup Frames(t)
    BY <1>2, <1>3, <1>5, FramesPush
  <2> HIDE DEF u
  <2>2. Frames(<<b>> \o u) = {b} \cup Frames(u) /\ (<<b>> \o u)[1] = b
    BY <1>3, <2>1, FramesPush
  <2> QED BY <1>4, <2>1, <2>2 DEF u
<1>7. LoadsNew
  BY <1>1, <1>2, <1>3, <1>6 DEF LoadsNew
<1>8. ResultClean'
  BY <1>3, <1>6, NobodyWaits
<1> QED BY <1>1, <1>7, <1>8, UpCallStep

LEMMA UpLoadClassEnd ==
  ASSUME SoundInv, UpInv, LoadClassEnd
  PROVE  UpInv'
<1>1. /\ calls # <<>> /\ calls[1].fn = "LoadClassEnd" /\ Awaits(calls[1])
      /\ UNCHANGED <<classes, globals, result, bootVars>>
      /\ calls' = calls \/ (calls' = Tail(calls) /\ result # Null)
  BY DEF LoadClassEnd, Running, Returns, Awaits
<1>2. Frames(calls') \subseteq Frames(calls)
  BY <1>1, FramesTail DEF SoundInv
<1>3. LoadsNew
  BY <1>2 DEF LoadsNew
<1>4. result # Null => \E S \in SUBSET Class : result \in S /\ Clean(globals, classes, S)
  BY <1>1 DEF UpInv, ResultClean
<1>5. ResultClean'
  BY <1>1, <1>4 DEF ResultClean, Class
<1> QED BY <1>1, <1>3, <1>5, UpCallStep

LEMMA UpLoadClassBasic ==
  ASSUME SoundInv, UpInv, LoadClassBasicNext \/ LoadClassBasicFails
  PROVE  UpInv'
<1> DEFINE c == calls[1]
           t == Tail(calls)
<1>1. /\ calls # <<>> /\ c.fn = "LoadClassBasic"
      /\ UNCHANGED <<classes, globals, bootVars>>
  BY DEF LoadClassBasicNext, LoadClassBasicFails, Running
<1>2. /\ c \in Calls /\ t \in Seq(Calls) /\ Frames(t) \subseteq Frames(calls)
      /\ t # <<>> => Above(c, calls[2]) /\ t[1] = calls[2]
  BY <1>1, StackTail, FramesTail DEF SoundInv
<1>3. CASE LoadClassBasicNext
  <2> DEFINE b == [c EXCEPT !.path = @ + 1]
  <2>1. calls' = <<b>> \o t
    BY <1>3 DEF LoadClassBasicNext, Becomes
  <2>2. c \in BasicCall
    BY <1>1, <1>2 DEF Calls, NamedCall, AssemblyCall, BasicCall
  <2>3. b \in Calls /\ ~Loads(b) /\ ~Awaits(b)
    BY <2>2 DEF BasicCall, Calls, Loads, Awaits
  <2> HIDE DEF b, t
  <2>4. Frames(calls') = {b} \cup Frames(t) /\ calls'[1] = b
    BY <1>2, <2>1, <2>3, FramesPush
  <2>5. LoadsNew
    BY <1>2, <2>3, <2>4 DEF LoadsNew
  <2>6. ResultClean'
    BY <2>3, <2>4, NobodyWaits
  <2> QED BY <1>1, <2>5, <2>6, UpCallStep
<1>4. CASE LoadClassBasicFails
  <2>1. calls' = t /\ result' = Null
    BY <1>4 DEF LoadClassBasicFails, Returns
  <2>2. LoadsNew
    BY <1>2, <2>1 DEF LoadsNew
  <2>3. ResultClean'
    <3>1. calls' # <<>> => calls'[1].fn # "LoadCoreClassEnd"
      BY <1>1, <1>2, <2>1 DEF Above
    <3> QED BY <2>1, <3>1 DEF ResultClean
  <2> QED BY <1>1, <2>2, <2>3, UpCallStep
<1> QED BY <1>3, <1>4

LEMMA UpCompileClass ==
  ASSUME SoundInv, UpInv, Separate, CompileClass
  PROVE  UpInv'
<1> DEFINE b == calls[1]
           f == FileAt(b.path, b.name)
           c == LoadClassCall(f.super)
           d == AssembleCall(f, b.name)
<1>1. /\ calls # <<>> /\ b.fn = "LoadClassBasic" /\ f # NoFile
      /\ calls' = <<c, d>> \o calls
      /\ globals' = SetGlobals(f.selectors, Other)
      /\ UNCHANGED <<classes, bootVars>>
  BY DEF CompileClass, Running
<1>2. b \in BasicCall
  <2>1. b \in Calls
    BY <1>1, StackTail DEF SoundInv
  <2> QED BY <1>1, <2>1 DEF Calls, NamedCall, AssemblyCall, BasicCall
<1>3. f \in Files /\ b.name \in ClassNames
  BY <1>1, <1>2, FileAtFound DEF SoundInv, DiskOk, BasicCall
<1> HIDE DEF f, b
<1>4. c \in Calls /\ d \in Calls /\ ~Awaits(c) /\ ~Loads(c) /\ ~Loads(d)
  BY <1>3, NamesOfClasses DEF Calls, NamedCall, AssemblyCall, LoadClassCall, AssembleCall,
                              Awaits, Loads
<1>5. \A n \in ClassNames : globals'[n] = globals[n]
  BY <1>1, <1>3, ClassNamesSurvive DEF Separate
<1>6. calls \in Seq(Calls)
  BY DEF SoundInv
<1> HIDE DEF c, d
<1>7. Frames(calls') = {c, d} \cup Frames(calls) /\ calls'[1] = c
  <2> DEFINE u == <<d>> \o calls
  <2>1. u \in Seq(Calls) /\ Frames(u) = {d} \cup Frames(calls)
    BY <1>4, <1>6, FramesPush
  <2>2. <<c, d>> \o calls = <<c>> \o u
    BY <1>4, <1>6, TwoPushed
  <2> HIDE DEF u
  <2>3. Frames(<<c>> \o u) = {c} \cup Frames(u) /\ (<<c>> \o u)[1] = c
    BY <1>4, <2>1, FramesPush
  <2> QED BY <1>1, <2>1, <2>2, <2>3
<1>8. LoadsNew
  BY <1>4, <1>7 DEF LoadsNew
<1>9. ResultClean'
  BY <1>4, <1>7, NobodyWaits
<1> QED BY <1>1, <1>5, <1>8, <1>9, UpCallStep

LEMMA UpCompileSystemClass ==
  ASSUME SoundInv, UpInv, Separate, CompileSystemClass
  PROVE  UpInv'
<1> DEFINE b == calls[1]
           f == FileAt(b.path, b.name)
<1>1. /\ calls # <<>> /\ b.fn = "LoadClassBasic" /\ b.system # Null /\ f # NoFile
      /\ calls' = Tail(calls)
      /\ globals' = SetGlobals(f.selectors, Other)
      /\ UNCHANGED <<classes, bootVars>>
  BY DEF CompileSystemClass, Running, Returns
<1>2. /\ b \in Calls /\ Frames(Tail(calls)) \subseteq Frames(calls)
      /\ Tail(calls) # <<>> => Above(b, calls[2]) /\ Tail(calls)[1] = calls[2]
  BY <1>1, StackTail, FramesTail DEF SoundInv
<1>3. b \in BasicCall
  BY <1>1, <1>2 DEF Calls, NamedCall, AssemblyCall, BasicCall
<1>4. f \in Files
  BY <1>1, <1>3, FileAtFound DEF SoundInv, DiskOk, BasicCall
<1> HIDE DEF f
<1>5. \A n \in ClassNames : globals'[n] = globals[n]
  BY <1>1, <1>4, ClassNamesSurvive DEF Separate
<1>6. LoadsNew
  BY <1>1, <1>2 DEF LoadsNew
<1>7. ResultClean'
  BY <1>1, <1>2, NobodyWaits DEF Above, Awaits
<1> QED BY <1>1, <1>5, <1>6, <1>7, UpCallStep

LEMMA UpAssemble ==
  ASSUME SoundInv, UpInv, Separate, Assemble
  PROVE  UpInv'
<1> DEFINE c == calls[1]
           r == NewClassOf(c.file)
           k == Len(classes')
           t == Tail(Tail(calls))
<1>1. /\ Running("Assemble") /\ result # Null
      /\ c.file.class = c.name
      /\ classes' = Append(classes, r)
      /\ globals' = SetGlobals({"NewClass"}, k)
      /\ result' = k
      /\ calls' = IF c.file.path = 0 THEN Tail(calls) ELSE t
      /\ UNCHANGED <<disk, bootVars>>
  BY DEF Assemble
<1>2. /\ calls # <<>> /\ c.fn = "Assemble"
      /\ r \in ClassRecord
      /\ r.name = c.file.class /\ r.super = result
      /\ Tail(calls) = <<>> => c.file.path = 0
      /\ Tail(calls) # <<>> => c.file.path # 0
  BY <1>1, AssembledClass
<1> HIDE DEF r
<1>3. \A n \in ClassNames : globals'[n] = globals[n]
  BY <1>1, ClassNamesSurvive DEF Separate, NewClassReserved
<1>4. TableInv'
  BY <1>1, <1>2, <1>3, TableGrows DEF UpInv, Separate
<1>5. CASE Tail(calls) = <<>>
  <2>1. calls' = <<>>
    BY <1>1, <1>2, <1>5
  <2> QED BY <1>4, <2>1 DEF UpInv, Loading, ResultClean, Frames
<1>6. CASE Tail(calls) # <<>>
  <2>1. /\ calls' = t /\ t \in Seq(Calls) /\ t # <<>> /\ Loads(t[1]) /\ t[1].name = c.name
        /\ t[1].fn # "LoadCoreClassEnd"
    BY <1>1, <1>2, <1>6, UnderAssemble DEF Loads
  <2>2. Frames(t) \subseteq Frames(calls) /\ t[1] \in Frames(t)
    <3> DEFINE u == Tail(calls)
    <3>1. u \in Seq(Calls) /\ u # <<>> /\ Frames(u) \subseteq Frames(calls)
      BY <1>2, <1>6, StackTail, FramesTail DEF SoundInv
    <3>2. t = Tail(u)
      OBVIOUS
    <3> HIDE DEF u, t
    <3>3. Frames(t) \subseteq Frames(u)
      BY <3>1, <3>2, FramesTail
    <3>4. t[1] \in Frames(t)
      BY <2>1, FramesTail
    <3> QED BY <3>1, <3>3, <3>4
  <2>3. LoadsNew
    BY <2>1, <2>2 DEF LoadsNew
  <2>4. Loading'
    BY <1>3, <2>3, LoadingStays DEF UpInv
  <2>5. globals[c.name] = Null
    BY <2>1, <2>2 DEF UpInv, Loading
  <2>6. PICK S \in SUBSET Class : result \in S /\ Clean(globals, classes, S)
    BY <1>1, <1>2 DEF UpInv, ResultClean, Awaits
  <2>7. /\ k = Len(classes) + 1 /\ Len(classes) \in Nat /\ classes'[k] = r
        /\ \A j \in Class : classes'[j] = classes[j]
    BY <1>1, <1>2 DEF SoundInv, ClassesOk, Class
  <2>8. r.name \in ClassNames /\ \A j \in Class : classes[j].name \in ClassNames
    BY <1>2, SuperBelow DEF ClassRecord, SoundInv
  <2> HIDE DEF k, t, c
  <2>9. Clean(globals', classes', S \cup {k})
    <3>1. ASSUME NEW j \in S
          PROVE  /\ globals'[classes'[j].name] \in {Null, j}
                 /\ classes'[j].super # 0 => classes'[j].super \in S
      BY <1>3, <2>6, <2>7, <2>8 DEF Clean
    <3>2. globals'[classes'[k].name] = Null /\ classes'[k].super \in S
      BY <1>1, <1>2, <1>3, <2>5, <2>6, <2>7, <2>8
    <3> QED BY <3>1, <3>2 DEF Clean
  <2>10. S \cup {k} \in SUBSET Class'
    <3>1. Class \subseteq Class' /\ k \in Class'
      BY <2>7 DEF Class, k
    <3> QED BY <2>6, <3>1
  <2>11. ResultClean'
    BY <1>1, <2>1, <2>9, <2>10 DEF ResultClean, k
  <2> QED BY <1>4, <2>4, <2>11 DEF UpInv
<1> QED BY <1>5, <1>6

LEMMA UpAssembleMismatch ==
  ASSUME SoundInv, UpInv, Separate, AssembleMismatch
  PROVE  UpInv'
<1> DEFINE c == calls[1]
           r == NewClassOf(c.file)
           b == calls[2]
           d == [b EXCEPT !.path = @ + 1]
           t == Tail(Tail(calls))
<1>1. /\ Running("Assemble") /\ result # Null
      /\ c.file.class # c.name
      /\ classes' = Append(classes, r)
      /\ globals' = SetGlobals({"NewClass"}, Len(classes'))
      /\ calls' = <<d>> \o t
      /\ UNCHANGED <<disk, result, bootVars>>
  BY DEF AssembleMismatch
<1>2. /\ r \in ClassRecord /\ calls # <<>> /\ c.fn = "Assemble"
  BY <1>1, AssembledClass
<1>3. Tail(calls) # <<>>
  <2>1. Tail(calls) = <<>> => Bottom(c)
    BY <1>2, StackTail DEF SoundInv
  <2> QED BY <1>1, <1>2, <2>1 DEF Bottom
<1>4. b \in BasicCall /\ t \in Seq(Calls)
  BY <1>1, <1>3, UnderAssemble
<1>5. d \in Calls /\ ~Loads(d) /\ ~Awaits(d)
  BY <1>4 DEF BasicCall, Calls, Loads, Awaits
<1>6. Frames(t) \subseteq Frames(calls)
  <2> DEFINE u == Tail(calls)
  <2>1. u \in Seq(Calls) /\ u # <<>> /\ Frames(u) \subseteq Frames(calls)
    BY <1>2, <1>3, StackTail, FramesTail DEF SoundInv
  <2>2. t = Tail(u)
    OBVIOUS
  <2> HIDE DEF u, t
  <2> QED BY <2>1, <2>2, FramesTail
<1> HIDE DEF r, d, t
<1>7. \A n \in ClassNames : globals'[n] = globals[n]
  BY <1>1, ClassNamesSurvive DEF Separate, NewClassReserved
<1>8. TableInv'
  BY <1>1, <1>2, <1>7, TableGrows DEF UpInv, Separate
<1>9. Frames(calls') = {d} \cup Frames(t) /\ calls'[1] = d
  BY <1>1, <1>4, <1>5, FramesPush
<1>10. LoadsNew
  BY <1>5, <1>6, <1>9 DEF LoadsNew
<1>11. Loading'
  BY <1>7, <1>10, LoadingStays DEF UpInv
<1>12. ResultClean'
  BY <1>5, <1>9, NobodyWaits
<1> QED BY <1>8, <1>11, <1>12 DEF UpInv

\* A step after which nobody waits.
LEMMA UpEmptyStep ==
  ASSUME calls' = <<>>, TableInv'
  PROVE  UpInv'
BY DEF UpInv, Loading, ResultClean, Frames

LEMMA UpLoadSystemClassEnd ==
  ASSUME SoundInv, UpInv, LoadSystemClassEnd
  PROVE  UpInv'
<1>1. /\ Tail(calls) = <<>> /\ Bottom(calls[1]) /\ calls[1].fn = "LoadSystemClassEnd"
  BY StarterAlone DEF LoadSystemClassEnd, Starters
<1>2. /\ calls' = <<>> /\ booted' = booted + 1 /\ booted < Len(SystemClass) /\ booted \in Nat
      /\ UNCHANGED <<globals, classes, core>>
  BY <1>1 DEF LoadSystemClassEnd, Bottom, SoundInv, BootOk
<1>3. ~Ready /\ ~Ready'
  BY <1>2, NamesOfClasses DEF Ready, Toload
<1>4. ResolvedUpward'
  BY <1>2 DEF UpInv, TableInv, ResolvedUpward, Registered, Class
<1>5. SystemsKept' /\ Early' /\ NoOther' /\ CoreKept' /\ CoreBelowSystem'
  BY <1>2, <1>3 DEF UpInv, TableInv, SystemsKept, Early, NoOther, CoreKept, CoreBelowSystem
<1> QED BY <1>2, <1>4, <1>5, UpEmptyStep DEF TableInv

\* A class made from a file, in a clean set, and its superclass.
LEMMA FileClass ==
  ASSUME SoundInv, NEW S \in SUBSET Class, Clean(globals, classes, S), NEW k \in S,
         Sound(disk, classes, k), k \notin Systems
  PROVE  \E f \in Files : /\ f.file = classes[k].name
                          /\ f.super = classes[classes[k].super].name
                          /\ classes[k].super \in S /\ classes[k].super # 0
                          /\ globals[f.super] \in {Null, classes[k].super}
<1>1. Exact(disk, classes, k)
  BY DEF Sound
<1>2. PICK f \in disk : f.file = classes[k].name /\ f.super = classes[classes[k].super].name
  BY <1>1 DEF Exact
<1>3. classes[k].super \in 1 .. k - 1
  BY <1>1 DEF Exact
<1>4. classes[k].super # 0
  BY <1>3 DEF Class
<1>5. classes[k].super \in S
  BY <1>4 DEF Clean
<1>6. globals[f.super] \in {Null, classes[k].super}
  BY <1>2, <1>5 DEF Clean
<1>7. f \in Files
  BY DEF SoundInv, DiskOk
<1> QED BY <1>2, <1>4, <1>5, <1>6, <1>7

LEMMA UpLoadCoreClassEnd ==
  ASSUME SoundInv, UpInv, Separate, LoadCoreClassEnd
  PROVE  UpInv'
<1> DEFINE i == Len(core) + 1
<1>1. /\ calls # <<>> /\ calls[1].fn = "LoadCoreClassEnd"
      /\ i \in DOMAIN CoreClass
      /\ result # Null => SoundAs(disk, classes, result, CoreClass[i])
      /\ booted \in Nat /\ booted < Len(Toload)
      /\ calls' = <<>> /\ booted' = booted + 1 /\ core' = Append(core, result)
      /\ UNCHANGED <<disk, globals, classes, result>>
  BY CoreLoaded
<1>2. ~Ready /\ ~Ready'
  BY <1>1, NamesOfClasses DEF Ready, Toload
<1>3. result # Null /\ SoundAs(disk, classes, result, CoreClass[i])
  BY <1>1 DEF UpInv, ResultClean, Awaits
<1>4. PICK S \in SUBSET Class : result \in S /\ Clean(globals, classes, S)
  BY <1>1, <1>3 DEF UpInv, ResultClean, Awaits
<1> HIDE DEF i
<1>5. result \notin Systems
  BY <1>1, <1>3 DEF SoundAs, SoundInv, ClassesOk, Separate
<1>6. PICK f \in Files : /\ f.file = classes[result].name
                         /\ f.super = classes[classes[result].super].name
                         /\ classes[result].super \in S /\ classes[result].super # 0
                         /\ globals[f.super] \in {Null, classes[result].super}
  BY <1>3, <1>4, <1>5, FileClass DEF SoundAs
<1>7. f.file = CoreClass[i]
  BY <1>3, <1>6 DEF SoundAs
<1>8. PICK j \in Systems : f.super = SystemClass[j] /\ f.super # "Frame"
  BY <1>1, <1>7 DEF Separate
<1>9. globals[f.super] = j /\ j # Null
  BY <1>2, <1>8, NamesOfClasses DEF UpInv, TableInv, SystemsKept, Systems, Null
<1>10. classes[result].super \in Systems /\ classes[classes[result].super].name # "Frame"
  BY <1>6, <1>8, <1>9
<1>11. CoreBelowSystem'
  <2>1. core \in Seq({Null} \cup Class) /\ result \in {Null} \cup Class
    BY DEF SoundInv, BootOk, ResultOk
  <2>2. /\ DOMAIN core' = 1 .. i /\ DOMAIN core = 1 .. Len(core) /\ Len(core) \in Nat
        /\ \A m \in 1 .. Len(core) : core'[m] = core[m]
        /\ core'[i] = result
    BY <1>1, <2>1 DEF i
  <2>3. ASSUME NEW m \in DOMAIN core'
        PROVE  /\ core'[m] # Null
               /\ classes[core'[m]].super \in Systems
               /\ classes[classes[core'[m]].super].name # "Frame"
    <3>1. CASE m = i
      BY <1>3, <1>10, <2>2, <3>1
    <3>2. CASE m \in DOMAIN core
      BY <2>2, <3>2 DEF UpInv, TableInv, CoreBelowSystem
    <3> QED BY <2>2, <3>1, <3>2 DEF i
  <2> QED BY <1>1, <2>3 DEF CoreBelowSystem
<1>12. ResolvedUpward'
  BY <1>1 DEF UpInv, TableInv, ResolvedUpward, Registered, Class
<1>13. SystemsKept' /\ Early' /\ NoOther' /\ CoreKept'
  BY <1>1, <1>2 DEF UpInv, TableInv, SystemsKept, Early, NoOther, CoreKept
<1> QED BY <1>1, <1>11, <1>12, <1>13, UpEmptyStep DEF TableInv

LEMMA UpInitialize ==
  ASSUME SoundInv, UpInv, Separate, initialize
  PROVE  UpInv'
<1>1. /\ calls' = <<>> /\ booted = Len(Toload) /\ booted' = booted + 1
      /\ UNCHANGED <<disk, classes, result, core>>
  BY DEF initialize
<1>2. ~Ready /\ Ready'
  BY <1>1, NamesOfClasses DEF Ready, Toload
<1>3. /\ Systems \subseteq Nat \ {0} /\ Systems \subseteq Class
      /\ \A i \in Systems : SystemClass[i] \in ClassNames /\ SystemClass[i] \in Name
      /\ \A i \in Systems : classes[i].name = SystemClass[i] /\ classes[i].super = SystemSuper[i]
  <2>1. Systems \subseteq Nat \ {0} /\ Systems \subseteq Class
    BY NamesOfClasses DEF Systems, SoundInv, ClassesOk, Class
  <2>2. \A i \in Systems : SystemClass[i] \in ClassNames /\ SystemClass[i] \in Name
    BY NamesOfClasses
  <2>3. \A i \in Systems : classes[i].name = SystemClass[i] /\ classes[i].super = SystemSuper[i]
    BY DEF SoundInv, ClassesOk
  <2> QED BY <2>1, <2>2, <2>3
<1>4. ASSUME NEW i \in Systems
      PROVE  globals'[SystemClass[i]] = IF SystemClass[i] = "Frame" THEN Other ELSE i
  <2>1. globals[SystemClass[i]] = i
    BY <1>2 DEF UpInv, TableInv, SystemsKept
  <2>2. \A j \in DOMAIN CoreClass : CoreClass[j] # SystemClass[i]
    BY DEF Separate
  <2> QED BY <1>3, <2>1, <2>2, InitializeGlobals
<1>5. SystemsKept'
  BY <1>2, <1>4 DEF SystemsKept
<1>6. ASSUME NEW c \in Class, globals'[classes[c].name] = c, classes[c].super # 0
      PROVE  globals'[classes[classes[c].super].name] = classes[c].super
  <2> DEFINE n == classes[c].name
             s == classes[c].super
  <2>1. n \in ClassNames /\ n \in Name
    BY SuperBelow, NamesOfClasses DEF SoundInv
  <2>2. s \in Systems /\ SystemClass[s] # "Frame"
    <3>1. c # Other
      BY DEF Other, Class
    <3>2. ASSUME NEW i \in DOMAIN CoreClass, i \in DOMAIN core, globals'[n] = core[i]
          PROVE  s \in Systems /\ SystemClass[s] # "Frame"
      <4>1. core[i] = c
        BY <1>6, <3>2
      <4>2. s \in Systems /\ classes[s].name # "Frame"
        BY <3>2, <4>1 DEF UpInv, TableInv, CoreBelowSystem
      <4> QED BY <1>3, <4>2
    <3>3. CASE globals'[n] = globals[n]
      <4>1. c \in Systems
        BY <1>2, <1>6, <2>1, <3>3 DEF UpInv, TableInv, Early, Null, Class
      <4>2. s = SystemSuper[c] /\ SystemSuper[c] \in 0 .. c - 1
        BY <1>3, <4>1, LoaderAssumption DEF Systems
      <4>3. s \in Systems
        BY <1>6, <4>1, <4>2, NamesOfClasses DEF Systems
      <4> QED BY <1>6, <4>1, <4>2, <4>3 DEF Separate
    <3> QED BY <1>6, <2>1, <3>1, <3>2, <3>3, InitializeGlobals
  <2>3. globals'[SystemClass[s]] = s
    BY <1>4, <2>2
  <2> QED BY <1>3, <2>2, <2>3
<1>7. ResolvedUpward'
  BY <1>1, <1>6 DEF ResolvedUpward, Registered, Class
<1>8. Early'
  BY <1>2 DEF Early
<1>9. NoOther'
  <2> SUFFICES ASSUME NEW n \in ClassNames \ {"Frame"}
               PROVE  globals'[n] # Other
    BY DEF NoOther
  <2>1. n \in Name
    BY NamesOfClasses
  <2>2. \A i \in DOMAIN core : core[i] # Other
    <3>1. core \in Seq({Null} \cup Class) /\ Other \notin {Null} \cup Class
      BY DEF SoundInv, BootOk, Other, Null, Class
    <3> QED BY <3>1
  <2>3. globals[n] # Other
    BY DEF UpInv, TableInv, NoOther
  <2> QED BY <2>1, <2>2, <2>3, InitializeGlobals
<1>10. CoreKept'
  <2> SUFFICES ASSUME NEW i \in DOMAIN CoreClass
               PROVE  globals'[CoreClass[i]] # Null
    BY DEF CoreKept
  <2>1. CoreClass[i] \in Name
    BY NamesOfClasses
  <2>2. \A j \in DOMAIN core : core[j] # Null
    BY DEF UpInv, TableInv, CoreBelowSystem
  <2> QED BY <2>1, <2>2, InitializeGlobals DEF Other, Null
<1>11. CoreBelowSystem'
  BY <1>1 DEF UpInv, TableInv, CoreBelowSystem
<1> QED BY <1>1, <1>5, <1>7, <1>8, <1>9, <1>10, <1>11, UpEmptyStep DEF TableInv

\* The names registered at start-up are taken.
LEMMA TakenNames ==
  ASSUME SoundInv, UpInv
  PROVE  /\ \A i \in Systems : globals[SystemClass[i]] # Null
         /\ Ready => \A i \in DOMAIN Toload : globals[Toload[i]] # Null
<1>1. ASSUME NEW i \in Systems
      PROVE  globals[SystemClass[i]] # Null
  BY NamesOfClasses DEF UpInv, TableInv, SystemsKept, Systems, Null, Other
<1>2. ASSUME Ready, NEW i \in DOMAIN Toload
      PROVE  globals[Toload[i]] # Null
  <2>1. DOMAIN Toload = 1 .. Len(Toload) /\ DOMAIN CoreClass = 1 .. Len(CoreClass)
    BY LoaderAssumption DEF Toload
  <2>2. CASE i \in Systems
    BY <1>1, <2>2, NamesOfClasses
  <2>3. CASE i \notin Systems
    <3>1. i - Len(SystemClass) \in DOMAIN CoreClass
          /\ Len(SystemClass) + (i - Len(SystemClass)) = i
      BY <2>1, <2>3, NamesOfClasses DEF Systems
    <3>2. Toload[Len(SystemClass) + (i - Len(SystemClass))] = CoreClass[i - Len(SystemClass)]
      BY <3>1, NamesOfClasses
    <3> QED BY <1>2, <3>1, <3>2 DEF UpInv, TableInv, CoreKept
  <2> QED BY <2>2, <2>3
<1> QED BY <1>1, <1>2

LEMMA UpGetBlockClassWithArgsEnd ==
  ASSUME SoundInv, UpInv, Separate, GetBlockClassWithArgsEnd
  PROVE  UpInv'
<1> DEFINE n == calls[1].name
<1>1. /\ calls # <<>> /\ calls[1].fn = "GetBlockClassWithArgsEnd" /\ Tail(calls) = <<>>
      /\ FrameOk(calls[1]) /\ Bottom(calls[1])
  BY StarterAlone DEF GetBlockClassWithArgsEnd, Starters
<1>2. Ready /\ n \in BlockClass /\ n \in ClassNames
  BY <1>1, NamesOfClasses DEF Bottom, FrameOk, Ready
<1>3. /\ calls' = <<>> /\ UNCHANGED <<disk, classes, result, bootVars>>
      /\ globals' = IF result = Null THEN globals ELSE SetGlobals({n}, result)
  BY <1>1 DEF GetBlockClassWithArgsEnd
<1>4. CASE result = Null
  BY <1>3, <1>4, TableStays, UpEmptyStep DEF UpInv
<1>5. CASE result # Null
  <2>1. SoundAs(disk, classes, result, n) /\ result \in Class
    BY <1>1, <1>5 DEF SoundInv, ResultOk, Awaits, Awaited, SoundAs, Sound, Class
  <2>2. PICK S \in SUBSET Class : result \in S /\ Clean(globals, classes, S)
    BY <1>1, <1>5 DEF UpInv, ResultClean, Awaits
  <2>3. globals[n] = Null
    BY <1>1, FramesTail DEF UpInv, Loading, Loads, SoundInv
  <2>4. result \notin Systems
    BY <2>1, <2>3, TakenNames DEF SoundAs, SoundInv, ClassesOk
  <2>5. PICK f \in Files : /\ f.file = classes[result].name
                           /\ f.super = classes[classes[result].super].name
                           /\ classes[result].super \in S /\ classes[result].super # 0
                           /\ globals[f.super] \in {Null, classes[result].super}
    BY <2>1, <2>2, <2>4, FileClass DEF SoundAs
  <2>6. \E i \in DOMAIN Toload : f.super = Toload[i]
    BY <1>2, <2>1, <2>5 DEF Separate, SoundAs
  <2>7. Registered(classes[result].super) /\ globals[f.super] # Null
    BY <1>2, <2>5, <2>6, TakenNames DEF Registered
  <2>8. ASSUME NEW m \in ClassNames
        PROVE  globals'[m] = IF m = n THEN result ELSE globals[m]
    BY <1>3, <1>5, NamesOfClasses DEF SetGlobals
  <2> HIDE DEF n
  <2>9. \A c \in Class : Registered(c) => globals'[classes[c].name] = c
    <3> TAKE c \in Class
    <3> HAVE Registered(c)
    <3>1. classes[c].name \in ClassNames /\ c # Null
      BY SuperBelow DEF SoundInv, Class, Null
    <3> QED BY <2>3, <2>8, <3>1 DEF Registered
  <2>10. ASSUME NEW c \in Class, globals'[classes[c].name] = c, classes[c].super # 0
         PROVE  globals'[classes[classes[c].super].name] = classes[c].super
    <3>1. classes[c].name \in ClassNames /\ classes[c].super \in Class
      BY <2>10, SuperBelow DEF SoundInv, Class
    <3>2. CASE c = result
      BY <2>7, <2>9, <3>1, <3>2
    <3>3. CASE c # result
      <4>1. Registered(c)
        BY <2>8, <2>10, <3>1, <3>3 DEF Registered
      <4>2. Registered(classes[c].super)
        BY <2>10, <4>1 DEF UpInv, TableInv, ResolvedUpward
      <4> QED BY <2>9, <3>1, <4>2
    <3> QED BY <3>2, <3>3
  <2>11. ResolvedUpward'
    BY <1>3, <2>10 DEF ResolvedUpward, Registered, Class
  <2>12. Ready' /\ core' = core
    BY <1>2, <1>3 DEF Ready, bootVars
  <2>13. SystemsKept'
    BY <1>2, <2>3, <2>8, <2>12, TakenNames, NamesOfClasses DEF UpInv, TableInv, SystemsKept
  <2>14. Early' /\ CoreBelowSystem'
    BY <1>3, <2>12 DEF Early, UpInv, TableInv, CoreBelowSystem
  <2>15. NoOther'
    BY <2>1, <2>8 DEF UpInv, TableInv, NoOther, Other, Class
  <2>16. CoreKept'
    BY <1>2, <1>5, <2>8, NamesOfClasses DEF UpInv, TableInv, CoreKept
  <2> QED BY <1>3, <2>11, <2>13, <2>14, <2>15, <2>16, UpEmptyStep DEF TableInv
<1> QED BY <1>4, <1>5

\* Two classes made from files, with one name, have superclasses of one name.
LEMMA SameNameSameSuper ==
  ASSUME SoundInv, NEW i, NEW j, Exact(disk, classes, i), Exact(disk, classes, j),
         classes[i].name = classes[j].name
  PROVE  classes[classes[i].super].name = classes[classes[j].super].name
<1>1. PICK f \in disk : /\ f.file = classes[i].name /\ f.class = classes[i].name
                        /\ f.super = classes[classes[i].super].name
                        /\ \A h \in disk : h.file = f.file /\ h.class = f.file => f.path <= h.path
  BY DEF Exact
<1>2. PICK g \in disk : /\ g.file = classes[j].name /\ g.class = classes[j].name
                        /\ g.super = classes[classes[j].super].name
                        /\ \A h \in disk : h.file = g.file /\ h.class = g.file => g.path <= h.path
  BY DEF Exact
<1>3. f.path \in Nat /\ g.path \in Nat
  BY FilePaths DEF SoundInv, DiskOk
<1>4. f.path = g.path
  BY <1>1, <1>2, <1>3
<1>5. f = g
  BY <1>1, <1>2, <1>4 DEF SoundInv, DiskOk
<1> QED BY <1>1, <1>2, <1>5

(* The classes that resolve: registers have different names: along two of  *)
(* one name the superclasses would pair off forever, but every class has   *)
(* its superclass below it.                                                *)
LEMMA NewNamesDiffer ==
  ASSUME SoundInv, NEW c \in 0 .. Len(classes), NEW i0 \in Unregistered(c),
         NEW j0 \in Unregistered(c), classes[i0].name = classes[j0].name,
         \A k \in Unregistered(c) : Exact(disk, classes, k)
  PROVE  i0 = j0
<1> DEFINE U == Unregistered(c)
           Bad == {i \in U : \E j \in U : i < j /\ classes[i].name = classes[j].name}
<1>1. /\ U \subseteq Class
      /\ \A k \in U : globals[classes[k].name] = Null
      /\ \A k \in U : \/ classes[k].super = 0
                      \/ classes[k].super \in U
                      \/ globals[classes[classes[k].super].name] # Null
      /\ \A i, j \in U : i < j => classes[j].super \in U /\ i <= classes[j].super
  BY UnregisteredIs DEF SoundInv
<1> HIDE DEF U
<1>2. U \subseteq Nat
  BY <1>1 DEF Class
<1>3. Bad = {}
  <2> SUFFICES ASSUME Bad # {}
               PROVE  FALSE
    OBVIOUS
  <2>1. PICK i \in Bad : \A y \in Bad : i <= y
    <3>1. Bad \subseteq Nat
      BY <1>2
    <3> HIDE DEF Bad
    <3> QED BY <3>1, Least
  <2>2. PICK j \in U : i < j /\ classes[i].name = classes[j].name
    BY <2>1
  <2>3. i \in U /\ Exact(disk, classes, i) /\ Exact(disk, classes, j)
    BY <2>1 DEF U
  <2> DEFINE p == classes[i].super
             q == classes[j].super
  <2>4. classes[p].name = classes[q].name
    BY <2>2, <2>3, SameNameSameSuper
  <2>5. q \in U /\ i <= q
    BY <1>1, <2>2, <2>3
  <2>6. p \in 1 .. i - 1
    BY <2>3 DEF Exact
  <2>7. p \in U
    <3>1. globals[classes[p].name] = Null
      BY <1>1, <2>4, <2>5
    <3> QED BY <1>1, <2>3, <2>6, <3>1
  <2>8. i \in Nat /\ p \in Nat /\ q \in Nat
    BY <1>2, <2>3, <2>5, <2>7
  <2>9. p < i /\ p < q
    <3> HIDE DEF p, q
    <3> QED BY <2>5, <2>6, <2>8
  <2>10. p \in Bad
    BY <2>4, <2>5, <2>7, <2>9
  <2>11. i <= p
    BY <2>1, <2>10
  <2> HIDE DEF p
  <2> QED BY <2>8, <2>9, <2>11
<1>4. i0 \in U /\ j0 \in U
  BY DEF U
<1> QED BY <1>2, <1>3, <1>4

LEMMA UpResolveEnd ==
  ASSUME SoundInv, UpInv, Separate, resolveEnd
  PROVE  UpInv'
<1> DEFINE U == Unregistered(result)
<1>1. /\ calls # <<>> /\ calls[1].fn = "resolveEnd" /\ Tail(calls) = <<>> /\ Bottom(calls[1])
  BY StarterAlone DEF resolveEnd, Starters
<1>2. calls' = <<>> /\ UNCHANGED <<disk, classes, result, bootVars>>
  BY <1>1 DEF resolveEnd
<1>3. Ready /\ Ready' /\ core' = core
  BY <1>1, <1>2 DEF Bottom, Ready, bootVars
<1>4. /\ result \in 0 .. Len(classes)
      /\ result # Null => Sound(disk, classes, result)
  BY <1>1 DEF SoundInv, ResultOk, Awaits, SoundAs, Class, Null, ClassesOk
<1>5. PICK S \in SUBSET Class :
        /\ Clean(globals, classes, S)
        /\ result # Null => result \in S
  <2>1. CASE result = Null
    <3>1. Clean(globals, classes, {})
      BY DEF Clean
    <3> QED BY <2>1, <3>1
  <2>2. CASE result # Null
    BY <1>1, <2>2 DEF UpInv, ResultClean, Awaits
  <2> QED BY <2>1, <2>2
<1>6. /\ U \subseteq Class
      /\ \A k \in U : globals[classes[k].name] = Null
      /\ \A k \in U : \/ classes[k].super = 0
                      \/ classes[k].super \in U
                      \/ globals[classes[classes[k].super].name] # Null
  BY <1>4, UnregisteredIs DEF SoundInv
<1>7. \A k \in U : k \in S /\ Sound(disk, classes, k)
  <2> DEFINE T == {k \in S : Sound(disk, classes, k)}
  <2>1. CASE result = Null
    <3>1. U = {}
      BY <1>4, <2>1, UnregisteredIs DEF Null, SoundInv
    <3> QED BY <3>1
  <2>2. CASE result # Null
    <3>1. result \in T
      BY <1>4, <1>5, <2>2
    <3>2. \A k \in T : k # 0 /\ classes[k].super # 0 => classes[k].super \in T
      BY <1>5 DEF Clean, SoundInv, ClassesOk
    <3>3. U \subseteq T
      <4> HIDE DEF T
      <4> QED BY <1>4, <3>1, <3>2, UnregisteredIs DEF SoundInv
    <3> QED BY <3>3
  <2> QED BY <2>1, <2>2
<1>8. \A k \in U : Exact(disk, classes, k)
  <2> TAKE k \in U
  <2>1. k \notin Systems
    BY <1>6, TakenNames DEF SoundInv, ClassesOk
  <2> QED BY <1>7, <2>1 DEF Sound
<1>9. \A i, j \in U : classes[i].name = classes[j].name => i = j
  BY <1>4, <1>8, NewNamesDiffer
<1>10. ASSUME NEW n \in ClassNames
       PROVE  \/ \E k \in U : classes[k].name = n /\ globals'[n] = k
              \/ /\ \A k \in U : classes[k].name # n
                 /\ globals'[n] = globals[n]
  BY NamesOfClasses, ResolvedGlobals
<1> HIDE DEF U
<1>11. \A n \in ClassNames : globals[n] # Null => globals'[n] = globals[n]
  BY <1>6, <1>10
<1>12. \A k \in U : globals'[classes[k].name] = k
  <2> TAKE k \in U
  <2>1. classes[k].name \in ClassNames
    BY <1>6, SuperBelow DEF SoundInv
  <2> QED BY <1>9, <1>10, <2>1
<1>13. ASSUME NEW c \in Class, globals'[classes[c].name] = c, classes[c].super # 0
       PROVE  globals'[classes[classes[c].super].name] = classes[c].super
  <2> DEFINE s == classes[c].super
  <2>1. classes[c].name \in ClassNames /\ s \in Class /\ classes[s].name \in ClassNames
    <3>1. classes[c].name \in ClassNames /\ s \in Class
      BY <1>13, SuperBelow DEF SoundInv, Class
    <3> QED BY <3>1, SuperBelow DEF SoundInv
  <2>2. s # Null
    BY <2>1 DEF Class, Null
  <2>3. CASE c \in U
    <3>1. CASE s \in U
      BY <1>12, <3>1
    <3>2. CASE s \notin U
      <4>1. globals[classes[s].name] # Null
        BY <1>6, <1>13, <2>3, <3>2
      <4>2. s \in S
        BY <1>5, <1>7, <1>13, <2>3 DEF Clean
      <4>3. globals[classes[s].name] = s
        BY <1>5, <4>1, <4>2 DEF Clean
      <4> QED BY <1>11, <2>1, <4>1, <4>3
    <3> QED BY <3>1, <3>2
  <2>4. CASE c \notin U
    <3>1. Registered(c)
      BY <1>10, <1>13, <2>1, <2>4 DEF Registered
    <3>2. Registered(s)
      BY <1>13, <3>1 DEF UpInv, TableInv, ResolvedUpward
    <3> QED BY <1>11, <2>1, <2>2, <3>2 DEF Registered
  <2> QED BY <2>3, <2>4
<1>14. ResolvedUpward'
  BY <1>2, <1>13 DEF ResolvedUpward, Registered, Class
<1>15. SystemsKept'
  BY <1>3, <1>11, TakenNames, NamesOfClasses DEF UpInv, TableInv, SystemsKept
<1>16. Early' /\ CoreBelowSystem'
  BY <1>2, <1>3 DEF Early, UpInv, TableInv, CoreBelowSystem
<1>17. NoOther'
  <2> SUFFICES ASSUME NEW n \in ClassNames \ {"Frame"}
               PROVE  globals'[n] # Other
    BY DEF NoOther
  <2>1. \A k \in U : k # Other
    BY <1>6 DEF Other, Class
  <2> QED BY <1>10, <2>1 DEF UpInv, TableInv, NoOther
<1>18. CoreKept'
  BY <1>3, <1>11, NamesOfClasses DEF UpInv, TableInv, CoreKept
<1> QED BY <1>2, <1>14, <1>15, <1>16, <1>17, <1>18, UpEmptyStep DEF TableInv

-----------------------------------------------------------------------------
LEMMA UpInit ==
  ASSUME Init, Separate
  PROVE  UpInv
<1>0. SoundInv
  BY SoundInit
<1>1. calls = <<>> /\ booted = 0 /\ core = <<>> /\ Len(classes) = Len(SystemClass)
  <2>1. Len(SystemClass) \in Nat
    BY NamesOfClasses
  <2>2. classes = [i \in 1 .. Len(SystemClass) |->
                    [name |-> SystemClass[i], super |-> SystemSuper[i], path |-> 0]]
    BY DEF Init
  <2>3. Len(classes) = Len(SystemClass)
    BY <2>1, <2>2
  <2> QED BY <2>3 DEF Init
<1>2. Class = Systems /\ ~Ready
  BY <1>1, NamesOfClasses DEF Class, Systems, Ready
<1>3. \A n \in Name : globals[n] = IF \E i \in DOMAIN SystemClass : SystemClass[i] = n
                                   THEN CHOOSE i \in DOMAIN SystemClass : SystemClass[i] = n
                                   ELSE Null
  BY DEF Init
<1>4. DOMAIN SystemClass = Systems
  BY LoaderAssumption DEF Systems
<1>5. ASSUME NEW i \in Systems
      PROVE  globals[SystemClass[i]] = i
  <2> DEFINE Is(j) == SystemClass[j] = SystemClass[i]
             k == CHOOSE j \in DOMAIN SystemClass : Is(j)
  <2>1. Is(i) /\ i \in DOMAIN SystemClass /\ SystemClass[i] \in Name
    BY <1>4, NamesOfClasses
  <2>2. k \in DOMAIN SystemClass /\ Is(k)
    BY <2>1, Zenon
  <2>3. globals[SystemClass[i]] = k
    BY <1>3, <2>1
  <2>4. k = i
    <3> HIDE DEF k
    <3> QED BY <1>4, <2>2 DEF Separate
  <2> QED BY <2>3, <2>4
<1>6. ASSUME NEW n \in ClassNames
      PROVE  globals[n] \in {Null} \cup Systems
  <2>1. CASE \E i \in DOMAIN SystemClass : SystemClass[i] = n
    BY <1>4, <1>5, <2>1
  <2>2. CASE ~ \E i \in DOMAIN SystemClass : SystemClass[i] = n
    BY <1>3, <2>2, NamesOfClasses
  <2> QED BY <2>1, <2>2
<1>7. SystemsKept
  BY <1>2, <1>5 DEF SystemsKept
<1>8. ResolvedUpward
  <2> SUFFICES ASSUME NEW c \in Systems, classes[c].super # 0
               PROVE  Registered(classes[c].super)
    BY <1>2 DEF ResolvedUpward
  <2>1. classes[c].super \in Systems
    BY <1>0, <1>2, SuperBelow DEF SoundInv, Class
  <2>2. classes[classes[c].super].name = SystemClass[classes[c].super]
    BY <1>0, <2>1 DEF SoundInv, ClassesOk
  <2> QED BY <1>5, <2>1, <2>2 DEF Registered
<1>9. NoOther
  BY <1>6, NamesOfClasses DEF NoOther, Systems, Null, Other
<1>10. Early /\ CoreKept /\ CoreBelowSystem
  BY <1>1, <1>2, <1>6 DEF Early, CoreKept, CoreBelowSystem
<1>11. Loading /\ ResultClean
  BY <1>1 DEF Loading, ResultClean, Frames
<1> QED BY <1>7, <1>8, <1>9, <1>10, <1>11 DEF UpInv, TableInv

LEMMA UpInvKept ==
  ASSUME SoundInv, UpInv, Separate, [Next]_vars
  PROVE  UpInv'
<1>1. CASE UNCHANGED <<globals, classes, calls, result, bootVars>>
  <2>1. LoadsNew
    BY <1>1 DEF LoadsNew
  <2>2. ResultClean'
    BY <1>1 DEF UpInv, ResultClean, Class
  <2> QED BY <1>1, <2>1, <2>2, UpCallStep
<1>2. CASE Done \/ UNCHANGED vars \/ Overflow \/ AssembleCrash
  BY <1>1, <1>2 DEF Done, vars, Overflow, AssembleCrash, bootVars
<1>3. CASE \/ LoadSystemClass \/ LoadCoreClass
           \/ \E n \in UserClass : resolve(n) \/ Load_(n)
           \/ \E n \in BlockClass : GetBlockClassWithArgs(n)
  BY <1>3, UpStarts
<1>4. CASE \/ LoadSystemClassEnd \/ LoadCoreClassEnd \/ initialize
           \/ \E f \in Statements : CompileClassString(f)
           \/ GetBlockClassWithArgsEnd \/ resolveEnd
  BY <1>4, UpLoadSystemClassEnd, UpLoadCoreClassEnd, UpInitialize, UpCompileClassString,
     UpGetBlockClassWithArgsEnd, UpResolveEnd
<1>5. CASE LoadClassGlobal \/ LoadClass \/ LoadClassEnd \/ LoadClassBasicNext
             \/ LoadClassBasicFails
  BY <1>5, UpLoadClassGlobal, UpLoadClass, UpLoadClassEnd, UpLoadClassBasic
<1>6. CASE CompileClass \/ CompileSystemClass \/ Assemble \/ AssembleMismatch
  BY <1>6, UpCompileClass, UpCompileSystemClass, UpAssemble, UpAssembleMismatch
<1> QED BY <1>2, <1>3, <1>4, <1>5, <1>6 DEF Next

(* A class that is a global has its superclass registered, and so all its  *)
(* ancestors, through any sequence of loads and resolves, failed, doubled, *)
(* and abandoned ones among them, and through the shell's statements.  So  *)
(* resolve: may stop at the first ancestor that has a global, and no class *)
(* gets a second copy of an ancestor.  Class names must not be selectors   *)
(* or NewClass, which the root table shares with them, and the core and    *)
(* block classes must inherit from classes of the start-up, as those of    *)
(* the library do.                                                         *)
THEOREM AncestorsAreRegistered ==
  ASSUME Separate
  PROVE  Spec => []ResolvedUpward
<1> DEFINE Inv == SoundInv /\ UpInv
<1>1. Init => Inv
  BY SoundInit, UpInit
<1>2. Inv /\ [Next]_vars => Inv'
  <2> SUFFICES ASSUME SoundInv, UpInv, [Next]_vars
               PROVE  SoundInv' /\ UpInv'
    OBVIOUS
  <2>1. NewClassReserved
    BY DEF Separate
  <2> QED BY <2>1, SoundInvKept, UpInvKept
<1>3. Inv => ResolvedUpward
  BY DEF UpInv, TableInv
<1> QED BY <1>1, <1>2, <1>3, PTL DEF Spec

\* The class path never changes, and only Overflow overflows.
LEMMA DiskStays ==
  ASSUME [Next]_vars
  PROVE  disk' = disk
BY DEF Next, vars, LoadSystemClass, LoadSystemClassEnd, LoadCoreClass, LoadCoreClassEnd,
       initialize, resolve, Load_, GetBlockClassWithArgs, CompileClassString,
       GetBlockClassWithArgsEnd, resolveEnd, Overflow, LoadClassGlobal, LoadClass,
       LoadClassEnd, LoadClassBasicNext, LoadClassBasicFails, CompileClass,
       CompileSystemClass, AssembleCrash, Assemble, AssembleMismatch, Done

LEMMA OnlyOverflow ==
  ASSUME [Next]_vars, status' = "overflow"
  PROVE  status = "overflow" \/ Overflow
BY DEF Next, vars, LoadSystemClass, LoadSystemClassEnd, LoadCoreClass, LoadCoreClassEnd,
       initialize, resolve, Load_, GetBlockClassWithArgs, CompileClassString,
       GetBlockClassWithArgsEnd, resolveEnd, LoadClassGlobal, LoadClass,
       LoadClassEnd, LoadClassBasicNext, LoadClassBasicFails, CompileClass,
       CompileSystemClass, AssembleCrash, Assemble, AssembleMismatch, Done

-----------------------------------------------------------------------------
(***************************************************************************)
(* Loading ends.  Each nested load is of a superclass of the one below it, *)
(* and takes three calls.                                                  *)
(***************************************************************************)
\* At a nested LoadClass the calls below repeat: three for each class.
Level(k) ==
  /\ calls[3 * k + 1].fn \in {"LoadClass", "LoadClassEnd"}
  /\ 3 * k + 3 <= Len(calls) =>
       /\ calls[3 * k + 2].fn = "Assemble" /\ calls[3 * k + 3].fn = "LoadClassBasic"
       /\ calls[3 * k + 2].file \in disk
       /\ calls[3 * k + 2].file.file = calls[3 * k + 3].name
       /\ calls[3 * k + 2].file.super = calls[3 * k + 1].name
       /\ calls[3 * k + 3].system = Null

LEMMA LevelDown ==
  ASSUME SoundInv, NEW k \in Nat, 3 * k + 3 <= Len(calls),
         calls[3 * k + 1].fn \in {"LoadClass", "LoadClassEnd"}
  PROVE  Level(k)
<1>1. Len(calls) \in Nat /\ \A i \in 1 .. Len(calls) : i < Len(calls) => Above(calls[i], calls[i + 1])
  BY DEF SoundInv, Stack
<1> DEFINE i == 3 * k + 1
<1>2. /\ i \in 1 .. Len(calls) /\ i < Len(calls)
      /\ i + 1 \in 1 .. Len(calls) /\ i + 1 < Len(calls)
      /\ i + 1 = 3 * k + 2 /\ (i + 1) + 1 = 3 * k + 3
  BY <1>1
<1>3. calls[3 * k + 1].fn = calls[i].fn /\ calls[3 * k + 1].name = calls[i].name
  OBVIOUS
<1> HIDE DEF i
<1>4. Above(calls[i], calls[3 * k + 2])
  BY <1>1, <1>2
<1>5. Above(calls[3 * k + 2], calls[3 * k + 3])
  BY <1>1, <1>2
<1>6. calls[3 * k + 2].fn = "Assemble" /\ calls[3 * k + 2].file.super = calls[i].name
  BY <1>3, <1>4, <1>5 DEF Above, Starters
<1>7. /\ calls[3 * k + 3].fn = "LoadClassBasic" /\ calls[3 * k + 3].name = calls[3 * k + 2].name
      /\ calls[3 * k + 3].system = Null
      /\ calls[3 * k + 2].file \in disk /\ calls[3 * k + 2].file.file = calls[3 * k + 2].name
  BY <1>5, <1>6 DEF Above
<1> QED BY <1>3, <1>6, <1>7 DEF Level

\* From one level to the next.
LEMMA LevelNext ==
  ASSUME SoundInv, NEW k \in Nat, Level(k), 3 * k + 4 < Len(calls)
  PROVE  /\ calls[3 * k + 4].fn = "LoadClassEnd"
         /\ calls[3 * k + 4].name = calls[3 * k + 3].name
<1>1. Len(calls) \in Nat /\ \A i \in 1 .. Len(calls) : i < Len(calls) => Above(calls[i], calls[i + 1])
  BY DEF SoundInv, Stack
<1> DEFINE i == 3 * k + 3
<1>2. /\ i \in 1 .. Len(calls) /\ i < Len(calls) /\ i + 1 = 3 * k + 4
      /\ 3 * k + 4 \in 1 .. Len(calls) /\ 3 * k + 4 < Len(calls)
  BY <1>1
<1>3. calls[i].fn = "LoadClassBasic" /\ calls[i].system = Null /\ calls[i].name = calls[3 * k + 3].name
  BY <1>1 DEF Level
<1> HIDE DEF i
<1>4. Above(calls[i], calls[3 * k + 4])
  BY <1>1, <1>2
<1>5. Above(calls[3 * k + 4], calls[(3 * k + 4) + 1])
  BY <1>1, <1>2
<1> QED BY <1>3, <1>4, <1>5 DEF Above, Starters

LEMMA Levels ==
  ASSUME SoundInv, Running("LoadClass"), NEW k \in Nat, 3 * k + 3 <= Len(calls)
  PROVE  /\ Level(k)
         /\ k # 0 => calls[3 * k + 1].name = calls[3 * k].name
<1>0. Len(calls) \in Nat
  BY DEF SoundInv
<1> DEFINE Holds(j) == /\ Level(j)
                       /\ j # 0 => calls[3 * j + 1].name = calls[3 * j].name
           Bad == {j \in Nat : 3 * j + 3 <= Len(calls) /\ ~Holds(j)}
<1>1. Bad = {}
  <2> SUFFICES ASSUME Bad # {}
               PROVE  FALSE
    OBVIOUS
  <2>1. PICK m \in Bad : \A y \in Bad : m <= y
    <3>1. Bad \subseteq Nat
      OBVIOUS
    <3> HIDE DEF Bad
    <3> QED BY <3>1, Least
  <2>2. m \in Nat /\ 3 * m + 3 <= Len(calls) /\ ~Holds(m)
    BY <2>1
  <2>3. CASE m = 0
    <3>1. calls[3 * 0 + 1].fn = "LoadClass"
      BY DEF Running
    <3>2. Level(0)
      BY <2>2, <2>3, <3>1, LevelDown
    <3> QED BY <2>2, <2>3, <3>2
  <2>4. CASE m # 0
    <3> DEFINE l == m - 1
    <3>1. l \in Nat /\ 3 * l + 3 <= Len(calls) /\ l < m /\ l \notin Bad
      <4>1. l \in Nat /\ 3 * l + 3 <= Len(calls) /\ l < m /\ ~(m <= l)
        BY <1>0, <2>2, <2>4
      <4>2. l \notin Bad
        <5> HIDE DEF l, Bad
        <5> QED BY <2>1, <4>1
      <4> HIDE DEF l, Bad
      <4> QED BY <4>1, <4>2
    <3>2. Level(l)
      BY <3>1
    <3>3. 3 * l + 4 < Len(calls)
      BY <1>0, <2>2, <2>4
    <3>4. 3 * l + 4 = 3 * m + 1 /\ 3 * l + 3 = 3 * m
      BY <2>2
    <3> HIDE DEF l
    <3>5. /\ calls[3 * m + 1].fn = "LoadClassEnd"
          /\ calls[3 * m + 1].name = calls[3 * m].name
      BY <3>1, <3>2, <3>3, <3>4, LevelNext
    <3>6. Level(m)
      BY <2>2, <3>5, LevelDown
    <3> QED BY <2>2, <3>5, <3>6
  <2> QED BY <2>3, <2>4
<1> QED BY <1>1

\* The class that level k loads has a file, and is no system class.
LEMMA LevelName ==
  ASSUME SoundInv, UpInv, Running("LoadClass"), NEW k \in Nat, 3 * k + 3 <= Len(calls)
  PROVE  calls[3 * k + 3].name \in
           {f.file : f \in disk} \ {SystemClass[i] : i \in DOMAIN SystemClass}
<1> DEFINE b == calls[3 * k + 3]
           n == b.name
<1>0. Len(calls) \in Nat /\ 3 * k + 3 \in 1 .. Len(calls)
  BY DEF SoundInv
<1>1. /\ b.fn = "LoadClassBasic" /\ b.system = Null
      /\ calls[3 * k + 2].file \in disk /\ calls[3 * k + 2].file.file = n
  BY Levels DEF Level
<1>2. globals[n] = Null
  <2>1. /\ 3 * k + 3 < Len(calls) => Above(b, calls[(3 * k + 3) + 1])
        /\ 3 * k + 3 = Len(calls) => Bottom(b)
    BY <1>0 DEF SoundInv, Stack
  <2>2. 3 * k + 3 < Len(calls)
    BY <1>0, <1>1, <2>1 DEF Bottom
  <2> DEFINE d == calls[(3 * k + 3) + 1]
  <2>3. d \in Frames(calls)
    <3>1. (3 * k + 3) + 1 \in 1 .. Len(calls)
      BY <1>0, <2>2
    <3> QED BY <3>1 DEF Frames
  <2>4. Loads(d) /\ d.name = n
    <3>1. Above(b, d)
      BY <2>1, <2>2
    <3> HIDE DEF d, b
    <3> QED BY <1>1, <3>1 DEF Above, Loads
  <2> QED BY <2>3, <2>4 DEF UpInv, Loading
<1>3. DOMAIN SystemClass = Systems
  BY LoaderAssumption DEF Systems
<1>4. n \in {f.file : f \in disk}
  BY <1>1
<1> HIDE DEF n
<1>5. \A i \in Systems : SystemClass[i] # n
  BY <1>2, TakenNames
<1>6. n \in {f.file : f \in disk} \ {SystemClass[i] : i \in DOMAIN SystemClass}
  BY <1>3, <1>4, <1>5
<1> QED BY <1>6 DEF n, b

LEMMA FilesFinite ==
  ASSUME IsFiniteSet(Files)
  PROVE  IsFiniteSet({f.file : f \in Files})
<1> DEFINE T == {f.file : f \in Files}
           g == [f \in Files |-> f.file]
<1>1. g \in Surjection(Files, T)
  BY DEF Surjection
<1> HIDE DEF T, g
<1>2. IsFiniteSet(T)
  BY <1>1, FS_Surjection
<1> QED BY <1>2 DEF T

LEMMA NoOverflow ==
  ASSUME SoundInv, UpInv, RoomForFiles, Acyclic, Overflow
  PROVE  FALSE
<1> DEFINE N == Cardinality(FileNames)
           name == [k \in 0 .. N |-> calls[3 * k + 3].name]
           Names == {f.file : f \in disk} \ {SystemClass[i] : i \in DOMAIN SystemClass}
<1>1. IsFiniteSet(FileNames) /\ N \in Nat
  <2>1. IsFiniteSet({f.file : f \in Files})
    BY FilesFinite DEF RoomForFiles
  <2>2. IsFiniteSet(FileNames)
    BY <2>1, FS_Subset DEF FileNames
  <2> QED BY <2>2, FS_CardinalityType
<1>2. Len(calls) \in Nat /\ 3 * N + 3 <= Len(calls) /\ Running("LoadClass")
  BY <1>1, LoaderAssumption DEF SoundInv, RoomForFiles, Overflow
<1> HIDE DEF N
<1>3. ASSUME NEW k \in 0 .. N
      PROVE  k \in Nat /\ 3 * k + 3 <= Len(calls)
  BY <1>1, <1>2
<1>4. ASSUME NEW k \in 0 .. N
      PROVE  name[k] \in Names /\ name[k] \in FileNames
  <2>1. name[k] \in Names
    BY <1>2, <1>3, LevelName
  <2>2. Names \subseteq FileNames
    BY LoaderAssumption DEF FileNames, SoundInv, DiskOk, Systems
  <2> QED BY <2>1, <2>2
<1>5. \E x, y \in 0 .. N : x # y /\ name[x] = name[y]
  <2>1. IsFiniteSet(0 .. N) /\ Cardinality(0 .. N) = N + 1
    BY <1>1, FS_Interval
  <2>2. name \in [0 .. N -> FileNames]
    BY <1>4
  <2> HIDE DEF name
  <2> QED BY <1>1, <2>1, <2>2, FS_PigeonHole DEF N
<1>6. PICK a, b \in 0 .. N : a < b /\ name[a] = name[b]
  BY <1>1, <1>5
<1> DEFINE S == {name[k] : k \in a + 1 .. b}
<1>7. S \subseteq Names /\ S # {} /\ name[b] \in S
  <2>1. b \in a + 1 .. b /\ a + 1 .. b \subseteq 0 .. N
    BY <1>1, <1>6
  <2> QED BY <1>4, <2>1
<1>8. ASSUME NEW n \in S
      PROVE  \E f \in disk : f.file = n /\ f.super \in S
  <2>1. PICK k \in a + 1 .. b : n = name[k]
    OBVIOUS
  <2>2. k \in 0 .. N /\ k - 1 \in 0 .. N /\ k # 0 /\ 3 * (k - 1) + 3 = 3 * k
    BY <1>1, <1>6
  <2> DEFINE f == calls[3 * k + 2].file
  <2>3. f \in disk /\ f.file = calls[3 * k + 3].name /\ f.super = calls[3 * k].name
    BY <1>2, <1>3, <2>2, Levels DEF Level
  <2>4. name[k] = calls[3 * k + 3].name /\ name[k - 1] = calls[3 * k].name
    BY <2>2
  <2>5. name[k - 1] \in S
    <3>1. CASE k = a + 1
      BY <1>1, <1>6, <1>7, <3>1
    <3>2. CASE k # a + 1
      <4>1. k - 1 \in a + 1 .. b
        BY <1>1, <1>6, <3>2
      <4> QED BY <4>1
    <3> QED BY <3>1, <3>2
  <2> HIDE DEF f, S, name
  <2> QED BY <2>1, <2>3, <2>4, <2>5
<1> HIDE DEF S
<1>9. S \in (SUBSET Names) \ {{}}
  BY <1>7
<1>10. \E n \in S : \A f \in disk : f.file = n => f.super \notin S
  BY <1>9 DEF Acyclic
<1> QED BY <1>8, <1>10

(* When no class on disk is its own ancestor, loading never nests deeper   *)
(* than three calls for every class with a file, whichever superclasses    *)
(* are missing, misnamed or already loaded: LoadClass recurs only through  *)
(* files that inherit from each other, and stops at the first global.      *)
THEOREM AcyclicLoadsFit ==
  ASSUME Separate, RoomForFiles
  PROVE  Spec => []AcyclicLoadsEnd
<1> DEFINE Inv == SoundInv /\ UpInv /\ AcyclicLoadsEnd
<1>1. Init => Inv
  BY SoundInit, UpInit DEF Init, AcyclicLoadsEnd
<1>2. Inv /\ [Next]_vars => Inv'
  <2> SUFFICES ASSUME SoundInv, UpInv, AcyclicLoadsEnd, [Next]_vars
               PROVE  SoundInv' /\ UpInv' /\ AcyclicLoadsEnd'
    OBVIOUS
  <2>1. SoundInv' /\ UpInv'
    BY SoundInvKept, UpInvKept DEF Separate
  <2>2. disk' = disk
    BY DiskStays
  <2>3. Acyclic' = Acyclic
    BY <2>2 DEF Acyclic
  <2>4. status' = "overflow" => status = "overflow" \/ Overflow
    BY OnlyOverflow
  <2>5. Acyclic => ~Overflow
    BY NoOverflow
  <2> QED BY <2>1, <2>3, <2>4, <2>5 DEF AcyclicLoadsEnd
<1>3. Inv => AcyclicLoadsEnd
  OBVIOUS
<1> QED BY <1>1, <1>2, <1>3, PTL DEF Spec
=============================================================================
