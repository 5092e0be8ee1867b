--------------------------- MODULE GeneratorProofs ---------------------------
(***************************************************************************)
(* What Generator guarantees for any proto files, any number of runs and   *)
(* of runs that die, and any edits. What a run has still to do is a        *)
(* sequence, but the argument needs only what occurs in it: a file of the  *)
(* service is right or is still to be written, an interface is there or is *)
(* still to be looked at.                                                  *)
(***************************************************************************)
EXTENDS Generator, TLAPS

Items == [file : File, from : FileContents]
Elements(s) == { s[k] : k \in DOMAIN s }

LEMMA ElementsOfJoin ==
  ASSUME NEW S, NEW s \in Seq(S), NEW t \in Seq(S)
  PROVE  s \o t \in Seq(S) /\ Elements(s \o t) = Elements(s) \cup Elements(t)
<1>1. \A k \in DOMAIN s : k \in DOMAIN (s \o t) /\ (s \o t)[k] = s[k]
  OBVIOUS
<1>2. \A k \in DOMAIN t : Len(s) + k \in DOMAIN (s \o t) /\ (s \o t)[Len(s) + k] = t[k]
  OBVIOUS
<1>3. \A k \in DOMAIN (s \o t) :
        \/ k \in DOMAIN s /\ (s \o t)[k] = s[k]
        \/ k - Len(s) \in DOMAIN t /\ (s \o t)[k] = t[k - Len(s)]
  OBVIOUS
<1>4. Elements(s \o t) \subseteq Elements(s) \cup Elements(t)
  BY <1>3 DEF Elements
<1>5. Elements(s) \cup Elements(t) \subseteq Elements(s \o t)
  BY <1>1, <1>2 DEF Elements
<1> QED
  BY <1>4, <1>5

LEMMA ElementsOfTail ==
  ASSUME NEW S, NEW s \in Seq(S), s # <<>>
  PROVE  /\ Tail(s) \in Seq(S) /\ Head(s) \in Elements(s) /\ Elements(s) \subseteq S
         /\ Elements(Tail(s)) \subseteq Elements(s)
         /\ Elements(s) \subseteq Elements(Tail(s)) \cup {Head(s)}
<1>1. Tail(s) \in Seq(S) /\ Len(Tail(s)) = Len(s) - 1 /\ Len(s) \in Nat \ {0}
  OBVIOUS
<1>2. \A k \in 1 .. Len(s) - 1 : Tail(s)[k] = s[k + 1] /\ k + 1 \in DOMAIN s
  OBVIOUS
<1>3. ASSUME NEW k \in DOMAIN s, k # 1
      PROVE  k - 1 \in 1 .. Len(s) - 1 /\ s[k] = Tail(s)[k - 1]
  <2>1. k - 1 \in 1 .. Len(s) - 1 /\ (k - 1) + 1 = k
    BY <1>1, <1>3
  <2>2. Tail(s)[k - 1] = s[(k - 1) + 1]
    BY <1>2, <2>1, Zenon
  <2> QED
    BY <2>1, <2>2
<1>4. Head(s) = s[1] /\ 1 \in DOMAIN s
  OBVIOUS
<1>5. Elements(s) \subseteq S /\ Head(s) \in Elements(s)
  BY <1>4 DEF Elements
<1>6. Elements(Tail(s)) \subseteq Elements(s)
  BY <1>1, <1>2 DEF Elements
<1>7. Elements(s) \subseteq Elements(Tail(s)) \cup {Head(s)}
  <2>1. ASSUME NEW k \in DOMAIN s, k # 1 PROVE s[k] \in Elements(Tail(s))
    <3>1. DOMAIN Tail(s) = 1 .. Len(s) - 1
      BY <1>1
    <3>2. k - 1 \in DOMAIN Tail(s) /\ s[k] = Tail(s)[k - 1]
      BY <1>3, <2>1, <3>1
    <3> QED
      BY <3>2, Zenon DEF Elements
  <2>2. \A k \in DOMAIN s : s[k] \in Elements(Tail(s)) \cup {Head(s)}
    BY <1>4, <2>1
  <2> QED
    BY <2>2, Zenon DEF Elements
<1> QED
  BY <1>1, <1>5, <1>6, <1>7

-----------------------------------------------------------------------------
IsInterface(f) == f.kind \in { InterfaceKinds[k] : k \in 1 .. 3 }
IsServer(f) == f.kind \in {"server.h", "server.cpp"}

\* What an item of a plan for methods may be: what it holds fits its file.
FitsPlan(item, methods) ==
  /\ IsServer(item.file) => item.from = methods
  /\ IsInterface(item.file) =>
       \E m \in MethodsOf(methods) :
         item.from = << m >> /\ item.file.name = to_underline(m.name)

LEMMA OnceItem ==
  ASSUME NEW kind \in OnceKinds, NEW from \in FileContents, NEW p,
         kind \in {"server.h", "server.cpp"} => from = p
  PROVE  /\ << Item(Once(kind), from) >> \in Seq(Items)
         /\ Elements(<< Item(Once(kind), from) >>) = {Item(Once(kind), from)}
         /\ FitsPlan(Item(Once(kind), from), p)
<1>1. Once(kind) \in File
  BY DEF File
<1>2. Item(Once(kind), from) \in Items
  BY <1>1 DEF Item, Items
<1>3. ~IsInterface(Once(kind))
  BY DEF IsInterface, InterfaceKinds, Once, OnceKinds
<1>4. FitsPlan(Item(Once(kind), from), p)
  BY <1>3 DEF FitsPlan, IsServer, Item, Once
<1> DEFINE item == Item(Once(kind), from)
<1> HIDE DEF item
<1>5. << item >> \in Seq(Items) /\ Elements(<< item >>) = {item}
  BY <1>2 DEF item, Elements
<1> QED
  BY <1>4, <1>5 DEF item

LEMMA InterfaceItems ==
  ASSUME NEW p \in Protos
  PROVE  /\ InterfaceFiles(p) \in Seq(Items)
         /\ \A item \in Elements(InterfaceFiles(p)) : FitsPlan(item, p)
         /\ \A m \in MethodsOf(p), k \in 1 .. 3 :
              \E item \in Elements(InterfaceFiles(p)) :
                item.file = InterfaceFile(InterfaceKinds[k], m)
<1> DEFINE n == Len(p)
           Method(k) == p[((k - 1) \div 3) + 1]
           Kind(k) == ((k - 1) % 3) + 1
<1>1. p \in Seq(Methods) /\ n \in Nat /\ DOMAIN p = 1 .. n
  BY ProtoAssumption
<1>2. ASSUME NEW k \in 1 .. 3 * n
      PROVE  ((k - 1) \div 3) + 1 \in 1 .. n /\ Kind(k) \in 1 .. 3
  BY <1>1
<1>3. ASSUME NEW k \in 1 .. 3 * n
      PROVE  /\ Method(k) \in MethodsOf(p) /\ Method(k) \in Methods
             /\ Kind(k) \in 1 .. 3
             /\ InterfaceFiles(p)[k] =
                  Item(InterfaceFile(InterfaceKinds[Kind(k)], Method(k)), << Method(k) >>)
  <2>1. Method(k) \in MethodsOf(p)
    BY <1>1, <1>2 DEF MethodsOf
  <2>2. Method(k) \in Methods
    BY <2>1 DEF MethodsOf, Methods
  <2> QED
    BY <1>2, <2>1, <2>2 DEF InterfaceFiles
<1>4. ASSUME NEW m \in Methods, NEW k \in 1 .. 3
      PROVE  /\ Item(InterfaceFile(InterfaceKinds[k], m), << m >>) \in Items
             /\ m \in MethodsOf(p) =>
                  FitsPlan(Item(InterfaceFile(InterfaceKinds[k], m), << m >>), p)
  <2>1. InterfaceFile(InterfaceKinds[k], m) \in File /\ << m >> \in FileContents
    BY DEF File, FileContents
  <2>2. ~IsServer(InterfaceFile(InterfaceKinds[k], m))
    BY DEF IsServer, InterfaceFile, InterfaceKinds
  <2>3. InterfaceFile(InterfaceKinds[k], m).name = to_underline(m.name)
    BY DEF InterfaceFile
  <2> HIDE DEF n
  <2> QED
    BY <2>1, <2>2, <2>3 DEF Item, Items, FitsPlan
<1>5. DOMAIN InterfaceFiles(p) = 1 .. 3 * n
  BY DEF InterfaceFiles
<1>6. InterfaceFiles(p) \in Seq(Items)
  <2>1. \A k \in 1 .. 3 * n : InterfaceFiles(p)[k] \in Items
    BY <1>3, <1>4, Zenon
  <2>2. 3 * n \in Nat
    BY <1>1
  <2>3. InterfaceFiles(p) = [k \in 1 .. 3 * n |-> InterfaceFiles(p)[k]]
    BY DEF InterfaceFiles
  <2> HIDE DEF n
  <2> QED
    BY <2>1, <2>2, <2>3
<1>7. \A item \in Elements(InterfaceFiles(p)) : FitsPlan(item, p)
  <2>1. \A k \in 1 .. 3 * n : FitsPlan(InterfaceFiles(p)[k], p)
    BY <1>3, <1>4, Zenon
  <2> QED
    BY <1>5, <2>1 DEF Elements
<1>8. ASSUME NEW m \in MethodsOf(p), NEW k \in 1 .. 3
      PROVE  \E item \in Elements(InterfaceFiles(p)) :
               item.file = InterfaceFile(InterfaceKinds[k], m)
  <2>1. PICK i \in 1 .. n : m = p[i]
    BY <1>1 DEF MethodsOf
  <2> DEFINE j == 3 * (i - 1) + k
  <2>2. j \in 1 .. 3 * n /\ ((j - 1) \div 3) + 1 = i /\ Kind(j) = k
    BY <1>1
  <2> HIDE DEF j
  <2>3. InterfaceFiles(p)[j] = Item(InterfaceFile(InterfaceKinds[k], m), << m >>)
    BY <1>3, <2>1, <2>2
  <2>4. InterfaceFiles(p)[j] \in Elements(InterfaceFiles(p))
    BY <1>5, <2>2 DEF Elements
  <2> QED
    BY <2>3, <2>4 DEF Item
<1> QED
  BY <1>6, <1>7, <1>8

LEMMA PlanFits ==
  ASSUME NEW p \in Protos
  PROVE  /\ Plan(p) \in Seq(Items)
         /\ \A item \in Elements(Plan(p)) : FitsPlan(item, p)
         /\ \A kind \in {"server.h", "server.cpp"} :
              \E item \in Elements(Plan(p)) : item.file = Once(kind)
         /\ \A m \in MethodsOf(p), k \in 1 .. 3 :
              \E item \in Elements(Plan(p)) :
                item.file = InterfaceFile(InterfaceKinds[k], m)
<1> DEFINE Good(s) == s \in Seq(Items) /\ \A item \in Elements(s) : FitsPlan(item, p)
           one(kind) == << Item(Once(kind), <<>>) >>
           serverH   == << Item(Once("server.h"), p) >>
           serverCpp == << Item(Once("server.cpp"), p) >>
<1>1. ASSUME NEW s, NEW t, Good(s), Good(t)
      PROVE  Good(s \o t) /\ Elements(s) \subseteq Elements(s \o t)
                          /\ Elements(t) \subseteq Elements(s \o t)
  <2>1. s \in Seq(Items) /\ t \in Seq(Items)
    BY <1>1
  <2>2. s \o t \in Seq(Items) /\ Elements(s \o t) = Elements(s) \cup Elements(t)
    BY <2>1, ElementsOfJoin
  <2> QED
    BY <1>1, <2>2, Zenon
<1>2. ASSUME NEW kind \in OnceKinds \ {"server.h", "server.cpp"} PROVE Good(one(kind))
  <2>1. <<>> \in FileContents
    BY DEF FileContents
  <2> QED
    BY <2>1, OnceItem
<1>3. /\ Good(serverH) /\ Item(Once("server.h"), p) \in Elements(serverH)
      /\ Good(serverCpp) /\ Item(Once("server.cpp"), p) \in Elements(serverCpp)
  <2>1. p \in FileContents /\ "server.h" \in OnceKinds /\ "server.cpp" \in OnceKinds
    BY DEF FileContents, OnceKinds
  <2> QED
    BY <2>1, OnceItem
<1>4. Good(<<>>)
  BY DEF Elements
<1>5. ServerFiles(p) = serverH \o serverCpp /\ BaseFiles = one("base.h") \o one("base.cpp")
  BY DEF ServerFiles, BaseFiles
<1>6. Good(BuildFile) /\ Good(one("sh")) /\ Good(ConfFile) /\ Good(ExceptionFile)
        /\ Good(MainFile) /\ Good(one("base.h")) /\ Good(one("base.cpp"))
  <2>1. {"makefile", "CMakeLists.txt", "sh", "rocket.xml", "business_exception.h",
         "main.cpp", "base.h", "base.cpp"} \subseteq OnceKinds \ {"server.h", "server.cpp"}
    BY DEF OnceKinds
  <2>2. BuildFile \in {one("makefile"), one("CMakeLists.txt"), <<>>}
    <3>1. CASE build_type = "makefile"
      BY <3>1 DEF BuildFile
    <3>2. CASE build_type # "makefile" /\ build_type = "cmake" /\ InPlace
      BY <3>2 DEF BuildFile
    <3>3. CASE build_type # "makefile" /\ ~(build_type = "cmake" /\ InPlace)
      BY <3>3, Zenon DEF BuildFile
    <3> QED
      BY <3>1, <3>2, <3>3
  <2>3. Good(one("makefile")) /\ Good(one("CMakeLists.txt")) /\ Good(one("sh"))
          /\ Good(one("rocket.xml")) /\ Good(one("business_exception.h"))
          /\ Good(one("main.cpp")) /\ Good(one("base.h")) /\ Good(one("base.cpp"))
    <3> HIDE DEF Good, one
    <3> QED
      BY <1>2, <2>1
  <2>4. ConfFile = one("rocket.xml") /\ ExceptionFile = one("business_exception.h")
          /\ MainFile = one("main.cpp")
    BY DEF ConfFile, ExceptionFile, MainFile
  <2> HIDE DEF Good, one
  <2> QED
    BY <1>4, <2>2, <2>3, <2>4
<1>7. Good(InterfaceFiles(p))
  BY InterfaceItems
<1> HIDE DEF Good, one, serverH, serverCpp
<1> DEFINE s1 == BuildFile \o << Item(Once("sh"), <<>>) >>
           s2 == s1 \o ConfFile
           s3 == s2 \o ExceptionFile
           s4 == s3 \o ServerFiles(p)
           s5 == s4 \o MainFile
           s6 == s5 \o BaseFiles
           s7 == s6 \o InterfaceFiles(p)
<1>8. Good(ServerFiles(p)) /\ Good(BaseFiles)
        /\ Elements(serverH) \subseteq Elements(ServerFiles(p))
        /\ Elements(serverCpp) \subseteq Elements(ServerFiles(p))
  BY <1>1, <1>3, <1>5, <1>6
<1>9. Good(s1)
  BY <1>1, <1>6 DEF one
<1>10. Good(s2)
  <2> HIDE DEF s1
  <2> QED
    BY <1>1, <1>6, <1>9
<1>11. Good(s3)
  <2> HIDE DEF s2
  <2> QED
    BY <1>1, <1>6, <1>10
<1>12. Good(s4) /\ Elements(ServerFiles(p)) \subseteq Elements(s4)
  <2> HIDE DEF s3
  <2> QED
    BY <1>1, <1>8, <1>11
<1>13. Good(s5) /\ Elements(s4) \subseteq Elements(s5)
  <2> HIDE DEF s4
  <2> QED
    BY <1>1, <1>6, <1>12
<1>14. Good(s6) /\ Elements(s5) \subseteq Elements(s6)
  <2> HIDE DEF s5
  <2> QED
    BY <1>1, <1>8, <1>13
<1>15. Good(s7) /\ Elements(s6) \subseteq Elements(s7)
         /\ Elements(InterfaceFiles(p)) \subseteq Elements(s7)
  <2> HIDE DEF s6
  <2> QED
    BY <1>1, <1>7, <1>14
<1>16. Plan(p) = s7
  BY DEF Plan
<1> HIDE DEF s1, s2, s3, s4, s5, s6, s7
<1>17. Item(Once("server.h"), p) \in Elements(s7) /\ Item(Once("server.cpp"), p) \in Elements(s7)
  BY <1>3, <1>8, <1>12, <1>13, <1>14, <1>15
<1>18. \A kind : Item(Once(kind), p).file = Once(kind)
  BY DEF Item
<1>19. \A kind \in {"server.h", "server.cpp"} :
         \E item \in Elements(Plan(p)) : item.file = Once(kind)
  BY <1>16, <1>17, <1>18
<1>20. \A m \in MethodsOf(p), k \in 1 .. 3 :
         \E item \in Elements(Plan(p)) : item.file = InterfaceFile(InterfaceKinds[k], m)
  BY <1>15, <1>16, InterfaceItems
<1> QED
  BY <1>15, <1>16, <1>19, <1>20 DEF Good

-----------------------------------------------------------------------------
\* Between an open and a close the file is empty, and not the user's.
OpenedIsEmpty == opened => files[File1] = Empty
EditedIsWhole == \A f \in File : files[f].edited => files[f].state = "whole"

Kept == GenTypeOK /\ OpenedIsEmpty /\ EditedIsWhole

LEMMA NextItem ==
  ASSUME GenTypeOK, todo # <<>>
  PROVE  /\ Head(todo) \in Items /\ File1 \in File /\ Head(todo).from \in FileContents
         /\ Tail(todo) \in Seq(Items)
         /\ Head(todo) \in Elements(todo)
         /\ Elements(Tail(todo)) \subseteq Elements(todo)
         /\ Elements(todo) \subseteq Elements(Tail(todo)) \cup {Head(todo)}
<1>1. todo \in Seq(Items)
  BY DEF GenTypeOK, Items
<1>2. Head(todo) \in Items
  BY <1>1, ElementsOfTail, Zenon
<1> QED
  BY <1>1, <1>2, ElementsOfTail DEF Items, File1

LEMMA StateTypes ==
  /\ Absent \in States /\ Empty \in States
  /\ \A from \in FileContents : Whole(from) \in States
BY DEF Absent, Empty, Whole, States, FileContents

LEMMA EditType ==
  ASSUME GenTypeOK, NEW f \in File, Edit(f)
  PROVE  /\ files' \in [File -> States]
         /\ files'[f].state = "whole" /\ files'[f].edited
         /\ \A g \in File \ {f} : files'[g] = files[g]
<1>1. files \in [File -> States] /\ files[f] \in States
  BY DEF GenTypeOK
<1>2. [state |-> "whole", from |-> files[f].from, edited |-> TRUE] \in States
  BY <1>1 DEF States
<1>3. files' = [files EXCEPT ![f] = [state |-> "whole", from |-> files[f].from, edited |-> TRUE]]
  BY DEF Edit
<1> QED
  BY <1>1, <1>2, <1>3

LEMMA StepKept ==
  ASSUME Kept, [GenNext]_genVars
  PROVE  Kept'
<1> USE DEF Kept
<1>1. CASE StartRun
  BY <1>1 DEF StartRun, GenTypeOK, OpenedIsEmpty, EditedIsWhole, File1
<1>2. CASE GenerateDir
  BY <1>2 DEF GenerateDir, GenTypeOK, OpenedIsEmpty, EditedIsWhole, File1
<1>3. CASE GeneratePb
  <2>1. Plan(proto) \in Seq(Items) /\ proto \in Protos
    BY PlanFits DEF GenTypeOK
  <2>2. MethodsOf(proto) \subseteq Methods
    BY <2>1 DEF MethodsOf, Methods
  <2>3. opened = FALSE
    BY <1>3 DEF GeneratePb, GenTypeOK
  <2>4. todo' \in Seq([file : File, from : FileContents])
    BY <1>3, <2>1 DEF GeneratePb, Items
  <2> QED
    BY <1>3, <2>1, <2>2, <2>3, <2>4 DEF GeneratePb, GenTypeOK, OpenedIsEmpty, EditedIsWhole
<1>4. CASE Skip
  <2>1. Tail(todo) \in Seq(Items)
    BY <1>4, NextItem DEF Skip
  <2> QED
    BY <1>4, <2>1 DEF Skip, GenTypeOK, OpenedIsEmpty, EditedIsWhole, Items
<1>5. CASE Open
  <2>1. File1 \in File /\ File1' = File1
    BY <1>5, NextItem DEF Open, File1
  <2>2. files' = [files EXCEPT ![File1] = Empty]
    BY <1>5 DEF Open
  <2>3. files' \in [File -> States] /\ files'[File1] = Empty
          /\ \A f \in File \ {File1} : files'[f] = files[f]
    BY <2>1, <2>2, StateTypes DEF GenTypeOK
  <2>4. EditedIsWhole'
    BY <2>3 DEF EditedIsWhole, Empty
  <2> QED
    BY <1>5, <2>1, <2>3, <2>4 DEF Open, GenTypeOK, OpenedIsEmpty
<1>6. CASE WriteFile
  <2>1. File1 \in File /\ Head(todo).from \in FileContents /\ Tail(todo) \in Seq(Items)
    BY <1>6, NextItem DEF WriteFile, GenTypeOK
  <2>2. files' = [files EXCEPT ![File1] = Whole(Head(todo).from)]
    BY <1>6 DEF WriteFile
  <2>3. files' \in [File -> States] /\ files'[File1] = Whole(Head(todo).from)
          /\ \A f \in File \ {File1} : files'[f] = files[f]
    BY <2>1, <2>2, StateTypes DEF GenTypeOK
  <2>4. EditedIsWhole'
    BY <2>3 DEF EditedIsWhole, Whole
  <2> QED
    BY <1>6, <2>1, <2>3, <2>4 DEF WriteFile, GenTypeOK, OpenedIsEmpty, Items
<1>7. CASE CopyFails
  <2>1. Tail(todo) \in Seq(Items)
    BY <1>7, NextItem DEF CopyFails
  <2> QED
    BY <1>7, <2>1 DEF CopyFails, GenTypeOK, OpenedIsEmpty, EditedIsWhole, Items
<1>8. CASE EndRun
  BY <1>8 DEF EndRun, GenTypeOK, OpenedIsEmpty, EditedIsWhole, File1
<1>9. CASE RunDies
  <2>1. /\ gpc' = "idle" /\ build_type' = "" /\ opened' = FALSE
        /\ UNCHANGED << proto, pb, files, dirs, seen >>
    BY <1>9, Zenon DEF RunDies
  <2>2. todo' = <<>> /\ died' \in {died, died + 1}
    BY <1>9, Zenon DEF RunDies
  <2>3. died' \in Nat
    <3>1. died \in Nat
      BY DEF GenTypeOK
    <3> QED
      BY <2>2, <3>1
  <2>4. todo' \in Seq([file : File, from : FileContents])
    BY <2>2
  <2> QED
    BY <2>1, <2>3, <2>4 DEF GenTypeOK, OpenedIsEmpty, EditedIsWhole
<1>10. CASE ChangeProto
  BY <1>10 DEF ChangeProto, GenTypeOK, OpenedIsEmpty, EditedIsWhole, File1
<1>11. ASSUME NEW f \in File, Edit(f) PROVE Kept'
  <2>1. opened = FALSE
    BY <1>11 DEF Edit, GenTypeOK
  <2>2. GenTypeOK'
    BY <1>11, EditType DEF Edit, GenTypeOK
  <2>3. EditedIsWhole'
    BY <1>11, EditType DEF EditedIsWhole
  <2>4. OpenedIsEmpty'
    BY <1>11, <2>1 DEF Edit, OpenedIsEmpty
  <2> QED
    BY <2>2, <2>3, <2>4
<1>12. CASE UNCHANGED genVars
  BY <1>12 DEF genVars, GenTypeOK, OpenedIsEmpty, EditedIsWhole, File1
<1> QED
  BY <1>1, <1>2, <1>3, <1>4, <1>5, <1>6, <1>7, <1>8, <1>9, <1>10, <1>11, <1>12
     DEF GenNext, Run, User

LEMMA KeptAlways == GenSpec => []Kept
<1>1. GenInit => Kept
  <2> SUFFICES ASSUME GenInit PROVE Kept
    OBVIOUS
  <2>1. <<>> \in Seq([file : File, from : FileContents])
    OBVIOUS
  <2>2. files \in [File -> States] /\ \A f \in File : files[f] = Absent
    BY StateTypes DEF GenInit
  <2>3. GenTypeOK
    BY <2>1, <2>2 DEF GenInit, GenTypeOK
  <2> QED
    BY <2>2, <2>3 DEF GenInit, Kept, OpenedIsEmpty, EditedIsWhole, Absent
<1>2. Kept /\ [GenNext]_genVars => Kept'
  BY StepKept
<1> QED
  BY <1>1, <1>2, PTL DEF GenSpec

\* Types of the generator's state, with what they say of a run: it holds a file open only
\* while it has that file still to write, and no file before the directories are there.
THEOREM GeneratorTypeCorrect == GenSpec => []GenTypeOK
<1>1. Kept => GenTypeOK
  BY DEF Kept
<1> QED
  BY <1>1, KeptAlways, PTL

\* A run opens a file only if it is not there or is one of those that are always written,
\* and writes only what it has opened and so emptied itself: what the user edited in any
\* other file survives every run, those that die included.
THEOREM RunsKeepEdits == GenSpec => EditsKept
<1> DEFINE Safe == gpc # "idle" =>
             \A f \in File :
               files[f].edited /\ f.kind \notin AlwaysKinds => files'[f] = files[f]
<1>1. Kept /\ [GenNext]_genVars => [Safe]_genVars
  <2> SUFFICES ASSUME Kept, [GenNext]_genVars, gpc # "idle", NEW f \in File, files[f].edited,
                      f.kind \notin AlwaysKinds
               PROVE  files'[f] = files[f]
    OBVIOUS
  <2>1. files[f].state = "whole" /\ files \in [File -> States]
    BY DEF Kept, EditedIsWhole, GenTypeOK
  <2>2. CASE Open
    <3>1. f # File1
      BY <2>1, <2>2 DEF Open, Skips, Exists
    <3> QED
      BY <2>1, <2>2, <3>1 DEF Open
  <2>3. CASE WriteFile
    <3>1. f # File1
      BY <2>3 DEF WriteFile, Kept, OpenedIsEmpty, Empty
    <3> QED
      BY <2>1, <2>3, <3>1 DEF WriteFile
  <2>4. CASE ~(Open \/ WriteFile)
    BY <2>4 DEF GenNext, Run, User, StartRun, GenerateDir, GeneratePb, Skip, CopyFails, EndRun,
                RunDies, ChangeProto, Edit, genVars
  <2> QED
    BY <2>2, <2>3, <2>4
<1> QED
  BY <1>1, KeptAlways, PTL DEF GenSpec, EditsKept

-----------------------------------------------------------------------------
(* What a run leaves behind. *)
ServerKinds == {"server.h", "server.cpp"}

\* A file is empty because a run died with it open, or because it is open now.
EmptiesCounted ==
  \A f \in File : files[f].state = "empty" /\ ~(opened /\ f = File1) => died > 0

\* An interface was made for a method some run has seen, one with its name.
MadeForSeen ==
  \A f \in File :
    IsInterface(f) /\ files[f].state = "whole" /\ ~files[f].edited =>
      \E n \in seen : files[f].from = << n >> /\ f.name = to_underline(n.name)

\* A file the service needs is as it should be, or among those still to look at.
ServerPlanned ==
  gpc = "files" =>
    \A kind \in ServerKinds :
      \/ files[Once(kind)] = Whole(pb)
      \/ \E item \in Elements(todo) : item.file = Once(kind)

InterfacesPlanned ==
  gpc = "files" =>
    \A m \in MethodsOf(pb), k \in 1 .. 3 :
      \/ files[InterfaceFile(InterfaceKinds[k], m)].state # "absent"
      \/ \E item \in Elements(todo) : item.file = InterfaceFile(InterfaceKinds[k], m)

PlanIsOfPb ==
  gpc = "files" =>
    /\ pb \in Protos /\ MethodsOf(pb) \subseteq seen
    /\ \A item \in Elements(todo) : FitsPlan(item, pb)

Planned ==
  Kept /\ EmptiesCounted /\ MadeForSeen /\ ServerPlanned /\ InterfacesPlanned /\ PlanIsOfPb

LEMMA KindsDiffer ==
  ASSUME NEW kind \in ServerKinds
  PROVE  /\ Once(kind) \in File /\ IsServer(Once(kind)) /\ Once(kind).kind \in AlwaysKinds
         /\ Once(kind).kind # "sh"
         /\ \A m \in Methods, k \in 1 .. 3 :
              LET f == InterfaceFile(InterfaceKinds[k], m) IN
              /\ f \in File /\ IsInterface(f) /\ f # Once(kind)
              /\ f.kind \notin AlwaysKinds /\ f.name = to_underline(m.name)
<1>1. Once(kind) \in File
  BY DEF File, ServerKinds, OnceKinds
<1>2. IsServer(Once(kind)) /\ Once(kind).kind \in AlwaysKinds /\ Once(kind).kind # "sh"
  BY DEF IsServer, Once, ServerKinds, AlwaysKinds
<1>3. ASSUME NEW m \in Methods, NEW k \in 1 .. 3
      PROVE  LET f == InterfaceFile(InterfaceKinds[k], m) IN
              /\ f \in File /\ IsInterface(f) /\ f # Once(kind)
              /\ f.kind \notin AlwaysKinds /\ f.name = to_underline(m.name)
  <2> DEFINE f == InterfaceFile(InterfaceKinds[k], m)
  <2>1. f \in File
    BY DEF File
  <2>2. f.kind = InterfaceKinds[k] /\ f.name = to_underline(m.name)
    BY DEF InterfaceFile
  <2>3. InterfaceKinds[k] \in {"interface.h", "interface.cpp", "test_client.cpp"}
    BY DEF InterfaceKinds
  <2>4. IsInterface(f)
    BY <2>2 DEF IsInterface
  <2>5. f.kind \notin AlwaysKinds
    BY <2>2, <2>3 DEF AlwaysKinds
  <2> HIDE DEF f
  <2> QED
    BY <1>2, <2>1, <2>2, <2>4, <2>5 DEF f
<1> QED
  BY <1>1, <1>2, <1>3

\* The item a run has just dealt with, and the rest of its plan.
LEMMA PlanGoesOn ==
  ASSUME Planned, gpc = "files", todo # <<>>, todo' = Tail(todo),
         UNCHANGED << gpc, pb, seen >>,
         \A f \in File \ {File1} : files'[f] = files[f],
         \A kind \in ServerKinds : File1 = Once(kind) => files'[File1] = Whole(pb),
         IsInterface(File1) => files'[File1].state # "absent"
  PROVE  ServerPlanned' /\ InterfacesPlanned' /\ PlanIsOfPb'
<1>1. /\ Elements(todo') \subseteq Elements(todo)
      /\ Elements(todo) \subseteq Elements(todo') \cup {Head(todo)}
  BY NextItem DEF Planned, Kept
<1>2. Elements(todo)' = Elements(todo')
  BY DEF Elements
<1>3. /\ pb \in Protos /\ MethodsOf(pb) \subseteq seen /\ MethodsOf(pb) \subseteq Methods
      /\ \A item \in Elements(todo) : FitsPlan(item, pb)
  BY DEF Planned, PlanIsOfPb, Kept, GenTypeOK
<1>4. PlanIsOfPb'
  BY <1>1, <1>2, <1>3 DEF PlanIsOfPb
<1>5. ASSUME NEW kind \in ServerKinds
      PROVE  \/ files'[Once(kind)] = Whole(pb)
             \/ \E item \in Elements(todo') : item.file = Once(kind)
  <2>1. Once(kind) \in File
    BY KindsDiffer
  <2>2. CASE File1 = Once(kind)
    BY <2>2
  <2>3. CASE File1 # Once(kind)
    <3>1. files'[Once(kind)] = files[Once(kind)]
      BY <2>1, <2>3
    <3>2. \/ files[Once(kind)] = Whole(pb)
          \/ \E item \in Elements(todo) : item.file = Once(kind)
      BY DEF Planned, ServerPlanned
    <3>3. Head(todo).file # Once(kind)
      BY <2>3 DEF File1
    <3> QED
      BY <1>1, <3>1, <3>2, <3>3
  <2> QED
    BY <2>2, <2>3
<1>6. ServerPlanned'
  BY <1>2, <1>5 DEF ServerPlanned
<1>7. ASSUME NEW m \in MethodsOf(pb), NEW k \in 1 .. 3, NEW f,
             f = InterfaceFile(InterfaceKinds[k], m)
      PROVE  files'[f].state # "absent" \/ \E item \in Elements(todo') : item.file = f
  <2>1. f \in File /\ IsInterface(f)
    <3>1. "server.h" \in ServerKinds /\ m \in Methods
      BY <1>3 DEF ServerKinds
    <3> QED
      BY <1>7, <3>1, KindsDiffer
  <2>2. files[f].state # "absent" \/ \E item \in Elements(todo) : item.file = f
    BY <1>7 DEF Planned, InterfacesPlanned
  <2>3. CASE File1 = f
    BY <2>1, <2>3
  <2>4. CASE File1 # f
    <3>1. files'[f] = files[f] /\ Head(todo).file # f
      BY <2>1, <2>4 DEF File1
    <3> QED
      BY <1>1, <2>2, <3>1
  <2> QED
    BY <2>3, <2>4
<1>8. InterfacesPlanned'
  BY <1>2, <1>7 DEF InterfacesPlanned
<1> QED
  BY <1>4, <1>6, <1>8

\* Nothing is planned outside of the loop over the files.
LEMMA NothingPlanned ==
  ASSUME gpc' # "files"
  PROVE  ServerPlanned' /\ InterfacesPlanned' /\ PlanIsOfPb'
BY DEF ServerPlanned, InterfacesPlanned, PlanIsOfPb

LEMMA FilesLeftAlone ==
  ASSUME Planned, files' = files, seen \subseteq seen', opened = FALSE, opened' = FALSE,
         died' = died
  PROVE  EmptiesCounted' /\ MadeForSeen'
BY DEF Planned, EmptiesCounted, MadeForSeen

LEMMA StepPlanned ==
  ASSUME Planned, [GenNext]_genVars
  PROVE  Planned'
<1>0. Kept /\ Kept' /\ GenTypeOK /\ (opened => gpc = "files" /\ todo # <<>>)
  BY StepKept DEF Planned, Kept, GenTypeOK
<1>1. CASE StartRun \/ GenerateDir \/ EndRun \/ ChangeProto
  <2>1. opened = FALSE
    BY <1>0, <1>1 DEF StartRun, GenerateDir, EndRun, ChangeProto, GenTypeOK
  <2>2. files' = files /\ seen' = seen /\ opened' = opened /\ died' = died /\ gpc' # "files"
    BY <1>1 DEF StartRun, GenerateDir, EndRun, ChangeProto
  <2> QED
    BY <1>0, <2>1, <2>2, NothingPlanned, FilesLeftAlone DEF Planned
<1>2. CASE GeneratePb
  <2>1. proto \in Protos /\ pb' = proto /\ todo' = Plan(proto) /\ seen' = seen \cup MethodsOf(proto)
    BY <1>0, <1>2 DEF GeneratePb, GenTypeOK
  <2>2. opened = FALSE /\ opened' = FALSE /\ files' = files /\ died' = died
    BY <1>0, <1>2 DEF GeneratePb, GenTypeOK
  <2>3. EmptiesCounted' /\ MadeForSeen'
    BY <2>1, <2>2, FilesLeftAlone
  <2>4. Elements(todo)' = Elements(Plan(proto))
    BY <2>1 DEF Elements
  <2>5. PlanIsOfPb'
    BY <2>1, <2>4, PlanFits DEF PlanIsOfPb
  <2>6. ServerPlanned'
    BY <2>1, <2>4, PlanFits DEF ServerPlanned, ServerKinds
  <2>7. InterfacesPlanned'
    BY <2>1, <2>4, PlanFits DEF InterfacesPlanned
  <2> QED
    BY <1>0, <2>3, <2>5, <2>6, <2>7 DEF Planned
<1>3. CASE Skip \/ CopyFails
  <2>1. /\ gpc = "files" /\ todo # <<>> /\ todo' = Tail(todo) /\ opened = FALSE /\ opened' = FALSE
        /\ files' = files /\ UNCHANGED << gpc, pb, seen, died >>
    BY <1>0, <1>3 DEF Skip, CopyFails, GenTypeOK
  <2>2. \A kind \in ServerKinds : File1 # Once(kind)
    BY <1>3, KindsDiffer DEF Skip, CopyFails, Skips
  <2>3. IsInterface(File1) => files[File1].state # "absent"
    <3>1. CASE Skip
      BY <3>1 DEF Skip, Skips, Exists
    <3>2. CASE CopyFails
      BY <3>2 DEF CopyFails, IsInterface, InterfaceKinds
    <3> QED
      BY <1>3, <3>1, <3>2
  <2>4. ServerPlanned' /\ InterfacesPlanned' /\ PlanIsOfPb'
    BY <2>1, <2>2, <2>3, PlanGoesOn
  <2> QED
    BY <1>0, <2>1, <2>4, FilesLeftAlone DEF Planned
<1>4. CASE Open
  <2>1. /\ gpc = "files" /\ todo # <<>> /\ todo' = todo /\ opened = FALSE /\ opened' = TRUE
        /\ files' = [files EXCEPT ![File1] = Empty] /\ UNCHANGED << gpc, pb, seen, died >>
    BY <1>0, <1>4 DEF Open, GenTypeOK
  <2>2. File1 \in File /\ Head(todo) \in Elements(todo) /\ Head(todo).file = File1
          /\ File1' = File1 /\ Elements(todo)' = Elements(todo)
    BY <1>0, <2>1, NextItem DEF File1, Elements
  <2>3. files'[File1] = Empty /\ \A f \in File \ {File1} : files'[f] = files[f]
    BY <1>0, <2>1, <2>2 DEF GenTypeOK
  <2>4. EmptiesCounted'
    BY <2>1, <2>2, <2>3 DEF Planned, EmptiesCounted
  <2>5. MadeForSeen'
    BY <2>1, <2>2, <2>3 DEF Planned, MadeForSeen, Empty
  <2>6. PlanIsOfPb'
    BY <2>1, <2>2 DEF Planned, PlanIsOfPb
  <2>7. ASSUME NEW kind \in ServerKinds
        PROVE  \/ files'[Once(kind)] = Whole(pb)
               \/ \E item \in Elements(todo) : item.file = Once(kind)
    <3>1. CASE File1 = Once(kind)
      BY <2>2, <3>1
    <3>2. CASE File1 # Once(kind)
      BY <2>1, <2>3, <3>2, KindsDiffer DEF Planned, ServerPlanned
    <3> QED
      BY <3>1, <3>2
  <2>8. ServerPlanned'
    BY <2>1, <2>2, <2>7 DEF ServerPlanned
  <2>9. ASSUME NEW m \in MethodsOf(pb), NEW k \in 1 .. 3, NEW f,
               f = InterfaceFile(InterfaceKinds[k], m)
        PROVE  files'[f].state # "absent" \/ \E item \in Elements(todo) : item.file = f
    <3>1. f \in File
      <4>1. "server.h" \in ServerKinds /\ m \in Methods
        BY <1>0, <2>1 DEF ServerKinds, Planned, PlanIsOfPb, GenTypeOK
      <4> QED
        BY <2>9, <4>1, KindsDiffer
    <3>2. CASE File1 = f
      BY <2>2, <3>2
    <3>3. CASE File1 # f
      BY <2>1, <2>3, <2>9, <3>1, <3>3 DEF Planned, InterfacesPlanned
    <3> QED
      BY <3>2, <3>3
  <2>10. InterfacesPlanned'
    BY <2>1, <2>2, <2>9 DEF InterfacesPlanned
  <2> QED
    BY <1>0, <2>4, <2>5, <2>6, <2>8, <2>10 DEF Planned
<1>5. CASE WriteFile
  <2>1. /\ opened /\ gpc = "files" /\ todo # <<>> /\ todo' = Tail(todo) /\ opened' = FALSE
        /\ UNCHANGED << gpc, pb, seen, died >>
    BY <1>0, <1>5 DEF WriteFile
  <2>2. File1 \in File /\ Head(todo) \in Elements(todo) /\ Head(todo).file = File1
    BY <1>0, <2>1, NextItem DEF File1
  <2>3. files' = [files EXCEPT ![File1] = Whole(Head(todo).from)]
    BY <1>5 DEF WriteFile
  <2>4. files'[File1] = Whole(Head(todo).from) /\ \A f \in File \ {File1} : files'[f] = files[f]
    BY <1>0, <2>2, <2>3 DEF GenTypeOK
  <2>5. FitsPlan(Head(todo), pb) /\ MethodsOf(pb) \subseteq seen
    BY <2>1, <2>2 DEF Planned, PlanIsOfPb
  <2>6. EmptiesCounted'
    BY <2>1, <2>4 DEF Planned, EmptiesCounted, Whole
  <2>7. MadeForSeen'
    <3>1. IsInterface(File1) =>
            \E n \in seen : files'[File1].from = << n >> /\ File1.name = to_underline(n.name)
      BY <2>2, <2>4, <2>5 DEF FitsPlan, Whole
    <3> QED
      BY <2>1, <2>4, <3>1 DEF Planned, MadeForSeen
  <2>8. \A kind \in ServerKinds : File1 = Once(kind) => files'[File1] = Whole(pb)
    BY <2>2, <2>4, <2>5, KindsDiffer DEF FitsPlan
  <2>9. files'[File1].state # "absent"
    BY <2>4 DEF Whole
  <2>10. ServerPlanned' /\ InterfacesPlanned' /\ PlanIsOfPb'
    BY <2>1, <2>4, <2>8, <2>9, PlanGoesOn
  <2> QED
    BY <1>0, <2>6, <2>7, <2>10 DEF Planned
<1>6. CASE RunDies
  <2>1. gpc' = "idle" /\ opened' = FALSE /\ files' = files /\ seen' = seen
    BY <1>6, Zenon DEF RunDies
  <2>2. CASE opened
    <3>1. died' = died + 1 /\ died \in Nat
      BY <1>0, <1>6, <2>2, Zenon DEF RunDies, GenTypeOK
    <3>2. EmptiesCounted' /\ MadeForSeen'
      BY <2>1, <3>1 DEF Planned, EmptiesCounted, MadeForSeen
    <3> QED
      BY <1>0, <2>1, <3>2, NothingPlanned DEF Planned
  <2>3. CASE ~opened
    <3>1. died' = died /\ opened = FALSE
      BY <1>0, <1>6, <2>3, Zenon DEF RunDies, GenTypeOK
    <3> QED
      BY <1>0, <2>1, <3>1, NothingPlanned, FilesLeftAlone DEF Planned
  <2> QED
    BY <2>2, <2>3
<1>7. ASSUME NEW f \in File, Edit(f) PROVE Planned'
  <2>1. opened = FALSE /\ opened' = FALSE /\ gpc' = "idle" /\ seen' = seen /\ died' = died
    BY <1>0, <1>7 DEF Edit, GenTypeOK
  <2>2. files'[f].state = "whole" /\ files'[f].edited /\ \A g \in File \ {f} : files'[g] = files[g]
    BY <1>0, <1>7, EditType
  <2>3. EmptiesCounted' /\ MadeForSeen'
    BY <2>1, <2>2 DEF Planned, EmptiesCounted, MadeForSeen
  <2> QED
    BY <1>0, <2>1, <2>3, NothingPlanned DEF Planned
<1>8. CASE UNCHANGED genVars
  <2>1. EmptiesCounted' /\ MadeForSeen'
    BY <1>8 DEF genVars, Planned, EmptiesCounted, MadeForSeen, File1
  <2>2. ServerPlanned' /\ InterfacesPlanned' /\ PlanIsOfPb'
    BY <1>8 DEF genVars, Planned, ServerPlanned, InterfacesPlanned, PlanIsOfPb, Elements
  <2> QED
    BY <1>0, <2>1, <2>2 DEF Planned
<1> QED
  BY <1>1, <1>2, <1>3, <1>4, <1>5, <1>6, <1>7, <1>8 DEF GenNext, Run, User

\* Whatever runs died before it and whatever the proto files were: a run that comes to
\* its end leaves the service of the present proto file, and an interface for each of its
\* methods, which is the method's own unless its file name was ever shared.
THEOREM RunLeavesServiceFitting == GenSpec => []ServiceFits
<1>1. GenInit => Planned
  <2> SUFFICES ASSUME GenInit PROVE Planned
    OBVIOUS
  <2>1. Kept
    <3>1. files \in [File -> States] /\ \A f \in File : files[f] = Absent
      BY StateTypes DEF GenInit
    <3>2. <<>> \in Seq([file : File, from : FileContents])
      OBVIOUS
    <3>3. GenTypeOK
      BY <3>1, <3>2 DEF GenInit, GenTypeOK
    <3> QED
      BY <3>1, <3>3 DEF GenInit, Kept, OpenedIsEmpty, EditedIsWhole, Absent
  <2>2. EmptiesCounted /\ MadeForSeen
    BY DEF GenInit, EmptiesCounted, MadeForSeen, Absent
  <2> QED
    BY <2>1, <2>2 DEF GenInit, Planned, ServerPlanned, InterfacesPlanned, PlanIsOfPb
<1>2. Planned /\ [GenNext]_genVars => Planned'
  BY StepPlanned
<1>3. ASSUME Planned PROVE ServiceFits
  <2> SUFFICES ASSUME gpc = "files", todo = <<>>
               PROVE  /\ \A kind \in {"server.h", "server.cpp"} : files[Once(kind)] = Whole(pb)
                      /\ \A m \in MethodsOf(pb), k \in 1 .. 3 :
                           LET made == files[InterfaceFile(InterfaceKinds[k], m)] IN
                           /\ made.state # "absent"
                           /\ made.state = "empty" => died > 0
                           /\ made.state = "whole" /\ ~made.edited /\ Alone(m) =>
                                made.from = << m >>
    BY DEF ServiceFits
  <2>1. Elements(todo) = {} /\ ~opened
    <3>1. Elements(todo) = {}
      BY DEF Elements
    <3>2. opened => todo # <<>>
      BY <1>3 DEF Planned, Kept, GenTypeOK
    <3> QED
      BY <3>1, <3>2
  <2>2. \A kind \in ServerKinds : files[Once(kind)] = Whole(pb)
    BY <1>3, <2>1 DEF Planned, ServerPlanned
  <2>3. ASSUME NEW m \in MethodsOf(pb), NEW k \in 1 .. 3, NEW f,
               f = InterfaceFile(InterfaceKinds[k], m)
        PROVE  /\ files[f].state # "absent"
               /\ files[f].state = "empty" => died > 0
               /\ files[f].state = "whole" /\ ~files[f].edited /\ Alone(m) =>
                    files[f].from = << m >>
    <3>1. f \in File /\ IsInterface(f) /\ f.name = to_underline(m.name)
      <4>1. "server.h" \in ServerKinds /\ m \in Methods
        BY <1>3 DEF ServerKinds, Planned, PlanIsOfPb, Kept, GenTypeOK
      <4> QED
        BY <2>3, <4>1, KindsDiffer
    <3>2. files[f].state # "absent"
      BY <1>3, <2>1, <2>3 DEF Planned, InterfacesPlanned
    <3>3. files[f].state = "empty" => died > 0
      BY <1>3, <2>1, <3>1 DEF Planned, EmptiesCounted
    <3>4. ASSUME files[f].state = "whole", ~files[f].edited, Alone(m)
          PROVE  files[f].from = << m >>
      <4>1. PICK n \in seen : files[f].from = << n >> /\ f.name = to_underline(n.name)
        BY <1>3, <3>1, <3>4 DEF Planned, MadeForSeen
      <4>2. n = m
        BY <3>1, <3>4, <4>1, Zenon DEF Alone
      <4> QED
        BY <4>1, <4>2
    <3> QED
      BY <3>2, <3>3, <3>4
  <2> QED
    BY <2>2, <2>3, Zenon DEF ServerKinds
<1> QED
  BY <1>1, <1>2, <1>3, PTL DEF GenSpec
=============================================================================
