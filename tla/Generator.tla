------------------------------ MODULE Generator ------------------------------
(***************************************************************************)
(* The project generator (generator/rocket_generator.py): a run of it, the *)
(* files it leaves alone and those it writes again, a run that dies at any *)
(* point, and the user between two runs, who changes the proto file and    *)
(* edits what was generated.                                               *)
(*                                                                         *)
(* The content of a file is what its template was filled with: the methods *)
(* of the service for server.h and server.cpp, one method for the three    *)
(* files of an interface, nothing that changes for the others.             *)
(***************************************************************************)
EXTENDS Integers, Sequences, FiniteSets

CONSTANTS
  Protos,          \* proto files: sequences of methods [name, type]
  InPlace,         \* the project is generated into the working directory
  EditedKinds,     \* bound: the kinds of files the user edits
  MaxDeaths        \* bound: the runs that die with a file opened

VARIABLES
  proto,           \* the proto file
  pb,              \* the methods in the .pb.h file of the project
  files,           \* the files of the project
  gpc,              \* idle, dirs, pb, files
  build_type,      \* of the run, empty between runs
  dirs,            \* the project's directories are there
  todo,            \* the files the run has still to look at, in order
  opened,          \* the first of them has been opened for writing
  seen,            \* history: all methods any run has generated for
  died             \* history: how many runs died with a file opened

genVars == << proto, pb, files, gpc, build_type, dirs, todo, opened, seen, died >>

-----------------------------------------------------------------------------
(* Names. A letter is [letter, upper]. *)
Underline == [letter |-> "_", upper |-> FALSE]

\* make_order becomes MakeOrder; a name without an underline stays as it is.
to_camel(name) ==
  LET capitalized ==
        [ k \in DOMAIN name |->
            [name[k] EXCEPT !.upper = (k = 1 \/ name[k - 1] = Underline)] ]
      IsLetter(c) == c.letter # "_"
  IN  IF \A k \in DOMAIN name : name[k] # Underline
      THEN name
      ELSE SelectSeq(capitalized, IsLetter)

\* An underline before each capital; then the first character goes, which is an
\* underline only if the name began with a capital.
to_underline(name) ==
  LET camel   == to_camel(name)
      Lower(c) == [c EXCEPT !.upper = FALSE]
      spread[k \in 0 .. Len(camel)] ==
        IF k = 0 THEN <<>>
        ELSE spread[k - 1] \o (IF camel[k].upper
                               THEN << Underline, Lower(camel[k]) >>
                               ELSE << camel[k] >>)
  IN  Tail(spread[Len(camel)])

-----------------------------------------------------------------------------
Methods == UNION { { p[k] : k \in DOMAIN p } : p \in Protos }
MethodsOf(p) == { p[k] : k \in DOMAIN p }

ASSUME ProtoAssumption == Protos \subseteq Seq(Methods)

\* One file of a name for each of these; the others occur once.
InterfaceKinds == << "interface.h", "interface.cpp", "test_client.cpp" >>
OnceKinds == { "makefile", "CMakeLists.txt", "sh", "rocket.xml", "business_exception.h",
               "server.h", "server.cpp", "main.cpp", "base.h", "base.cpp" }

\* Written whether they exist or not.
AlwaysKinds == {"sh", "server.h", "server.cpp"}

Once(kind) == [kind |-> kind, name |-> <<>>]
InterfaceFile(kind, m) == [kind |-> kind, name |-> to_underline(m.name)]

File == { Once(kind) : kind \in OnceKinds }
          \cup { InterfaceFile(InterfaceKinds[k], m) : k \in 1 .. 3, m \in Methods }

FileContents == {<<>>} \cup Protos \cup { << m >> : m \in Methods }
States == [ state : {"absent", "empty", "whole"}, from : FileContents, edited : BOOLEAN ]

Absent == [state |-> "absent", from |-> <<>>, edited |-> FALSE]
Empty  == [state |-> "empty",  from |-> <<>>, edited |-> FALSE]
Whole(from) == [state |-> "whole", from |-> from, edited |-> FALSE]

Item(file, from) == [file |-> file, from |-> from]

(* The build file: CMakeLists.txt goes to <project_name>/ under the working directory,
   and the error is caught if that does not exist. *)
BuildFile ==
  CASE build_type = "makefile"            -> << Item(Once("makefile"), <<>>) >>
    [] build_type = "cmake" /\ InPlace    -> << Item(Once("CMakeLists.txt"), <<>>) >>
    [] OTHER                              -> <<>>

ConfFile == << Item(Once("rocket.xml"), <<>>) >>

ExceptionFile == << Item(Once("business_exception.h"), <<>>) >>

ServerFiles(methods) ==
  << Item(Once("server.h"), methods), Item(Once("server.cpp"), methods) >>

MainFile == << Item(Once("main.cpp"), <<>>) >>

BaseFiles == << Item(Once("base.h"), <<>>), Item(Once("base.cpp"), <<>>) >>

InterfaceFiles(methods) ==
  [ k \in 1 .. 3 * Len(methods) |->
      LET m == methods[((k - 1) \div 3) + 1] IN
      Item(InterfaceFile(InterfaceKinds[((k - 1) % 3) + 1], m), << m >>) ]

(* The files in the order of generator_project and generate_framework_code *)
Plan(methods) ==
  BuildFile \o << Item(Once("sh"), <<>>) >> \o ConfFile
    \o ExceptionFile \o ServerFiles(methods) \o MainFile \o BaseFiles
    \o InterfaceFiles(methods)

GenInit ==
  /\ proto \in Protos
  /\ pb = <<>>
  /\ files = [f \in File |-> Absent]
  /\ gpc = "idle"
  /\ build_type = ""
  /\ dirs = FALSE
  /\ todo = <<>>
  /\ opened = FALSE
  /\ seen = {}
  /\ died = 0

-----------------------------------------------------------------------------
(* parseInput, for arguments it accepts *)
StartRun ==
  /\ gpc = "idle"
  /\ gpc' = "dirs"
  /\ build_type' \in {"makefile", "cmake"}
  /\ UNCHANGED << proto, pb, files, dirs, todo, opened, seen, died >>

\* generate_dir. Those that exist are left alone, so that a run that died among them
\* leaves nothing the next one does not make up for.
GenerateDir ==
  /\ gpc = "dirs"
  /\ gpc' = "pb"
  /\ dirs' = TRUE
  /\ UNCHANGED << proto, pb, files, build_type, todo, opened, seen, died >>

\* cp and protoc; then the .pb.h file is read for the methods.
GeneratePb ==
  /\ gpc = "pb"
  /\ pb' = proto
  /\ seen' = seen \cup MethodsOf(proto)
  /\ todo' = Plan(proto)
  /\ gpc' = "files"
  /\ UNCHANGED << proto, files, build_type, dirs, opened, died >>

File1 == Head(todo).file
Exists(f) == files[f].state # "absent"

SkipsNone(f) == FALSE
SkipsServerCpp(f) == f.kind \notin {"sh", "server.h"} /\ Exists(f)

\* os.path.exists
Skips(f) == f.kind \notin AlwaysKinds /\ Exists(f)

Skip ==
  /\ gpc = "files" /\ todo # <<>> /\ ~opened
  /\ Skips(File1)
  /\ todo' = Tail(todo)
  /\ UNCHANGED << proto, pb, files, gpc, build_type, dirs, opened, seen, died >>

\* open(..., 'w') truncates
Open ==
  /\ gpc = "files" /\ todo # <<>> /\ ~opened
  /\ ~Skips(File1)
  /\ opened' = TRUE
  /\ files' = [files EXCEPT ![File1] = Empty]
  /\ UNCHANGED << proto, pb, gpc, build_type, dirs, todo, seen, died >>

WriteLeftOpen ==
  /\ opened
  /\ files' = [files EXCEPT ![File1] = Whole(Head(todo).from)]
  /\ todo' = Tail(todo)
  /\ UNCHANGED << proto, pb, gpc, build_type, dirs, opened, seen, died >>

\* write and close, which flushes
WriteFile ==
  /\ opened
  /\ opened' = FALSE
  /\ files' = [files EXCEPT ![File1] = Whole(Head(todo).from)]
  /\ todo' = Tail(todo)
  /\ UNCHANGED << proto, pb, gpc, build_type, dirs, seen, died >>

\* generate_run_script looks at no exit status.
CopyFails ==
  /\ gpc = "files" /\ todo # <<>> /\ ~opened
  /\ File1.kind = "sh"
  /\ todo' = Tail(todo)
  /\ UNCHANGED << proto, pb, files, gpc, build_type, dirs, opened, seen, died >>

EndRun ==
  /\ gpc = "files" /\ todo = <<>>
  /\ gpc' = "idle"
  /\ build_type' = ""
  /\ UNCHANGED << proto, pb, files, dirs, todo, opened, seen, died >>

(* An exception (protoc fails, a disk is full), which generator_project does not survive
   either: its handler adds a string and an exception. Or the run is killed. *)
RunDies ==
  /\ gpc # "idle"
  /\ gpc' = "idle"
  /\ build_type' = ""
  /\ todo' = <<>>
  /\ opened' = FALSE
  /\ opened => died < MaxDeaths
  /\ died' = IF opened THEN died + 1 ELSE died
  /\ UNCHANGED << proto, pb, files, dirs, seen >>

(* The user, between two runs *)
ChangeProto ==
  /\ gpc = "idle"
  /\ proto' \in Protos \ {proto}
  /\ UNCHANGED << pb, files, gpc, build_type, dirs, todo, opened, seen, died >>

Edit(f) ==
  /\ gpc = "idle"
  /\ Exists(f) /\ f.kind \in EditedKinds
  /\ files' = [files EXCEPT ![f] = [state |-> "whole", from |-> @.from, edited |-> TRUE]]
  /\ UNCHANGED << proto, pb, gpc, build_type, dirs, todo, opened, seen, died >>

Run == \/ StartRun \/ GenerateDir \/ GeneratePb
       \/ Skip \/ Open \/ WriteFile \/ CopyFails \/ EndRun \/ RunDies
User == ChangeProto \/ \E f \in File : Edit(f)

GenNext == Run \/ User

GenSpec == GenInit /\ [][GenNext]_genVars
-----------------------------------------------------------------------------
GenTypeOK ==
  /\ proto \in Protos
  /\ pb \in Protos \cup {<<>>}
  /\ files \in [File -> States]
  /\ gpc \in {"idle", "dirs", "pb", "files"}
  /\ build_type \in {"", "makefile", "cmake"}
  /\ dirs \in BOOLEAN
  /\ gpc \in {"pb", "files"} => dirs
  /\ todo \in Seq([file : File, from : FileContents])
  /\ opened \in BOOLEAN
  /\ opened => gpc = "files" /\ todo # <<>>
  /\ seen \subseteq Methods
  /\ died \in Nat

(* A run changes nothing the user has edited, server.h, server.cpp and the scripts aside,
   whatever was in the proto files since and wherever runs died. *)
EditsKept ==
  [][ gpc # "idle" =>
        \A f \in File :
          files[f].edited /\ f.kind \notin AlwaysKinds => files'[f] = files[f] ]_genVars

\* No method of another description has ever had the file names of m.
Alone(m) == \A n \in seen : to_underline(n.name) = to_underline(m.name) => n = m

(* When a run comes to its end, the service is that of the proto file, and each interface
   it includes is there and is made for its method; unless the user edited it, a run died
   writing it, or its name was, in this proto file or an earlier one, another method's. *)
ServiceFits ==
  gpc = "files" /\ todo = <<>> =>
    /\ \A kind \in {"server.h", "server.cpp"} : files[Once(kind)] = Whole(pb)
    /\ \A m \in MethodsOf(pb), k \in 1 .. 3 :
         LET made == files[InterfaceFile(InterfaceKinds[k], m)] IN
         /\ made.state # "absent"
         /\ made.state = "empty" => died > 0
         /\ made.state = "whole" /\ ~made.edited /\ Alone(m) => made.from = << m >>
=============================================================================
