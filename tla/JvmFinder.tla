------------------------------- MODULE JvmFinder -------------------------------
(***************************************************************************)
(* The search for the JVM library, _jvmfinder: getDefaultJVMPath tries the *)
(* methods of the platform in order.                                       *)
(*                                                                         *)
(* The file system is a record:                                            *)
(*   libs       [home -> Seq(directory names)]: the directories under a    *)
(*              Java home that hold the library, the nearest first         *)
(*   javaHome   the directory JAVA_HOME names, or "none"                   *)
(*   bin        the home of /usr/bin/java, or "none"                       *)
(*   children   what the known locations hold, in order: [real, name]      *)
(*   registry   the home that the Windows registry names, or "none"        *)
(*   toolHome   what /usr/libexec/java_home prints, or "none"              *)
(*   foreign    homes whose library is for another machine                 *)
(***************************************************************************)
EXTENDS Naturals, Sequences, SequencesExt, FiniteSets

NotFound == [kind |-> "notfound", home |-> "none"]
NotSupported == [kind |-> "unsupported", home |-> "none"]
Nothing == [kind |-> "nothing", home |-> "none"]
Library(h) == [kind |-> "library", home |-> h]
Directory(h) == [kind |-> "directory", home |-> h]

non_supported_jvm == {"cacao", "jamvm"}

\* JVMFinder.find_libjvm: the nearest library that is not known to be broken.
find_libjvm(fs, home) ==
  IF \E i \in DOMAIN fs.libs[home] : fs.libs[home][i] \notin non_supported_jvm THEN Library(home)
  ELSE IF fs.libs[home] # <<>> THEN NotSupported
  ELSE NotFound

\* find_possible_homes: the children named like a Java installation, each real
\* path once.
find_possible_homes(fs) ==
  LET javas == SelectSeq(fs.children, LAMBDA d : d.name \in {"jre", "jdk", "java"})
      firsts == {i \in DOMAIN javas : \A j \in 1 .. i - 1 : javas[j].real # javas[i].real}
  IN  [n \in 1 .. Cardinality(firsts) |->
         javas[CHOOSE i \in firsts : Cardinality({j \in firsts : j < i}) = n - 1].real]

\* _get_from_known_locations: find_libjvm never answers None, so that the loop
\* ends with the first home, by a return or by an error.
known_locations(fs) ==
  IF find_possible_homes(fs) = <<>> THEN Nothing ELSE find_libjvm(fs, Head(find_possible_homes(fs)))

In(fs, home) == IF home = "none" THEN Nothing ELSE find_libjvm(fs, home)

\* The methods of JVMFinder and of its subclasses.
method(fs, name) ==
  CASE name = "java_home" -> In(fs, fs.javaHome)
    [] name = "bin" -> In(fs, fs.bin)
    [] name = "known_locations" -> known_locations(fs)
    [] name = "registry" -> IF fs.registry = "none" THEN Nothing ELSE Library(fs.registry)
    [] name = "javahome_binary" -> IF fs.toolHome = "none" THEN Nothing ELSE Directory(fs.toolHome)

_methods(platform) ==
  CASE platform = "linux" -> <<"java_home", "bin", "known_locations">>
    [] platform = "darwin" -> <<"java_home", "bin", "known_locations", "javahome_binary">>
    [] platform = "win32" -> <<"java_home", "registry">>

\* check, and _checkJVMArch on Windows.
check(fs, platform, found) ==
  IF platform = "win32" /\ found.home \in fs.foreign THEN NotSupported ELSE found

\* What each method of the platform comes to, its check included
tried(fs, platform) ==
  [i \in DOMAIN _methods(platform) |-> check(fs, platform, method(fs, _methods(platform)[i]))]

\* The positions in tried that answer with one of kinds
answering(fs, platform, kinds) ==
  {i \in DOMAIN _methods(platform) : tried(fs, platform)[i].kind \in kinds}

\* Mutant: JVMNotSupportedException ends the search.
getJVMPathStrict(fs, platform) ==
  LET hits == answering(fs, platform, {"library", "directory", "unsupported"})
  IN  IF hits # {} THEN tried(fs, platform)[Min(hits)] ELSE NotFound

\* get_jvm_path: the first answer; without one, the error that says most.
getDefaultJVMPath(fs, platform) ==
  LET hits == answering(fs, platform, {"library", "directory"})
  IN  IF hits # {} THEN tried(fs, platform)[Min(hits)]
      ELSE IF answering(fs, platform, {"unsupported"}) # {} THEN NotSupported ELSE NotFound
===============================================================================
