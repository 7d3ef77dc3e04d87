----------------------------- MODULE Libraries ------------------------------
(***************************************************************************)
(* How a tool that wraps another one finds it.  KOKKOS_TOOLS_LIBS lists    *)
(* libraries; the runtime loads the first as tool 0, and tool loadSeq      *)
(* loads the entry after its own.  Shared by the sampler                   *)
(* (src/common/kokkos-sampler) and the kernel filter                       *)
(* (src/common/kernel-filter), whose initialisation has the same code.     *)
(***************************************************************************)
EXTENDS Integers, Sequences

CONSTANTS
  Library, (* What dlopen and dlsym find under each library name *)
  NotSet   (* getenv returned NULL                               *)

Kinds == {"for", "scan", "reduce"}

\* The kokkosp_ symbols a wrapper looks up.
LibraryType ==
  [loadable : BOOLEAN, init : BOOLEAN, finalize : BOOLEAN,
   begin : SUBSET Kinds, end : SUBSET Kinds]

\* The settings of a process that both wrappers read.
LoaderType ==
  [tools_libs      : Seq(DOMAIN Library) \cup {NotSet},
   profile_library : Seq(DOMAIN Library) \cup {NotSet},
   loadSeq         : Nat]

ASSUME LibrariesAssumption ==
  /\ NotSet \notin Int
  /\ \A l \in DOMAIN Library : Library[l] \in LibraryType

\* KOKKOS_TOOLS_LIBS, else the deprecated KOKKOS_PROFILE_LIBRARY.
profileLibrary(loader) ==
  IF loader.tools_libs # NotSet THEN loader.tools_libs ELSE loader.profile_library

\* strtok is called 1 + loadSeq + 1 times: the entry after the tool's own.
HasNextLibrary(loader) ==
  /\ profileLibrary(loader) # NotSet
  /\ loader.loadSeq + 2 <= Len(profileLibrary(loader))

nextLibrary(loader) == Library[profileLibrary(loader)[loader.loadSeq + 2]]

\* The child library is named and dlopen loads it.
ChildLoads(loader) == HasNextLibrary(loader) /\ nextLibrary(loader).loadable

=============================================================================
