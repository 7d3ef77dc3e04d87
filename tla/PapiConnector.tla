--------------------------- MODULE PapiConnector ----------------------------
(***************************************************************************)
(* The PAPI connector, src/profiling/papi-connector/kp_papi_connector.cpp. *)
(*                                                                         *)
(* PAPI measures regions, each begun and ended under a name.  The          *)
(* callbacks at the end of a kernel or region do not carry its name, so    *)
(* the connector keeps a stack of names for each kind of kernel and one    *)
(* for regions.  Profile sections, which may overlap in any order, are     *)
(* looked up by number.                                                    *)
(***************************************************************************)
EXTENDS HostTrace, Bags, FiniteSets, Maps

CONSTANT
  Ids (* what the host's variable for the number of a section may hold *)

VARIABLES
  kernel_name,     (* kind -> stack of the names of the kernels begun *)
  region_name,     (* stack of the names of the regions begun         *)
  profile_section, (* number -> name of the sections created          *)
  papi,            (* PAPI: the bag of the regions it has open        *)
  strays           (* PAPI: ends of regions that it did not have open *)

papiVars == <<kernel_name, region_name, profile_section, papi, strays>>

InitPapi ==
  /\ kernel_name = [k \in KernelKinds |-> << >>]
  /\ region_name = << >>
  /\ profile_section = EmptyMap
  /\ papi = EmptyBag
  /\ strays = 0

\* The names given to PAPI: a kernel or region with its kind, a section with
\* its number.
Tagged(tag, name) == <<tag, name>>

SectionName(id) == <<"section", profile_section[id], id>>

Copy == <<"copy">>

Top(stack) == Last(stack)

\* Mutant: the name stays on the stack.
NotPopped(stack) == stack

Popped(stack) == Front(stack)

One(region) == SetToBag({region})

\* How often PAPI has the region open.
TimesOpen(region) == IF BagIn(region, papi) THEN papi[region] ELSE 0

-----------------------------------------------------------------------------
(* PAPI                                                                    *)

PAPI_hl_region_begin(region) ==
  /\ papi' = papi (+) One(region)
  /\ UNCHANGED strays

\* PAPI rejects the end of a region that is not open.
PAPI_hl_region_end(region) ==
  /\ papi' = papi (-) One(region)
  /\ strays' = strays + (IF BagIn(region, papi) THEN 0 ELSE 1)

-----------------------------------------------------------------------------
(* The callbacks.  kokkosp_profile_event reads the counters of the          *)
(* innermost region and changes nothing.                                   *)

PapiBeginParallel(kind, name) ==
  /\ kernel_name' = [kernel_name EXCEPT ![kind] = Append(@, Tagged(kind, name))]
  /\ PAPI_hl_region_begin(Tagged(kind, name))
  /\ UNCHANGED <<region_name, profile_section>>

\* The stack is not empty, since the host ends what it began.
PapiEndParallel(kind) ==
  /\ kernel_name[kind] # << >>
  /\ PAPI_hl_region_end(Top(kernel_name[kind]))
  /\ kernel_name' = [kernel_name EXCEPT ![kind] = Popped(@)]
  /\ UNCHANGED <<region_name, profile_section>>

PapiPushRegion(name) ==
  /\ region_name' = Append(region_name, Tagged("region", name))
  /\ PAPI_hl_region_begin(Tagged("region", name))
  /\ UNCHANGED <<kernel_name, profile_section>>

\* Without a name on the stack: "Region does not exist!"
PapiPopRegion ==
  IF region_name = << >> THEN UNCHANGED papiVars
  ELSE /\ PAPI_hl_region_end(Top(region_name))
       /\ region_name' = Popped(region_name)
       /\ UNCHANGED <<kernel_name, profile_section>>

PapiBeginDeepCopy ==
  /\ PAPI_hl_region_begin(Copy)
  /\ UNCHANGED <<kernel_name, region_name, profile_section>>

PapiEndDeepCopy ==
  /\ PAPI_hl_region_end(Copy)
  /\ UNCHANGED <<kernel_name, region_name, profile_section>>

\* The number is the value that is found in *sec_id, which nothing sets: any
\* number, also one in use, whose name is then kept.
PapiCreateSection(id, name) ==
  /\ profile_section' = Insert(profile_section, id, name)
  /\ UNCHANGED <<kernel_name, region_name, papi, strays>>

PapiDestroySection(id) ==
  /\ profile_section' = Erase(profile_section, id)
  /\ UNCHANGED <<kernel_name, region_name, papi, strays>>

\* A number that is not found is passed over.
PapiStartSection(id) ==
  IF id \notin DOMAIN profile_section THEN UNCHANGED papiVars
  ELSE /\ region_name' = Append(region_name, SectionName(id))
       /\ PAPI_hl_region_begin(SectionName(id))
       /\ UNCHANGED <<kernel_name, profile_section>>

\* The name is pushed again, where it was to be removed.
PapiStopSection(id) ==
  IF id \notin DOMAIN profile_section THEN UNCHANGED papiVars
  ELSE /\ region_name' = Append(region_name, SectionName(id))
       /\ PAPI_hl_region_end(SectionName(id))
       /\ UNCHANGED <<kernel_name, profile_section>>

-----------------------------------------------------------------------------
(* Properties                                                              *)

\* PAPI measures exactly the kernels in flight, although kernels of different
\* kinds end in any order among each other and among regions (lines 51-105).
PapiMeasuresKernels ==
  \A kind \in KernelKinds, name \in Names :
    TimesOpen(Tagged(kind, name)) =
    Cardinality({b \in ToSet(open) : b.what = kind /\ b.name = name})

\* The name of a block of the host at PAPI.
PapiNameOf(b) ==
  CASE b.what = "copy"    -> Copy
    [] b.what = "section" -> <<"section", b.name, b.num>>
    [] OTHER              -> Tagged(b.what, b.name)

\* PAPI has open the regions, sections and copies that the host has open, and was
\* never told to end another.
BlocksOpen ==
  LET blocks == {b \in ToSet(open) : b.what \notin KernelKinds}
  IN /\ strays = 0
     /\ \A region \in BagToSet(papi) \cup {PapiNameOf(b) : b \in blocks} :
          region[1] \notin KernelKinds =>
            TimesOpen(region) = Cardinality({b \in blocks : PapiNameOf(b) = region})

\* Until a section is started, whatever kernels overlap them and however often
\* the host pops without a region (lines 107-137).
PapiMeasuresRegions == "section" \notin slips => BlocksOpen

=============================================================================
