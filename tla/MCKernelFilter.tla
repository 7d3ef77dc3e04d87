--------------------------- MODULE MCKernelFilter ---------------------------
(***************************************************************************)
(* Small instances of the kernel filter for TLC.                           *)
(***************************************************************************)
EXTENDS KernelFilter

Exports(begin, end) ==
  [loadable |-> TRUE, init |-> TRUE, finalize |-> TRUE, begin |-> begin, end |-> end]

MCLibrary ==
  [filter  |-> Exports(Kinds, Kinds),
   logger  |-> Exports(Kinds, Kinds),
   partial |-> [Exports({"for", "scan"}, {"for", "reduce"})
                  EXCEPT !.init = FALSE, !.finalize = FALSE],
   missing |-> [Exports({}, {}) EXCEPT !.loadable = FALSE]]

MCNames == {"axpy", "dot"}

Environment(libs, filter) ==
  [loader |-> [tools_libs |-> libs, profile_library |-> NotSet, loadSeq |-> 0],
   filter |-> filter]

\* No filter, an unreadable, an empty and a malformed one, one pattern among
\* several that matches, and every way a child can be missing.
MCEnvironments ==
  {Environment(<<"filter", "logger">>, f) :
     f \in {NotSet, Unreadable, << >>, <<{"axpy"}, Malformed>>,
            <<{}, {"axpy"}>>, <<{"axpy", "dot"}>>}}
  \cup {Environment(<<"filter", l>>, <<{"axpy"}>>) : l \in {"partial", "missing"}}
  \cup {Environment(<<"filter">>, <<{"axpy"}>>),
        Environment(NotSet, <<{"axpy"}>>),
        Environment(NotSet, << >>),
        [Environment(NotSet, <<{"dot"}>>)
           EXCEPT !.loader.profile_library = <<"filter", "logger">>]}

\* The logger under a filter that lets one of the two names through.
MCEnvironmentsLogger == {Environment(<<"filter", "logger">>, <<{"axpy"}>>)}

=============================================================================
