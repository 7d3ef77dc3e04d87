----------------------------- MODULE MCSampler ------------------------------
(***************************************************************************)
(* Small instances of the sampler for TLC.                                 *)
(***************************************************************************)
EXTENDS Sampler

Exports(begin, end) ==
  [loadable |-> TRUE, init |-> TRUE, finalize |-> TRUE, begin |-> begin, end |-> end]

\* A logger, a child with begin symbols only for some kinds, a child that
\* lacks an end symbol, and a library dlopen cannot load.
MCLibrary ==
  [sampler |-> Exports(Kinds, Kinds),
   logger  |-> Exports(Kinds, Kinds),
   partial |-> [Exports({"for"}, {"for", "scan"})
                  EXCEPT !.init = FALSE, !.finalize = FALSE],
   noend   |-> Exports({"for", "reduce"}, {"for"}),
   missing |-> [Exports({}, {}) EXCEPT !.loadable = FALSE]]

Environment(libs, prob, skip, globFence, tpiFence) ==
  [loader |-> [tools_libs |-> libs, profile_library |-> NotSet, loadSeq |-> 0],
   prob |-> prob, skip |-> skip, globFence |-> globFence, tpiFence |-> tpiFence]

\* The logger under every sampling mode, with and without fences.
MCEnvironments ==
  {Environment(<<"sampler", l>>, p, s, f, t) :
     l \in {"logger", "noend"}, p \in {NotSet}, s \in {0, 1, 2},
     f \in BOOLEAN, t \in BOOLEAN}
  \cup {Environment(<<"sampler", "logger">>, p, s, FALSE, TRUE) :
          p \in {-5, 50, 120}, s \in {NotSet, 1}}
  \cup {Environment(<<"sampler", l>>, NotSet, s, FALSE, TRUE) :
          l \in {"logger", "partial", "missing"}, s \in {NotSet, -1, -2}}
  \cup {Environment(<<"sampler">>, NotSet, NotSet, FALSE, TRUE),
        Environment(NotSet, NotSet, NotSet, FALSE, TRUE),
        [Environment(NotSet, 50, NotSet, FALSE, TRUE)
           EXCEPT !.loader.profile_library = <<"sampler", "logger">>],
        [Environment(<<"logger", "sampler", "partial">>, NotSet, 1, TRUE, TRUE)
           EXCEPT !.loader.loadSeq = 1]}

=============================================================================
