------------------------------ MODULE MCScripts ------------------------------
(***************************************************************************)
(* The repository's stand-alone scripts in one model.  They share no      *)
(* state, so a behaviour runs one of them, chosen by prog, from its own   *)
(* Init; the variables of the others stay Idle.  Each script's module is  *)
(* instantiated with its variables renamed and its bounds given here.     *)
(***************************************************************************)
EXTENDS Integers

CONSTANTS None, Sep, Open, Close, OutputList, Minus, va, vb, vc, ca, cb, cc,
          Dot, Space, ZeroDivisionError,
          Idle   \* the value of a variable of a script that does not run

VARIABLES prog,
    bt_tree, bt_keys,
    lo_tree, lo_root, lo_queues, lo_level, lo_result, lo_pc,
    dfs_graph, dfs_visited, dfs_stack, dfs_calls, dfs_pc,
    bsr_arr, bsr_key, bsr_start, bsr_end, bsr_ret, bsr_pc,
    fmm_arr, fmm_key, fmm_low, fmm_high, fmm_mid, fmm_ret, fmm_pc,
    kp_v, kp_k, kp_result, kp_pc, kp_v0, kp_k0,
    as_v, as_sets, as_st, as_i, as_j, as_pc,
    bb_n, bb_output, bb_result, bb_stack,
    cc_denominations, cc_amount, cc_solution, cc_d, cc_i, cc_ret, cc_pc,
    ss_s, ss_dictionary, ss_i, ss_ret, ss_pc,
    ts_A, ts_val, ts_used_v, ts_i, ts_ret, ts_pc,
    fu_strInput, fu_frequ, fu_i, fu_ret, fu_pc,
    rn_val, rn_res, rn_valid, rn_i, rn_pc,
    cm_inputInt, cm_ret,
    fm_input, fm_x, fm_ret,
    pn_n, pn_pn, pn_i, pn_k, pn_pc,
    ri_input, ri_ret,
    aw_sentence, aw_ret,
    mw_sentence1, mw_sentence2, mw_ret
BTVars == <<bt_tree, bt_keys>>
LOVars == <<lo_tree, lo_root, lo_queues, lo_level, lo_result, lo_pc>>
DFSVars == <<dfs_graph, dfs_visited, dfs_stack, dfs_calls, dfs_pc>>
BSRVars == <<bsr_arr, bsr_key, bsr_start, bsr_end, bsr_ret, bsr_pc>>
FMMVars == <<fmm_arr, fmm_key, fmm_low, fmm_high, fmm_mid, fmm_ret, fmm_pc>>
KPVars == <<kp_v, kp_k, kp_result, kp_pc, kp_v0, kp_k0>>
ASVars == <<as_v, as_sets, as_st, as_i, as_j, as_pc>>
BBVars == <<bb_n, bb_output, bb_result, bb_stack>>
CCVars == <<cc_denominations, cc_amount, cc_solution, cc_d, cc_i, cc_ret,
            cc_pc>>
SSVars == <<ss_s, ss_dictionary, ss_i, ss_ret, ss_pc>>
TSVars == <<ts_A, ts_val, ts_used_v, ts_i, ts_ret, ts_pc>>
FUVars == <<fu_strInput, fu_frequ, fu_i, fu_ret, fu_pc>>
RNVars == <<rn_val, rn_res, rn_valid, rn_i, rn_pc>>
CMVars == <<cm_inputInt, cm_ret>>
FMVars == <<fm_input, fm_x, fm_ret>>
PNVars == <<pn_n, pn_pn, pn_i, pn_k, pn_pc>>
RIVars == <<ri_input, ri_ret>>
AWVars == <<aw_sentence, aw_ret>>
MWVars == <<mw_sentence1, mw_sentence2, mw_ret>>
vars == <<prog, BTVars, LOVars, DFSVars, BSRVars, FMMVars, KPVars, ASVars,
          BBVars, CCVars, SSVars, TSVars, FUVars, RNVars, CMVars, FMVars,
          PNVars, RIVars, AWVars, MWVars>>

Progs == {"btree", "level_order", "dfs", "binary_search_rotated",
          "find_max_min_index", "kth_permutation", "all_subsets",
          "balanced_braces", "coin_change", "segment_string", "sum_of_two",
          "first_unique_char", "replace_none", "check_monotonic",
          "find_missing", "primary_numbers", "reverse_int", "average_word_length",
          "match_unmatch_words"}

BT == INSTANCE BTree
        WITH tree <- bt_tree, keys <- bt_keys, None <- None, Values <- 1..6,
             MaxNodes <- 6, RootData <- 1..6
LO == INSTANCE LevelOrder
        WITH tree <- lo_tree, root <- lo_root, queues <- lo_queues, level <-
             lo_level, result <- lo_result, pc <- lo_pc, None <- None, Sep <-
             Sep, Values <- 1..3, MaxNodes <- 4, InitSizes <- 1..4
DFS == INSTANCE DepthFirstSearch
        WITH graph <- dfs_graph, visited <- dfs_visited, stack <- dfs_stack,
             calls <- dfs_calls, pc <- dfs_pc, Vertices <- {va, vb, vc}, Start
             <- va
BSR == INSTANCE BinarySearchRotated
        WITH arr <- bsr_arr, key <- bsr_key, start <- bsr_start, end <-
             bsr_end, ret <- bsr_ret, pc <- bsr_pc, Values <- 1..5, Keys <-
             0..6, MaxLen <- 5, Distinct <- TRUE
FMM == INSTANCE FindMaxMinIndex
        WITH arr <- fmm_arr, key <- fmm_key, low <- fmm_low, high <- fmm_high,
             mid <- fmm_mid, ret <- fmm_ret, pc <- fmm_pc, Values <- 1..3,
             Keys <- 0..4, MaxLen <- 5
KP == INSTANCE KthPermutation
        WITH v <- kp_v, k <- kp_k, result <- kp_result, pc <- kp_pc, v0 <-
             kp_v0, k0 <- kp_k0, Values <- {1, 2, 3}, MaxLen <- 3
AS == INSTANCE AllSubsets
        WITH v <- as_v, sets <- as_sets, st <- as_st, i <- as_i, j <- as_j, pc
             <- as_pc, Values <- {1, 2, 3}, MaxLen <- 3
BB == INSTANCE BalancedBraces
        WITH n <- bb_n, output <- bb_output, result <- bb_result, stack <-
             bb_stack, MaxN <- 4, Open <- Open, Close <- Close, OutputList <-
             OutputList
CC == INSTANCE CoinChange
        WITH denominations <- cc_denominations, amount <- cc_amount, solution
             <- cc_solution, d <- cc_d, i <- cc_i, ret <- cc_ret, pc <- cc_pc,
             Coins <- {1, 2, 3}, MaxLen <- 3, MaxAmount <- 6
SS == INSTANCE SegmentString
        WITH s <- ss_s, dictionary <- ss_dictionary, i <- ss_i, ret <- ss_ret,
             pc <- ss_pc, Alphabet <- {ca, cb}, MaxLen <- 4, MaxWord <- 2,
             None <- None
TS == INSTANCE FindSumOfTwo
        WITH A <- ts_A, val <- ts_val, used_v <- ts_used_v, i <- ts_i, ret <-
             ts_ret, pc <- ts_pc, Values <- {1, 2, 3, 5}, Targets <- 2..8,
             MaxLen <- 4
FU == INSTANCE FirstUniqueChar
        WITH strInput <- fu_strInput, frequ <- fu_frequ, i <- fu_i, ret <-
             fu_ret, pc <- fu_pc, Alphabet <- {ca, cb, cc}, MaxLen <- 4
RN == INSTANCE ReplaceNone
        WITH val <- rn_val, res <- rn_res, valid <- rn_valid, i <- rn_i, pc <-
             rn_pc, Values <- {0, 1, 2}, MaxLen <- 4, None <- None
CM == INSTANCE CheckMonotonic
        WITH inputInt <- cm_inputInt, ret <- cm_ret, Values <- 1..3, MaxLen <-
             4, None <- None
FM == INSTANCE FindMissing
        WITH input <- fm_input, x <- fm_x, ret <- fm_ret, MaxN <- 5, None <-
             None
PN == INSTANCE FindPrimaryNumbers
        WITH n <- pn_n, pn <- pn_pn, i <- pn_i, k <- pn_k, pc <- pn_pc, MaxN
             <- 14
RI == INSTANCE ReverseInt
        WITH input <- ri_input, ret <- ri_ret, MaxAbs <- 120, Minus <- Minus,
             None <- None
AW == INSTANCE AverageWordLength
        WITH sentence <- aw_sentence, ret <- aw_ret, Letters <- {ca},
             Punctuation <- {Dot}, Space <- Space, MaxLen <- 6, None <- None,
             ZeroDivisionError <- ZeroDivisionError
MW == INSTANCE MatchUnmatchWords
        WITH sentence1 <- mw_sentence1, sentence2 <- mw_sentence2, ret <-
             mw_ret, Letters <- {1, 2}, Space <- Space, MaxLen <- 4, None <-
             None

\* prog and the variables of every script but one.
BTOthers == <<prog, LOVars, DFSVars, BSRVars, FMMVars, KPVars, ASVars, BBVars,
              CCVars, SSVars, TSVars, FUVars, RNVars, CMVars, FMVars, PNVars,
              RIVars, AWVars, MWVars>>
LOOthers == <<prog, BTVars, DFSVars, BSRVars, FMMVars, KPVars, ASVars, BBVars,
              CCVars, SSVars, TSVars, FUVars, RNVars, CMVars, FMVars, PNVars,
              RIVars, AWVars, MWVars>>
DFSOthers == <<prog, BTVars, LOVars, BSRVars, FMMVars, KPVars, ASVars, BBVars,
               CCVars, SSVars, TSVars, FUVars, RNVars, CMVars, FMVars, PNVars,
               RIVars, AWVars, MWVars>>
BSROthers == <<prog, BTVars, LOVars, DFSVars, FMMVars, KPVars, ASVars, BBVars,
               CCVars, SSVars, TSVars, FUVars, RNVars, CMVars, FMVars, PNVars,
               RIVars, AWVars, MWVars>>
FMMOthers == <<prog, BTVars, LOVars, DFSVars, BSRVars, KPVars, ASVars, BBVars,
               CCVars, SSVars, TSVars, FUVars, RNVars, CMVars, FMVars, PNVars,
               RIVars, AWVars, MWVars>>
KPOthers == <<prog, BTVars, LOVars, DFSVars, BSRVars, FMMVars, ASVars, BBVars,
              CCVars, SSVars, TSVars, FUVars, RNVars, CMVars, FMVars, PNVars,
              RIVars, AWVars, MWVars>>
ASOthers == <<prog, BTVars, LOVars, DFSVars, BSRVars, FMMVars, KPVars, BBVars,
              CCVars, SSVars, TSVars, FUVars, RNVars, CMVars, FMVars, PNVars,
              RIVars, AWVars, MWVars>>
BBOthers == <<prog, BTVars, LOVars, DFSVars, BSRVars, FMMVars, KPVars, ASVars,
              CCVars, SSVars, TSVars, FUVars, RNVars, CMVars, FMVars, PNVars,
              RIVars, AWVars, MWVars>>
CCOthers == <<prog, BTVars, LOVars, DFSVars, BSRVars, FMMVars, KPVars, ASVars,
              BBVars, SSVars, TSVars, FUVars, RNVars, CMVars, FMVars, PNVars,
              RIVars, AWVars, MWVars>>
SSOthers == <<prog, BTVars, LOVars, DFSVars, BSRVars, FMMVars, KPVars, ASVars,
              BBVars, CCVars, TSVars, FUVars, RNVars, CMVars, FMVars, PNVars,
              RIVars, AWVars, MWVars>>
TSOthers == <<prog, BTVars, LOVars, DFSVars, BSRVars, FMMVars, KPVars, ASVars,
              BBVars, CCVars, SSVars, FUVars, RNVars, CMVars, FMVars, PNVars,
              RIVars, AWVars, MWVars>>
FUOthers == <<prog, BTVars, LOVars, DFSVars, BSRVars, FMMVars, KPVars, ASVars,
              BBVars, CCVars, SSVars, TSVars, RNVars, CMVars, FMVars, PNVars,
              RIVars, AWVars, MWVars>>
RNOthers == <<prog, BTVars, LOVars, DFSVars, BSRVars, FMMVars, KPVars, ASVars,
              BBVars, CCVars, SSVars, TSVars, FUVars, CMVars, FMVars, PNVars,
              RIVars, AWVars, MWVars>>
CMOthers == <<prog, BTVars, LOVars, DFSVars, BSRVars, FMMVars, KPVars, ASVars,
              BBVars, CCVars, SSVars, TSVars, FUVars, RNVars, FMVars, PNVars,
              RIVars, AWVars, MWVars>>
FMOthers == <<prog, BTVars, LOVars, DFSVars, BSRVars, FMMVars, KPVars, ASVars,
              BBVars, CCVars, SSVars, TSVars, FUVars, RNVars, CMVars, PNVars,
              RIVars, AWVars, MWVars>>
PNOthers == <<prog, BTVars, LOVars, DFSVars, BSRVars, FMMVars, KPVars, ASVars,
              BBVars, CCVars, SSVars, TSVars, FUVars, RNVars, CMVars, FMVars,
              RIVars, AWVars, MWVars>>
AWOthers == <<prog, BTVars, LOVars, DFSVars, BSRVars, FMMVars, KPVars, ASVars,
            BBVars, CCVars, SSVars, TSVars, FUVars, RNVars, CMVars, FMVars,
            PNVars, RIVars, MWVars>>
MWOthers == <<prog, BTVars, LOVars, DFSVars, BSRVars, FMMVars, KPVars, ASVars,
            BBVars, CCVars, SSVars, TSVars, FUVars, RNVars, CMVars, FMVars,
            PNVars, RIVars, AWVars>>
RIOthers == <<prog, BTVars, LOVars, DFSVars, BSRVars, FMMVars, KPVars, ASVars,
              BBVars, CCVars, SSVars, TSVars, FUVars, RNVars, CMVars, FMVars,
              PNVars, AWVars, MWVars>>

\* The variables of a script that does not run.
BTIdle == bt_tree = Idle /\ bt_keys = Idle
LOIdle == lo_tree = Idle /\ lo_root = Idle /\ lo_queues = Idle /\ lo_level =
          Idle /\ lo_result = Idle /\ lo_pc = Idle
DFSIdle == dfs_graph = Idle /\ dfs_visited = Idle /\ dfs_stack = Idle /\
           dfs_calls = Idle /\ dfs_pc = Idle
BSRIdle == bsr_arr = Idle /\ bsr_key = Idle /\ bsr_start = Idle /\ bsr_end =
           Idle /\ bsr_ret = Idle /\ bsr_pc = Idle
FMMIdle == fmm_arr = Idle /\ fmm_key = Idle /\ fmm_low = Idle /\ fmm_high =
           Idle /\ fmm_mid = Idle /\ fmm_ret = Idle /\ fmm_pc = Idle
KPIdle == kp_v = Idle /\ kp_k = Idle /\ kp_result = Idle /\ kp_pc = Idle /\
          kp_v0 = Idle /\ kp_k0 = Idle
ASIdle == as_v = Idle /\ as_sets = Idle /\ as_st = Idle /\ as_i = Idle /\ as_j
          = Idle /\ as_pc = Idle
BBIdle == bb_n = Idle /\ bb_output = Idle /\ bb_result = Idle /\ bb_stack =
          Idle
CCIdle == cc_denominations = Idle /\ cc_amount = Idle /\ cc_solution = Idle /\
          cc_d = Idle /\ cc_i = Idle /\ cc_ret = Idle /\ cc_pc = Idle
SSIdle == ss_s = Idle /\ ss_dictionary = Idle /\ ss_i = Idle /\ ss_ret = Idle
          /\ ss_pc = Idle
TSIdle == ts_A = Idle /\ ts_val = Idle /\ ts_used_v = Idle /\ ts_i = Idle /\
          ts_ret = Idle /\ ts_pc = Idle
FUIdle == fu_strInput = Idle /\ fu_frequ = Idle /\ fu_i = Idle /\ fu_ret =
          Idle /\ fu_pc = Idle
RNIdle == rn_val = Idle /\ rn_res = Idle /\ rn_valid = Idle /\ rn_i = Idle /\
          rn_pc = Idle
CMIdle == cm_inputInt = Idle /\ cm_ret = Idle
FMIdle == fm_input = Idle /\ fm_x = Idle /\ fm_ret = Idle
PNIdle == pn_n = Idle /\ pn_pn = Idle /\ pn_i = Idle /\ pn_k = Idle /\ pn_pc =
          Idle
RIIdle == ri_input = Idle /\ ri_ret = Idle
AWIdle == aw_sentence = Idle /\ aw_ret = Idle
MWIdle == mw_sentence1 = Idle /\ mw_sentence2 = Idle /\ mw_ret = Idle

Init ==
    /\ prog \in Progs
    /\ IF prog = "btree" THEN BT!Init ELSE BTIdle
    /\ IF prog = "level_order" THEN LO!Init ELSE LOIdle
    /\ IF prog = "dfs" THEN DFS!Init ELSE DFSIdle
    /\ IF prog = "binary_search_rotated" THEN BSR!Init ELSE BSRIdle
    /\ IF prog = "find_max_min_index" THEN FMM!Init ELSE FMMIdle
    /\ IF prog = "kth_permutation" THEN KP!Init ELSE KPIdle
    /\ IF prog = "all_subsets" THEN AS!Init ELSE ASIdle
    /\ IF prog = "balanced_braces" THEN BB!Init ELSE BBIdle
    /\ IF prog = "coin_change" THEN CC!Init ELSE CCIdle
    /\ IF prog = "segment_string" THEN SS!Init ELSE SSIdle
    /\ IF prog = "sum_of_two" THEN TS!Init ELSE TSIdle
    /\ IF prog = "first_unique_char" THEN FU!Init ELSE FUIdle
    /\ IF prog = "replace_none" THEN RN!Init ELSE RNIdle
    /\ IF prog = "check_monotonic" THEN CM!Init ELSE CMIdle
    /\ IF prog = "find_missing" THEN FM!Init ELSE FMIdle
    /\ IF prog = "primary_numbers" THEN PN!Init ELSE PNIdle
    /\ IF prog = "reverse_int" THEN RI!Init ELSE RIIdle
    /\ IF prog = "average_word_length" THEN AW!Init ELSE AWIdle
    /\ IF prog = "match_unmatch_words" THEN MW!Init ELSE MWIdle

BTStep == prog = "btree" /\ BT!Next /\ UNCHANGED BTOthers
LOStep == prog = "level_order" /\ LO!Next /\ UNCHANGED LOOthers
DFSStep == prog = "dfs" /\ DFS!Next /\ UNCHANGED DFSOthers
BSRStep == prog = "binary_search_rotated" /\ BSR!Next /\ UNCHANGED BSROthers
FMMStep == prog = "find_max_min_index" /\ FMM!Next /\ UNCHANGED FMMOthers
KPStep == prog = "kth_permutation" /\ KP!Next /\ UNCHANGED KPOthers
ASStep == prog = "all_subsets" /\ AS!Next /\ UNCHANGED ASOthers
BBStep == prog = "balanced_braces" /\ BB!Next /\ UNCHANGED BBOthers
CCStep == prog = "coin_change" /\ CC!Next /\ UNCHANGED CCOthers
SSStep == prog = "segment_string" /\ SS!Next /\ UNCHANGED SSOthers
TSStep == prog = "sum_of_two" /\ TS!Next /\ UNCHANGED TSOthers
FUStep == prog = "first_unique_char" /\ FU!Next /\ UNCHANGED FUOthers
RNStep == prog = "replace_none" /\ RN!Next /\ UNCHANGED RNOthers
CMStep == prog = "check_monotonic" /\ CM!Next /\ UNCHANGED CMOthers
FMStep == prog = "find_missing" /\ FM!Next /\ UNCHANGED FMOthers
PNStep == prog = "primary_numbers" /\ PN!Next /\ UNCHANGED PNOthers
RIStep == prog = "reverse_int" /\ RI!Next /\ UNCHANGED RIOthers
AWStep == prog = "average_word_length" /\ AW!Next /\ UNCHANGED AWOthers
MWStep == prog = "match_unmatch_words" /\ MW!Next /\ UNCHANGED MWOthers

Next == \/ BTStep
        \/ LOStep
        \/ DFSStep
        \/ BSRStep
        \/ FMMStep
        \/ KPStep
        \/ ASStep
        \/ BBStep
        \/ CCStep
        \/ SSStep
        \/ TSStep
        \/ FUStep
        \/ RNStep
        \/ CMStep
        \/ FMStep
        \/ PNStep
        \/ RIStep
        \/ AWStep
        \/ MWStep

\* Each script keeps the fairness of its own specification.
Spec == Init /\ [][Next]_vars
        /\ WF_vars(BSRStep)
        /\ WF_vars(FMMStep)
        /\ WF_vars(ASStep)
        /\ WF_vars(BBStep)
        /\ WF_vars(CCStep)

-----------------------------------------------------------------------------
\* b_tree: read through inorderTraversal, the tree implements OrderedSet:
\* every insert places its value in order, losing and duplicating none.
\* (BT!RefinesOrderedSet, with its Init and its steps guarded by prog.)
BTRefinesOrderedSet ==
    /\ prog = "btree" => BT!Abstract!Init
    /\ [][prog = "btree" => BT!Abstract!Next]_<<prog, bt_tree>>
\* b_tree: findValue finds exactly the values inserted.
BTFindValueIffInserted == prog = "btree" => BT!FindValueIffInserted
\* b_tree: inserting the preorder, or the reversed postorder, into a new root
\* rebuilds the same tree.
BTTraversalsRebuildTree == prog = "btree" => BT!TraversalsRebuildTree

\* level order: the result lists the levels top-down, each left to right.
LOResultIsLevelOrder == prog = "level_order" => LO!ResultIsLevelOrder
\* level order: while the loop runs, the current deque holds depth level and
\* the other depth level+1.
LOQueuesHoldAdjacentLevels ==
    prog = "level_order" => LO!QueuesHoldAdjacentLevels
\* dfs: visited holds only vertices reachable from the start, and all of them
\* once dfs returns.
DFSVisitedIsReachable == prog = "dfs" => DFS!VisitedIsReachable
\* dfs: no vertex is entered again while a call on it is active.
DFSStackVerticesDistinct == prog = "dfs" => DFS!StackVerticesDistinct
\* rotated search: the index of the key is returned iff the key is present.
BSRFindsKey == prog = "binary_search_rotated" => BSR!FindsKey
\* rotated search: the loop ends.
BSRTerminates == prog = "binary_search_rotated" => BSR!Terminates

\* first/last index: the results are the first and last index of the key, or
\* -1.
FMMBracketsKey == prog = "find_max_min_index" => FMM!BracketsKey
\* first/last index: mid always indexes the array.
FMMMidInBounds == prog = "find_max_min_index" => FMM!MidInBounds
\* first/last index: both loops end.
FMMTerminates == prog = "find_max_min_index" => FMM!Terminates

\* k-th permutation: the picked and the remaining values are the caller's
\* list, repeats counted.
KPPickedPlusLeftIsArgument == prog = "kth_permutation" => KP!PickedPlusLeftIsArgument
\* k-th permutation: for k in 1..n! the call returns the k-th ordering of v,
\* never IndexError.
KPKthIsLexicographic == prog = "kth_permutation" => KP!KthIsLexicographic

\* subsets: get_all_subsets returns with every subset of v listed once, in v's
\* order.
ASListsEverySubsetOnce == prog = "all_subsets" => AS!ListsEverySubsetOnce

\* braces: the shared output list always spells the braces of the calls on the
\* stack.
BBOutputFollowsStack == prog = "balanced_braces" => BB!OutputFollowsStack
\* braces: print_all_braces returns every balanced string of n pairs once, in
\* order.
BBResultIsAllBalanced == prog = "balanced_braces" => BB!ResultIsAllBalanced

\* coin change: each table entry counts the ways with the denominations
\* processed so far; the result counts them with all.
CCCountsWays == prog = "coin_change" => CC!CountsWays

\* segmentation: a True answer is always a real segmentation into dictionary
\* words.
SSTrueIsSound == prog = "segment_string" => SS!TrueIsSound

\* two-sum: True exactly when two elements at different positions add up to
\* val.
TSFindsPair == prog = "sum_of_two" => TS!FindsPair

\* first unique char: the index of the first character occurring once in the
\* whole string, or -1.
FUReturnsFirstUnique == prog = "first_unique_char" => FU!ReturnsFirstUnique

\* replace None: each None becomes the latest value before it, 0 if none;
\* other positions are kept.
RNReplacesWithRecent == prog = "replace_none" => RN!ReplacesWithRecent

\* monotonic: True exactly for lists sorted ascending or descending.
CMIsMonotonic == prog = "check_monotonic" => CM!IsMonotonic

\* missing number: the number of 1..n absent from the input is returned.
FMFindsMissing == prog = "find_missing" => FM!FindsMissing

\* primes: between outer iterations pn after its leading 1 is exactly the
\* primes below i.
PNPrimesBelowCursor == prog = "primary_numbers" => PN!PrimesBelowCursor

\* reverse int: the sign is kept and the digits of |input| reversed.
RIReversesDigits == prog = "reverse_int" => RI!ReversesDigits

\* average word length: letters per word, rounded to two places, a word
\* being a maximal run of letters whatever separates it; a sentence of
\* punctuation and spaces only raises ZeroDivisionError.
AWAveragesWords == prog = "average_word_length" => AW!AveragesWords

\* word diff: the words of exactly one sentence, then those of both, each
\* list ascending and without repeats.
MWSplitsAndCompares == prog = "match_unmatch_words" => MW!SplitsAndCompares

=============================================================================
