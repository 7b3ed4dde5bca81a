# TLA+ models of `crack/python/python`

The repository is a set of independent interview exercises, each a Python
script with one function or small class and a driver at module level. All of
it is single-threaded and synchronous, and nothing is persisted. So the hard
behaviour here is not concurrency or failure. It is:

* recursion that mutates shared state (the DFS `visited` set, the BST
  insert);
* in-place pointer relinking (the sorted-list merge);
* loop index arithmetic at the edges (the binary searches, `int(x / 2)`);
* queue role swaps (the level-order walk);
* sentinel values at the boundaries (`Node(None)`, `sys.maxsize`).

TLC explores all of these over every small input, and in every order where
Python leaves the order open (set iteration).

## Inventory

| Component | Source | State | Operations | Correctness |
|---|---|---|---|---|
| BST node | `tree/b_tree.py` `Node` | `data`, `left`, `right` per node; `Node(None)` is an empty root | `insert`, `findValue`, `inorderTraversal`, `preorderTraversal`, `postorderTraversal`, `printTree` | inorder = sorted distinct inserted values; findValue exact; traversals determine the tree |
| BinTree | `tree/bin_tree.py` `BinTree` | same fields | `insert` (equal → return), `printTree` | insert keeps the BST property, no duplicates |
| BST validator | `tree/check_binary_search_tree.py` | none (recursive function on a `BinTree`) | `check_bst`, `check_bst_with_value` | returns True exactly for BSTs |
| Level order | `tree/level_order_trasversal.py` | two deques, `level_number`, result string | one loop | levels top-down, left to right; terminates |
| Sorted-list merge | `amz/merge_sorted_list.py` | `LList.head`, `Node.data/next`; merge cursors | `LList.insert/append/printlist`, `merge_sorted` | merged list sorted and complete; empty input handled |
| Recursive DFS | `graph/deep_search_priority.py` | shared `visited`, call stack | `dfs` | returns the reachable set; each vertex entered once |
| Rotated search | `amz/binary_search_rotated.py` | `start`, `end`, `mid` | one loop | finds the key iff present; terminates |
| First/last index | `amz/find_max_min_index.py` | `low`, `high`, `mid` | two loops | first/last index or -1; `mid` in bounds; terminates |
| Arbitrary-pointer copy | `amz/copy_arbitrary_list.py` | list nodes with `next`, `arbiNode`; old→new dict | `insert`, `append`, `copy_arbitrary_list` | the copy is isomorphic and shares no node with the original |
| k-th permutation, subsets, braces, coin change | `amz/*.py` | recursion / DP arrays | one function each | agree with the combinatorial definition |
| Word segmentation | `string/segment_string.py` | none | one loop | the header comment's recursive segmentation |
| Small list and number scripts | `amz/find_sum_of_2intergers.py`, `amz/find_missing.py`, `base/find_first_unique_char.py`, `base/replace_none.py`, `base/check_monotonic.py`, `base/find_primary_number.py`, `base/reverse_int.py` | loop variables | one function each | agree with the definition the docstring or name states |
| Word diff, average word length | `base/find_match_unmatch_words.py`, `base/average_word_length.py` | none | one function each | the words of one/both sentences, sorted; letters per word, or `ZeroDivisionError` |

The components do not interact, with one exception. `check_binary_search_tree.py`
and `level_order_trasversal.py` import `BinTree` and build their trees with its
`insert`.

## Modules

* `BinaryTrees`: the tree representation both tree classes share. The Python
  object graph becomes an arena: node 1 is the root, and nodes 2..size are the
  nodes `insert` created, in creation order. A tree is a record
  `[data, left, right, size]`, with `Nil` for a missing child and the model
  value `None` for Python's `None`. `LinkedTrees(k, V)` enumerates every tree
  of k nodes that a caller can link by hand (the fields are public). Every
  shape appears, numbered so that a parent comes before its child.
* `BTree` (`b_tree.Node`):
  * `InsertPoint` is the recursive descent of `insert`, including the
    `data is None` root case. `Insert` links the new node.
  * `FindValue`, `InorderTraversal`, `PreorderTraversal` and
    `PostorderTraversal` are recursive operators, one per method.
  * The state machine is the driver: a root `Node(d)`, then any sequence of
    `insert` calls. `keys` is a history variable holding the values given.
  * `Abstract` instantiates `OrderedSet` with `elems <- InorderTraversal(tree,
    Root)`. That is the refinement mapping: the tree, read in order, is an
    ascending sequence of distinct values.
* `OrderedSet` is what the BST promises, without nodes: `Init` is `Node(d)`,
  a one-value sequence. `Add(v)` puts `v` between the smaller and the larger
  values, or changes nothing when `v` is there.
* `BinTree` (`bin_tree.BinTree.insert`) is an operator on the same records.
* `CheckBst` (`check_binary_search_tree.py`):
  * `check_bst_with_value` and `check_bst` are recursive operators.
  * `MaxSize` stands for `sys.maxsize`, scaled down.
  * The tree starts as any linked tree (check_bst accepts any BinTree), and
    then takes any `BinTree.insert`.
* `LevelOrder`: one action per piece of control:
  * `ReturnNone`: the `root == None` return;
  * `Begin`: the setup;
  * `Visit`: one loop iteration, including the swap;
  * `Return`: the loop exit.

  `CurQ`/`NextQ` are the aliases `queues[level % 2]` and
  `queues[(level+1) % 2]`. The result string is kept as tokens: one per
  value, and `Sep` for each `";\n"`.
* `MergeSorted`:
  * `LListAppend` is `LList.append`, including the walk to the last node.
    `LListInsert` is `LList.insert`, which puts a node in front. The driver
    keeps both lists ascending.
  * `Start` is `merge_sorted` up to its loop, including the crash on an
    empty `LList`.
  * `Link` is one loop iteration. `Return` is the loop exit and the return.
  * `given` is a history variable: both lists' values when `merge_sorted`
    is called. `merge_sorted_doc` is the version kept in the function's
    docstring (lines 78-113), written on values. It is the reference that
    the returned list is compared against.
* `DepthFirstSearch`: the recursion becomes an explicit call stack.
  * `Enter` is a call's prologue: `visited.add`, the print (counted in
    `calls`), and the snapshot `graph[v] - visited` the `for` loop iterates.
  * `Recurse` is one loop iteration and picks any element of the snapshot.
    CPython's set order depends on the hash seed, so no order is assumed.
  * `Return` pops the frame.
* `BinarySearchRotated` and `FindMaxMinIndex`: one action per loop iteration
  and one for each exit. `Half(x)` is Python's `int(x / 2)`, which truncates
  toward zero.
* `CopyArbitraryList` (`amz/copy_arbitrary_list.py`), on an arena like the
  trees: `data`, `nxt` (`Node.next`) and `arbi` (`Node.arbiNode`) per node,
  `alloc` counting the `Node` objects created, `dd` the old-to-new dict.
  * `Build` is the driver: any `insert` (`ListInsert`) or `append`
    (`ListAppend`, with its walk to the last node). Each call gets an
    `arbiNode` that is `None` or a node already in the list.
  * `CopyStart` is the function up to its first loop, with the early return
    for an empty list. `Pass1` is one iteration of the first loop and
    `EndPass1` its exit. `Pass2` is one iteration of the second loop,
    including the `KeyError` when `arbiNode` is not a key of the dict.
    `Return` returns the new head.
* `ArbiListCopy` is what the copy promises, without pointers. A list is a
  sequence of `[data, arbi]` entries, where `arbi` is a position in the
  same list (0 for `None`). `InsertEntry` and `AppendEntry` are the two list
  operations, and `Copy` sets `copy` to the list. `CopyArbitraryList` is
  shown to implement it. The refinement mapping `Entries(h)` reads the list
  at `h`, replacing every `arbiNode` by its position. `copy` maps to
  `Entries(ret)` once the function has returned.
* `SegmentString` (`string/segment_string.py`): `Iterate` is one iteration
  of `check_segment_string`'s loop and `Exit` is the final `return False`.
  The header comment's recursive segmentation is the RECURSIVE operator
  `can_segment_string`.
* `KthPermutation` (`amz/find_kth_permutation.py`): the recursion is
  tail-like, so `Step` is one call. It includes Python's negative indexing
  of `v[selected]`, the `IndexError` when `selected` is out of range, and
  `del v[selected]` on the caller's list. `Return` is the `if not v` exit.
  `k` ranges over `0..n!+1`, which includes the out-of-range calls.
* `AllSubsets` (`amz/find_all_subsets.py`): `get_bit` is an operator on
  `Bitwise`'s `&`. `Outer` and `Inner` are one iteration of each loop.
* `BalancedBraces` (`amz/print_balanced_brace.py`): the recursion becomes
  an explicit stack of frames `[l, r]`. `Check` is the test at the top of
  `print_all_braces_rec`, and `Left`/`Right` are its two recursive calls.
  Each call appends to the shared `output` list, and `Return` pops it.
  `result.append(copy.copy(output))` stores a snapshot. Appending `output`
  itself would store a reference, which the model writes as the model value
  `OutputList`; `Strings` reads the result through it. That is how the
  mutant without the copy is told apart.
* `CoinChange` (`amz/change_coins.py`): `Outer` and `Inner` are one
  iteration of each loop over the `solution` table. The RECURSIVE operator
  `Ways` counts the multisets of coins that sum to an amount.

* The small scripts. Each one is either an operator for a one-expression
  function with a single `Call` action, or one action per loop iteration
  with a `pc`:
  * `FindSumOfTwo`: `Iterate` is one pass of `for a in A`, testing
    `val - a` against `used_v` before it appends. `Exit` is the final
    `return False`.
  * `FirstUniqueChar`: `Count` is one pass of the counting loop. The dict
    is a function whose domain grows with `@@`. `Scan` is one pass of the
    index loop, and `NotFound` is the final `return -1`.
  * `ReplaceNone`: `Step` is one pass, carrying `valid`. `Return` returns.
  * `CheckMonotonic`: the two `all()` over adjacent pairs make up the
    operator `check_monotonic`.
  * `FindMissing`: `find_missing` is the sum formula. The initial states
    are every ordering of `1..n` with one number left out.
  * `FindPrimaryNumbers`: `Outer` and `Inner` are one iteration of each
    loop. `Else` is the `for ... else` branch, taken only when the inner
    loop ends without a break.
  * `ReverseInt`: `str()` becomes a digit sequence, preceded by `Minus`
    for a negative number. `int()` is a fold over digits. `SliceBack` is
    `s[:stop:-1]`.
  * `AverageWordLength`: `Unpunctuate` is the loop replacing `?.,!;`, and
    `split` (in `PyStrings`) is `str.split()`. `Round2` is `round(a / b, 2)`
    in hundredths, with ties to even. A sentence with no word gives
    `ZeroDivisionError`.
  * `MatchUnmatchWords`: both splits become sets, then `^` and `&`.
    `sorted` uses `StrLess`, which is Python's string order with letters as
    small integers.

Each `MC*` module gives the constants small values, and each `.cfg` picks the
properties.

### The composite `MCScripts`

The nineteen scripts that need no separate configuration are checked in one
run. `MCScripts` instantiates each module with its variables renamed: `bt_`,
`lo_`, `dfs_`, `bsr_`, `fmm_`, `kp_`, `as_`, `bb_`, `cc_`, `ss_`, `ts_`,
`fu_`, `rn_`, `cm_`, `fm_`, `pn_`, `ri_`, `aw_` and `mw_`. The
variable `prog` chooses one script per behaviour. The other scripts'
variables stay at the model value `Idle`. A step of script X is
`prog = "x" /\ X!Next` with every other variable unchanged. The scripts do
not share state, so the composite's behaviours are exactly the scripts'
behaviours side by side. Each property is `prog = "x" => X!P`, and each
script with a termination property keeps the fairness of its own `Spec`.

## Runs

| Run | cfg | Result | What it shows |
|---|---|---|---|
| check_bst | MCCheckBst.cfg | pass | Values are strictly inside the bounds, on all 388 linked trees of 1 and 3 nodes and after inserts up to 4 nodes. `check_bst` equals the BST definition, including violations below a grandchild. `insert` keeps a BST a BST (action property). |
| check_bst_boundary | MCCheckBstBoundary.cfg | violation | `BinTree(-sys.maxsize-1)` is reported not a BST. |
| merge_sorted | MCMergeSorted.cfg | pass | Two ascending lists built by `append` and `insert`, 5 nodes in all, with ties. The linked part always holds exactly the consumed nodes, sorted. The returned list is a sorted prefix of the merge. |
| scripts | MCScripts.cfg | pass | The nineteen scripts below, 90,447 states. |
| merge_loses_tail | MCMergeSortedTail.cfg | violation | The rest of the longer list is never linked. |
| merge_empty_crash | MCMergeSortedEmpty.cfg | violation | An empty `LList` raises `AttributeError`. |
| dfs_revisits | MCDepthFirstSearchOnce.cfg | violation | `a:{b,c}, c:{b}`: `dfs(b)` runs twice because of the stale snapshot. |
| btree_empty_root | MCBTreeEmptyRoot.cfg | violation | `Node(None)` traverses to `[None]`, not to the empty result the spec requires. |
| copy_arbitrary_list | MCCopyArbitraryList.cfg | pass | Every list of 1..3 nodes built by any mix of `insert`/`append` with any `arbiNode`. The arena implements `ArbiListCopy` (refinement). The second loop keeps its invariant: copies before `nn` point into the copy and the rest into the original. The function returns without `KeyError`. |
| copy_empty_returns_none | MCCopyArbitraryListEmpty.cfg | violation | An empty list is "copied" to `None`, not to an empty list. |
| segment_header | MCSegmentStringHeader.cfg | violation | `"aaa"` with dictionary `{"a"}` is segmentable, but the one-split loop returns False. |
| primes_include_one | MCFindPrimaryNumbersOne.cfg | violation | `find_primary_numbers(1)` returns `[1]` (TLC's trace; `n = 0` and `2` do too): 1 is listed as a prime. |

What `scripts` checks, script by script:

* **b_tree** (`BT*`): roots 1..6, any inserts of 1..6 into a 6-node arena.
  This includes the list-shaped tree of six levels that ascending inserts
  build. Three things hold:
  * the tree refines `OrderedSet` (`BTRefinesOrderedSet`): every insert
    places its value in order in `inorderTraversal` and loses or repeats
    none;
  * `findValue` finds exactly the inserted values;
  * inserting the preorder, or the reversed postorder, into a new root
    rebuilds the same tree.

  The refinement is written as its `Init` and its `[][Next]_v`, each
  guarded by `prog`. TLC accepts a step formula only at the top of a
  property.
* **level order** (`LO*`): on every tree of up to 4 nodes (and `None`), the
  result lists the levels top-down and left to right. While the loop runs,
  the current deque holds depth `level` and the next one depth `level+1`.
* **dfs** (`DFS*`): all 512 graphs on 3 vertices, every iteration order. The
  result is the reachable set, and no vertex is re-entered while on the stack.
* **rotated search** (`BSR*`): every rotation of every strictly ascending
  array of up to 5 values from 1..5, keys 0..6. The key is found iff
  present, and the loop ends.
* **first/last index** (`FMM*`): every ascending array of up to 5 values
  from 1..3, with repeats, keys 0..4. The results are the first/last index
  or -1, `mid` stays in bounds, and both loops end.
* **k-th permutation** (`KP*`): every `v` of up to 3 values, every `k` in
  `0..n!+1`. For `k` in `1..n!` the result is the k-th permutation in
  lexicographic order of `v`'s positions. At every call the values picked
  and the values left in the caller's list are together the argument,
  repeats counted, so `del v[selected]` empties the caller's list.
* **subsets** (`AS*`): every `v` of up to 3 distinct values. The function
  returns, listing every subset once, each in `v`'s order.
* **braces** (`BB*`): `n` up to 4. The shared `output` always spells the
  calls on the stack, and the result is every balanced string once, in
  order.
* **coin change** (`CC*`): up to 3 distinct denominations from 1..3,
  amounts 0..6. Every table entry counts the ways to pay that amount with
  the denominations processed so far.
* **segmentation** (`SS*`): strings of up to 4 letters over `{a, b}`,
  dictionaries of words up to 2 letters. True is only returned for a real
  segmentation.
* **two-sum** (`TS*`): arrays of up to 4 values from `{1,2,3,5}`, targets
  2..8. The result is True exactly when two distinct positions sum to the
  target. A target twice an element is included.
* **first unique char** (`FU*`): strings of up to 4 letters over 3. The
  result is the first index whose letter occurs once, or -1.
* **replace None** (`RN*`): lists of up to 4 items from `{None, 0, 1, 2}`.
  Every entry is the most recent non-None value, or 0 before the first.
* **monotonic** (`CM*`): lists of up to 4 values from 1..3. True exactly
  when the list, or its reverse, is sorted.
* **missing number** (`FM*`): every ordering of `1..n` minus one number, for
  `n` up to 5. The result is the missing number, 1 and `n` included.
* **primes** (`PN*`): `n` in 0..14. Between iterations, `pn` after its
  leading 1 is exactly the primes below `i`.
* **average word length** (`AW*`): sentences of up to 6 characters over a
  letter, `.` and a space. The result is letters per word, a word being a
  maximal run of letters. A sentence without one raises
  `ZeroDivisionError`. At most three words fit, so no rounding tie occurs.
* **word diff** (`MW*`): two sentences of up to 4 characters over letters
  `{1, 2}` and a space. The first list holds the words of exactly one
  sentence, the second those of both, each ascending and without repeats.
* **reverse int** (`RI*`): every integer in -120..120. The result keeps the
  sign and reverses the digits, and trailing zeros disappear.

No run checks a type invariant: each was replaced by a correctness property.
The level-order walk, the DFS and the merge have no termination property.
Each of their loops consumes a finite queue, stack or list, so no
plausible slip in their code makes them loop without first breaking one of
the invariants above.

### Why these bounds

* **Trees.** The b_tree arena holds six nodes, so the six-level list shape
  is reached. Four nodes allow a violation two levels below the root, which
  is the case a parent-only check misses. They also allow every shape of
  depth 3 and both branches at every level.
* **Lists.** Five nodes with values 1..3 give ties, both lists non-empty
  with a leftover tail, and each list empty.
* **Arbitrary-pointer copy.** Three nodes give an `arbiNode` pointing
  forward, backward, and to `None` (the driver's `insert` and `append`
  take an existing node or `None`, so no node points to itself). Values `{d1, d2}` let two
  entries be equal in data but not in position.
* **Graphs.** Three vertices are the smallest graphs with a vertex reachable
  through two siblings.
* **Binary searches.** Arrays of length 0..5 exercise `mid` at both ends,
  the `high == -1` exit, and every rotation point.
* **Recursive algorithms.** Three values give 6 permutations and 8 subsets.
  Four pairs of braces give 14 strings. Amount 6 with coins 1..3 has several
  ways per amount. Four letters allow the two-split words the one-split loop
  misses.

### Fairness

Each function runs on one thread and never waits. Once called, its next step
is always taken, so weak fairness on the function's steps is what the code
guarantees. It is assumed only where a termination property needs it: the
two binary searches, subsets, braces, coin change and the copy. The
driver's build phase (`BTree`'s inserts) has no fairness. In `CopyArbitraryList` the whole
`Next` is weakly fair: the driver runs straight through to the copy. Runs
whose function returns say `CHECK_DEADLOCK FALSE`, because a returned
function has nothing more to do.

## Findings

* `b_tree.py:37`: the empty tree `Node(None)` traverses to `[None]`.
* `check_binary_search_tree.py:37`: the bounds `±sys.maxsize` are exclusive,
  so a valid tree holding `sys.maxsize` or `-sys.maxsize-1` is rejected.
* `merge_sorted_list.py:72`: `nextNode = nl_2` never links the rest. The
  driver's own merge loses 15 and 19. The version in the function's own
  docstring (`merge_sorted_doc`) links the rest.
* `merge_sorted_list.py:55`: an empty `LList` crashes.
* `deep_search_priority.py:18`: the loop iterates a stale snapshot, so
  vertices are entered more than once.
* `copy_arbitrary_list.py:60`: an empty list is copied to `None`. The
  driver's `printArbi()` on it would raise `AttributeError`.
* `segment_string.py:31`: only one split is tried, unlike the recursive
  version in the header comment. `"applepiepeach"` is rejected.
* `find_primary_number.py:6`: `pn = [1]` lists 1 as a prime. For `n <= 2`
  the result is `[1]`. The trial division itself is right (`PNPrimesBelowCursor`).
* Not a run: `binary_search_rotated` fails on arrays with repeated values
  (`[2,1,1]`, key 2 → -1). Nothing in the code claims to support repeats.

## Not modelled, and why

* `printTree`, `printArbi`, `printlist` and every `print`: output only.
* An `arbiNode` outside the list: the driver never builds one. It would end
  in `KeyError`, which the model keeps as an outcome of `Pass2` but never
  reaches.
* Python's recursion limit: the real depths are far beyond any arena TLC can
  explore.
* Which characters `average_word_length` treats as punctuation. The header
  says to remove punctuation, but only `?.,!;` are replaced, so `:`, `-` and
  quotes count as letters. That is a matter of the header's wording, and
  the model's alphabet has letters and the replaced marks only.
* The docstring `is_bst` of `check_binary_search_tree.py` (lines 7-17). It
  accepts duplicate values, which the live `check_bst` rejects, so it is no
  reference for the tree check.
* `DepthFirstSearch` on four vertices: 65,536 starting graphs, too many for
  a run that every mutant repeats. Three vertices already show the revisit.
* Float precision in `find_missing`: `n*(n+1)/2` stops being exact near
  2^53. TLC's integers are 32-bit, so the model checks the exact range only.

## Plan

The first sitting built the tree modules, the merge, the DFS and the two
binary searches. The second added the copy with its refinement, the
segmentation, the four recursive algorithms, `LList.insert`, and the
composite run. The third added the seven small list and number scripts to
the composite, the primes finding, and the `copy.copy` aliasing in the
braces model. It also replaced most type invariants. The fourth added:

* the `OrderedSet` refinement of the b_tree BST;
* the docstring merge as the reference for the lost tail;
* the average word length and the word diff, with `str.split()` shared in
  `PyStrings`;
* a six-node BST arena.

Every component of the repository is now modelled. What remains is out of
TLC's reach (the recursion limit, float precision near 2^53) or output
only.
