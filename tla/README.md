# TLA+ models of libsignal's left-balanced tree arithmetic and in-memory protocol stores

This directory holds TLA+ models of the Rust sources under `src/`, and the TLC
configurations that check them.

## Inventory

### The system's parts

| Part | Source | State | Operations |
|---|---|---|---|
| Left-balanced index arithmetic | `rust/keytrans/src/left_balanced.rs` | none: pure functions of a `u64` | `log2`, `is_leaf`, `level`, `left_step`, `right_step`, `parent_step` |
| Kani proof harness | same file, lines 69-112 | none | bounded proof of the navigation properties for `x < 2^16` |
| `InMemIdentityKeyStore` | `rust/protocol/src/storage/inmem.rs` | key pair, registration id, `known_keys: address -> IdentityKey` | `new`, `reset`, `get_identity_key_pair`, `get_local_registration_id`, `save_identity`, `is_trusted_identity`, `get_identity` |
| `InMemPreKeyStore`, `InMemSignedPreKeyStore`, `InMemKyberPreKeyStore` | same file | one `id -> record` map each | `get_*`, `save_*`, `remove_pre_key`, `mark_kyber_pre_key_used` (a no-op), `all_*_ids` |
| `InMemSessionStore` | same file | `address -> SessionRecord` | `load_session`, `store_session`, `load_existing_sessions` |
| `InMemSenderKeyStore` | same file | `(address, distribution id) -> SenderKeyRecord` | `store_sender_key`, `load_sender_key` |
| `InMemSignalProtocolStore` | same file | one of each store above, as `pub` fields | every trait method forwards to one field |
| storage module | `rust/protocol/src/storage.rs` | none | re-exports. The commented-out validation tests state what a store must do |
| net build script | `rust/net/build.rs` | none | protobuf code generation at build time |

### How the parts interact

The index arithmetic is a library. The two consumers named in the spec, the log
tree and the implicit binary search tree, are not in this repository. A consumer
walks the flat array. It calls `left_step` and `right_step` to go down and
`parent_step` to go up. It is responsible for the preconditions: never step down
from a leaf, and never ask for the parent above level 62.

Each store is a `HashMap` behind `&self`/`&mut self` methods declared with
`async_trait(?Send)`. No method awaits anything, so each call completes as one
step. The borrow checker rules out two calls running on the same store at once.
`InMemSignalProtocolStore` forwards each call to exactly one of its fields, and
no method touches two fields.

Two kinds of checking code exercise these parts:

- The Kani harness calls the step functions on one symbolic index.
- The validation suites and unit tests, kept in comments, call the stores.
  - Each test builds its own store.
  - `cargo test` runs the tests in parallel, so they interleave but share nothing.

### What is hard

- **Bit-level edge cases.** Small examples cannot show that the three step
  functions agree, and the Kani harness stops at `2^16`. The hard cases are at
  the top of the word:
  - `3 << 63` loses a bit.
  - `parent_step` shifts by 64 or 65 at levels 63 and 64. A debug build panics
    there, and a release build masks the shift amount.
- **Parent/child asymmetry.** `parent_step` treats left and right children
  differently. If the test is written backwards, the parent is still plausible
  but wrong for half of all nodes.
- **Sequences of store calls.** A result can be wrong only after a particular
  history of saves, overwrites, removals and resets. Examples: a replaced
  identity key, or `reset` followed by a different key.

### What makes each part correct

- Index arithmetic: the steps are in-order navigation.
  - A node's left and right children are the roots of the lower and upper
    halves of its subtree.
  - `parent_step` returns to the node a child came from.
  - `log2` is floor(log2) with `log2(0) = 0`.
- Identity store: trust on first use.
  - Answers follow the last save since the last reset.
  - Every change of a stored key is reported as `ReplacedExisting`.
- The validation suites pass against the session and identity stores.

The pre-key, session and sender-key stores, and the protocol store's
forwarding, are plain `HashMap` operations. Nothing in the repository states a
contract for them beyond what the code does. For example, a read returns the
last insert, and the bulk load is all or nothing because it ends in
`collect::<Result<Vec<_>>>()`. A property about them would restate the
definitions, so their modules model every operation but no run checks them on
their own. The session store is exercised by the validation suites.

## Modules

| Module | Models | State and actions |
|---|---|---|
| `LeftBalanced` | `left_balanced.rs` lines 33-66 | Operators over `W`-bit words (constant `W`, 64 in the code). `Shl`/`Shr` use Rust's shift semantics: bits above `W-1` are dropped, and a shift amount `>= W` is a debug panic or a release masked shift. `ParentStepOutcomes` is the set of results the two builds can produce. |
| `TreeSpans` | the spec's promise, with no bit arithmetic | `span`, the interval of array positions under the cursor. Actions `Left`, `Right`, `Up` are defined by midpoints and alignment. |
| `TreeNavigation` | a consumer calling the steps | `cursor`. `GoLeft`, `GoRight` and `GoUp` are one call each, guarded by the consumer's preconditions. A refinement mapping `SpanOf` sends a node of level k to `x - (2^k-1) .. x + (2^k-1)`. `ClimbSpec` only climbs, with weak fairness on `GoUp`. `UncheckedClimbSpec` calls `parent_step` at any level (`GoUpUnchecked`). |
| `IdentityKeyStore` | `InMemIdentityKeyStore` | `known_keys`, `ret` (the last call and its result), and a history `lastSaved`. One action per method. |
| `PreKeyStores` | the three pre-key stores | `maps`, one map per store name (`pre`, `signed`, `kyber`), and `ret`. One action per method, built from `Get` and `Write`. |
| `SessionStore` | `InMemSessionStore` | `sessions` and `ret`. One action per method. |
| `SenderKeyStore` | `InMemSenderKeyStore` | `keys` keyed by `Addresses \X DistributionIds`, and `ret`. |
| `SignalProtocolStore` | `InMemSignalProtocolStore` (inmem.rs 355-528) | the six fields as instances of the four store modules on disjoint variables, and one shared `ret`. `identity_methods`, `pre_key_listings` (the inherent `all_*_ids`), `pre_key_methods` (the three pre-key trait impls), `session_methods` and `sender_key_methods` are the forwarding methods grouped by the field they call. `reset` and `load_existing_sessions` are not trait methods and stay on the fields. |
| `KaniHarness` | `verify_tree_navigation_properties` (left_balanced.rs 69-112) | `x` (from `kani::any()` under `kani::assume(x < AssumeBound)`) and `pc`. `ChildrenBlock` is Property 2 and `ParentBlock` is Property 3. Each evaluates its assertions in code order and stops at the first failed one, or at a shift overflow, which Kani reports. |
| `SessionStoreTest`, `IdentityStoreTest` | one test function against a fresh store | the store's variables, `pc` (the next statement; 0 once an assertion fails) and, for identity, the two generated keys. `Script` is the test's list of statements, each a store call and the assertion on its unwrapped result. |
| `ValidationTests` | the tests kept in comments in `storage.rs` (33-122) and `inmem.rs` (530-575) | four instances of the test modules, one per `#[tokio::test]`, with the four scripts translated statement by statement. `cargo test` runs the tests on parallel threads, so a behaviour interleaves them; they share no state, so the order cannot change an outcome. |

Each `MC*.tla` module extends its model and adds the definitions its `.cfg`
substitutes. Mutant operators sit just before the definitions they replace, and
their comments name the bug each one stands for.

## Runs

| Run | What it checks | Result |
|---|---|---|
| `tree_navigation` (`MCTreeNavigation.cfg`) | `ImplementsTreeSpans`: every step from every node of the largest 8-bit tree (indices 0..254) is the TreeSpans step. `Log2IsFloorLog`. `TypeOK` | pass, 255 states, every state initial |
| `right_step_all_ones` (`MCTreeNavigationAllOnes.cfg`) | `RightChildAbove` from the all-ones index | violation: `right_step(255) = 127 = left_step(255)` |
| `parent_overflow_release` (`MCTreeNavigationUnchecked.cfg`) | `ParentOverflowAborts` under `UncheckedClimbSpec`: a caller asks for the parent at any level, and each overflowing call must abort | violation: in a release build, `parent_step(127) = 254`, which is a leaf |
| `identity_store` | `TrustFollowsSaves` and `ChangesAreReported`, with 2 addresses and 3 keys | pass |
| `tree_climb` (`MCTreeNavigationClimb.cfg`) | `ReachesRoot`: under `ClimbSpec`, a consumer that only calls `parent_step`, weakly fairly, reaches level W-1 from every node | pass |
| `kani_harness` (`MCKaniHarness.cfg`) | `HarnessHolds` for every x below `2^W - 1` | pass: the harness would hold with its bound raised to `u64::MAX` |
| `kani_harness_no_assume` (`MCKaniHarnessNoAssume.cfg`) | `HarnessHolds` with no assume | violation at `x = 2^W - 1`: `parent_step(left_step(x))` shifts by W |
| `validation_tests` (`ValidationTests.cfg`) | `TestsPass`: no assertion of the four tests fails, for every pair of distinct generated keys among 3 and both fresh session records | pass |

### Findings

For `x = 2^64 - 1`, `right_step` returns `2^63 - 1`, the left child. The spec
(sections 4, 7 and 8) requires `right_step(x) > x` for every non-leaf `x`, and
requires a failure to be loud. The Kani harness does not reach this index. No
tree that fits in a `u64` contains the index, so the divergence matters only to
a caller that has already lost track of the tree's shape.

The Kani harness bounds `x` by `1 << 16`, with a comment that the bound is for
"reasonable tree sizes". The `KaniHarness` runs show that the bound is only
needed for one index:

- With the assume removed, the first failure is at `x = 2^64 - 1`:
  `parent_step(left_step(x))` shifts by 64.
- With any bound up to `2^64 - 1`, the harness holds.

As written, the proof therefore does not cover the top of the word, and that
is where the `right_step` divergence above lives.

The spec's failure semantics say that a `parent_step` which overflows the index
width is a defect to signal, not a value to return. The code has no check of
its own:

- A debug build panics on the shift by 64.
- A release build masks the shift amount. `parent_step(2^63 - 1)`, the root of
  the largest tree, then returns `2^64 - 2`, which is a leaf.

`Panic` is modelled as -1, a value no `u64` takes, so that the outcome set of
an overflowing call is a set of integers.

### Bounds

- **W = 8.** Each step touches at most bits k-1, k and k+1. Every case the
  64-bit code distinguishes therefore occurs at 8 bits:
  - left and right children at every level from 1 to 7;
  - a right child whose bit k+1 is set;
  - the all-ones word;
  - the level W-1 root, whose parent would overflow.
- **Identity store.** Two addresses and three keys are enough for every
  behaviour: a first save, a replacement by a different key, a reset followed
  by a third key, and a second address left untouched.

- **Kani harness at W = 8.** The harness's guard `lvl < 63` becomes `lvl < W-1`.
  The 8-bit word has the same top-of-word cases as the 64-bit one.
- **Validation tests.** There are 3 identity keys, so every ordered pair of
  distinct generated keys occurs. There are 2 session records, so the
  overwrite in test 4 can store a different record.

### Fairness

Only one liveness property is checked: `ReachesRoot`, under `ClimbSpec`.

`ClimbSpec` is a consumer that computes a node's path to the root, as the log
tree's direct path does. It calls `parent_step` in a loop until the root. The
loop is all the consumer does, so while a parent can still be asked for, it
eventually is: this is `WF_vars(GoUp)`. Nothing else is assumed fair.

- The stores have no waiting. Every method is one synchronous step.
- The tests finish by construction.
- `ClimbSpec`, the Kani and the test runs stop at the end, so their cfgs set
  `CHECK_DEADLOCK FALSE`. Each cfg says why in a comment.

## Not modelled

- **The storage module's re-exports and `build.rs`.** They have no run-time
  behaviour. `build.rs` only runs protobuf code generation at build time.
- **Key material and records.** These are model values. Signatures,
  serialization and `SessionRecord` contents are outside these files.
- **The log tree and the implicit binary search tree.** These consumers are
  not in this repository, so their bookkeeping is not modelled:
  - computing the root from `log2(n)`;
  - tree growth by appending leaves.

  The walkers in `TreeNavigation` stand for any caller of the three steps.
- **Panic paths.** `left_step`/`right_step` on a leaf, and `parent_step` above
  level W-2, are modelled as outcomes. The walker keeps the preconditions that
  the spec assigns to the consumer. The Kani runs reach the overflowing
  `parent_step`.

## Further work

Every component of the repository that has run-time behaviour is modelled.
`build.rs` only runs protobuf code generation at build time, so it has none.

`mark_kyber_pre_key_used` is a no-op in the code: a Kyber pre-key stays
readable after it is marked used. `save_pre_key` overwrites an existing record,
and the code's own comment asks whether that is correct. Nothing in the
repository says whether a marked key must become unavailable, so no property
asserts either way. Such a property can be added once the trait's documented contract
is part of the repository.
