# TLA+ models of the pocketnet.core social layer

This directory holds TLA+ models of the C++ code under `src/src/pocketdb/` and the TLC
configurations that check them. The specification of the layer is `spec.md`.
`PROJECT.json` records four things for every model definition:

- the source lines it translates (`map`);
- the runs;
- the mutants that show each checked property can fail;
- the findings and the hazards of the code.

## The system

The code in `src/src/pocketdb` is the social layer of a proof-of-stake chain. It has
these parts:

| Part | Source | What it does |
|---|---|---|
| Rule classes and factories | `consensus/Reputation.hpp`, `consensus/BlockingCancel.hpp` | A class hierarchy, one class per checkpoint height. Each class overrides some virtual getters (limits and policies). A factory scans the descending list `m_rules` for the first entry whose height the block height reaches. |
| Reputation consensus | `consensus/Reputation.hpp` | `AllowModifyReputation` decides whether a post or comment score may change the target's reputation. It does so under the rule object of the height, with reads through the ratings repository: the reputation, the likers count and a one-to-one score count in a time window. |
| Ratings repository and block pipeline | not in the tree (spec.md 4.4, 5) | The host connects one block at a time. It indexes each score before judging it and commits incrementally. It can abort a block and roll back its rows, and it can disconnect the tip in a reorg. |
| Materializer | `services/TransactionSerializer.hpp` | Classifies a chain transaction by its `OP_RETURN` tag, or a legacy record by its table name. Builds the typed transaction. `DeserializeBlock` walks the entries of a block payload. |
| Transaction models | `models/dto/ScoreComment.cpp` (and headers) | Read a payload, write it back, and build the canonical string the hash is taken over. |
| Feed RPCs | `web/PocketContentRpc.cpp` | Parse request parameters (exclusion and id lists, page sizes, address lists, depth and offset windows) and hand them to repository queries. |
| Comment RPCs | `web/PocketCommentsRpc.cpp` | Route `getcomments` to a by-ids or a by-post query, and read the page size of `getlastcomments`. |
| Statement wrapper | `stmt.h` | `Stmt::Bind` binds arguments to placeholders by a running index. `Cursor::CollectAll` reads columns by a running index. |

They interact like this:

1. The pipeline hands each score to the reputation consensus.
2. The consensus asks the factory for the rule object of the height.
3. It then reads the ratings repository, whose content depends on which blocks the pipeline has indexed, aborted or disconnected.
4. The materializer produces the transactions that the pipeline indexes.
5. The RPCs read the same store and ask the factory for rules at the tip.

## Modules

The modules below are listed from the bottom of the EXTENDS/INSTANCE graph up.

- **`ReputationRules`** models the classes and factories of both `Reputation.hpp` and `BlockingCancel.hpp`.
  - `Parent` and `Overrides` give the class hierarchy and the getters each class defines. The numbers are the code's.
  - `Getter` is virtual dispatch: a RECURSIVE walk up `Parent`.
  - `m_rules` is the descending list, and `FirstMatch` is the factory loop (RECURSIVE). When no entry matches, `FirstMatch` returns `NoRule`, which is how the model represents falling off the end of `Instance`.
- **`RuleTable`** is the abstract description of spec.md 4.3: a flat set of checkpoints. The value of a limit at height `h` is the one set by the highest checkpoint at or below `h` that sets it.
- **`ReputationConsensus`** is one operator per method of `ReputationConsensus`, each taking the class `c` chosen by the factory.
  - The three repository queries are `CONSTANT` operators that return `<<ok, value>>`. A composing module substitutes them with `INSTANCE ... WITH`.
- **`RatingsRepo`** (from spec.md 4.4) models score rows and the three queries.
  - The count covers rows of the pair, with a counted value, at or below the height, inside the window, and excludes the transaction being validated.
- **`ChainScores`** holds what the pipeline `ScoreChain` judges with:
  - the blocks that can be connected;
  - `Judge`, which runs the consensus of `Instance(height)` for one row with and without the lottery flag, through `RC(store)` (`ReputationConsensus` instantiated over a store);
- **`ScoreChain`** is the pipeline of spec.md 5, with variables `chain`, `store`, `pending`, `cursor` and `judged`. Its actions:
  - `BeginBlock` starts connecting a block on top of the chain;
  - `ConnectTx` indexes the next transaction into the store, then judges it against the store that now contains it;
  - `CommitBlock` appends the block and its verdicts to the chain;
  - `AbortBlock` removes the pending block's rows from the store;
  - `DisconnectTip` removes the tip block and its rows.


  The pipeline has no code in the tree. It is there only to drive the consensus of the tree through blocks, aborts and reorgs, where `OneToOneLimit` is checked; no property is stated about the pipeline itself.
- **`TransactionSerializer`** holds both `ParseType` overloads (`ParseTypeOfTx` for the chain), `ConvertOpReturnToType`, `BuildInstance` and the loop body helpers.
  - A disassembled script is a token sequence.
  - A JSON flag is one of `true`, `false`, a non-bool value, or absent.
  - A payload is a record of its form (`json`, `garbage`, `missing`) and the three flags `ParseType` reads.
- **`DeserializeBlock`** makes one call of `DeserializeBlock` a state machine:
  - `Call` reads the block and its keys;
  - `Iterate` is one loop iteration, which either collects or throws out of the call;
  - `Return` returns the vector.

  The node makes one call per block, so a new call may start after one ends.
- **`MaterializerSpec`** contains the tables of spec.md 4.2 and what `deserialize_block` must deliver. The checks compare the code against it.
- **`ScoreComment`** models `Deserialize` (TryGet), `DeserializeRpc` (the client-request reader, whose sender key is `txAddress`), `Serialize` and `BuildHash`.
  - Strings are character sequences, and `std::to_string` is a RECURSIVE digit expansion.
  - The digest is abstracted to the string it is taken over.
- **`FeedRequest`** models `ParseFeedRequest`, the other feed endpoints and the parameters of `GetHotPosts`.
  - `ExcludeLoop` is the trim, keep and break loop of the exclusion arrays. `boost::trim_copy` is modelled on character sequences.
  - `ExcludeLimit` is the constant 100 of the code, and `ArrayLimit` the 10 of `GetContentsStatistic`.
  - `FeedQuery` is the body shared by `GetHistoricalFeed` and `GetHierarchicalFeed`: the parsed request, the `topContentId` lookup (`TopContentId`, with `GetContentIds` a function from known hashes to ids) and the rule object of the tip. `HierarchicalFeedQuery` is `GetHierarchicalFeed`, whose body repeats it. `ContentsAddress` and `RandomContentsParams` model `GetContents` and `GetRandomContents`.
  - `SubscribersFeedParams`, `ProfileFeedParams` and `FeedSelector` model the two feeds and the selector between them. `GetContentHashes` is the id loop of `GetContent`, which is the exclusion loop at index 0. `StatisticAddresses` is the address check of `GetContentsStatistic`.
- **`CommentsRpc`** extends `FeedRequest`. It models `GetComments`, `GetCommentsByIds`, `GetCommentsByPost` and `GetLastComments` as the query each hands to the repository, with `ok = FALSE` when the call throws.
- **`StmtBinding`** models `Stmt::Bind` as a fold over the arguments, with `Binder` recursion into vectors, and `Cursor::CollectAll` as a fold over targets.
  - `Reset` and `Cursor::Step` are in `stmt.cpp`, which is not in the tree. They are modelled from spec.md 5: reuse by reset + clear_bindings, and each step restarts the collection.

Each `MC_*` module instantiates one of these modules for TLC, with small constants.

## Runs

| Run | Checks | Bounds and why they suffice |
|---|---|---|
| `reputation_rules` (pass) | `RuleTableRefinement`: the activation height and every getter of the selected class equal the flat table, and the BlockingCancel factory picks its class of height 1 from height 1 on. `OldPostsWindow`: the content-age test is strict at its edge, only for posts. | Heights 0 and 1, every checkpoint height, one below each, and 10,000,000. Ages one below and at the two depths. |
| `reputation_decision` (pass) | `DecisionMatchesSpec`: the decision equals spec.md 4.5's steps. The steps cover which address is counted (author before 151600 unless lottery, then the rater), the reputation and likers gates, the strict limit and no-data denial. The count query is a strict stub: it answers only the query spec.md 4.5 prescribes (kind, counted address, content author, height, value set, `scores_one_to_one_depth`) and reports any other query as unavailable. So a wrong value set, window, target or kind makes the decision reject where the spec accepts. | Heights at both sides of the checkpoints where a gate or the window changes (up to 322700). Reputations and counts one below and at each threshold. The store can change between scores, including to no-data. |
| `score_chain` (pass) | `OneToOneLimit`: through blocks connected score by score, aborts and reorgs, the accepted post scores of a pair within the window never exceed the limit of the rule at their height. `TypeOK`. | Three blocks of up to two scores across checkpoint 225000 (limit 2, window one day), with block times half a day or a day apart. Three blocks are enough for the window to slide and for the limit to bite within and across blocks. |
| `classify` (pass) | `ClassificationMatchesSpec` for both paths. | Every tag and an unknown one. Scripts with and without `OP_RETURN`, too short, or with a payload. Every table with all 64 flag combinations. |
| `deserialize_block` (pass) | `BlockDeliveredAsSpecified`: a call that ends returns one model per decodable, supported entry, in key order. | All blocks of up to three entries drawn from a supported table, a Subscribes record with both flags, and an unknown table. Also an unparsable block. |
| `deserialize_block_faults` (violation) | The same property, with an entry lacking a string `"t"` and one whose payload does not decode. | The first makes the call throw and lose the block; the second is ingested as an empty transaction. |
| `score_comment_hash` (pass) | `HashDeterminism`: payloads that agree on commentid and value give the same canonical string, whether each is read from the chain or from a client request. | Fields absent, well typed, or of the wrong type. |
| `score_comment_roundtrip` (violation) | `RoundTripKeepsHash`: serialize then materialize keeps the hash. | Violated when the value is absent. |
| `feed_exclusions` (pass) | `ExclusionMatchesReference`: the exclusion lists and the `GetContent` ids equal a reference definition (trimmed, non-blank, cut after limit+1). Failure happens exactly on a non-string item before the cut or an invalid address. | The limits are scaled to 2, so the cut happens within arrays of up to four items. Items are plain, padded, blank, or not strings. |
| `rpc_argument_checks` (violation) | `RpcArgumentsChecked`, which is two checks. `FeedQueryInRange`: every feed page (historical, hierarchical, subscriber, profile) asks for 0 to 10 rows, and `GetHotPosts` looks neither above the tip nor with a negative depth. `CommentsQueryNamesTarget`: an accepted by-post query of `getcomments` names a post or an address. | A page size of -3, a negative depth, a negative offset given as a string, and `getcomments` with no parameters or an empty postid and address. Each of these alone breaks the property; the findings list them. |
| `stmt_binding` (pass) | `BindsInPlaceholderOrder`: bound values sit at placeholders in argument order, as far as there are placeholders, and the index counts every value. `CollectsInColumnOrder`. | Chained calls with scalars, vectors and NULL optionals on four placeholders, up to six values between resets, so calls run past the last placeholder as the code lets them. Rows with NULL columns and fewer columns than targets. |

The findings in `PROJECT.json` record what each violation shows. Each property of a passing run has a mutant, listed in `PROJECT.json`: a plausible bug in a mapped definition that TLC finds.

## Fairness

No run assumes fairness, and no liveness property is checked. The pipeline that could promise progress is host code outside the tree. The RPCs are driven by clients and the statement by its caller; neither promises progress.

## What is not modelled

- **Repository and host.** The implementations of the ratings repository, the host block pipeline and `stmt.cpp` are not in the source tree. They are modelled only as far as spec.md states them.
- **Instance before genesis.** `Instance` called with a negative height is undefined behaviour. No caller in the tree passes one, so it is listed as a hazard without a property.
- **The pipeline and concurrent readers.** The store's commit and rollback, and what an RPC reading through its own `DbConnection` sees while a block is applied, are host code outside the tree. No property is stated about them.
- **Transaction models.** The other transaction models (`Post.h`, `Blocking.h`, `Offer.h`) and the stale `ScoreComment.h` are declarations only. `consensus/social/Base.hpp` is empty stubs.
- **RPCs.** `PocketSystemRpc.cpp` only formats node state (clock, peers, proxies, tip) into JSON.
  - `chainActive.Tip()` in `GetNodeInfo` cannot be null. RPCs are refused until warmup ends, and warmup ends after the genesis block is loaded.
  - `GetNodeInfo` walks the global `WSConnections` without a lock. The websocket threads that change it, and any lock they take, are outside the tree, so the race is listed as a hazard without a model.
  - The repository semantics of `GetRandomContents`' height are not in the tree.
  - Tags and content types are parsed by helpers outside the tree.
- **Larger chains.** `score_chain` with four blocks does not finish within five minutes, so the run keeps three. Three blocks already let the one-day window slide past a block and the limit of 2 bite within and across blocks.
- **`GetLastComments` page size and `GetRandomContents` height.** Neither the code nor spec.md states a bound for them, so there is no claim to check. They are listed as hazards.
- **Tip read twice.** The historical and hierarchical feeds read the tip height twice without a lock. The second read selects `GetConsensusLimit(ConsensusLimit_bad_reputation)`, which the rule classes in the tree do not have. This is listed as a hazard.
- **Canonical-string collision.** The canonical string of `ScoreComment` is ambiguous only for comment ids of different lengths (`"a1"`+`2` = `"a"`+`12`). Transaction ids have a fixed width of 64 hex digits, and spec.md only claims determinism, so the collision is not checked.

## Plan for later work

- **Second `score_chain` configuration.** Start it at 151599 to cross the change of the counted address.
- **Comment scores.** Add comment scores to `ScoreChain`.
- **Statement reuse.** Model reuse of a statement across queries once the behaviour of `Reset` is pinned down.
- **Surplus binds.** Values bound past the last placeholder are dropped silently; check a claim about them if one is ever stated.
