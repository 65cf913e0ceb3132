# Soppo, specified

TLA+ specifications of Soppo, a compiler from the language Soppo to Go (`src/src`), and of its
language server (`src/lsp`). TLC checks them on small instances, TLAPS proves theorems about them
for every instance. Paths below are relative to the repository; `src/deps.rs` is the compiler's,
`lsp/src/lib.rs` the language server's.

    tlc -workers 2 -config MCDepGraph.cfg MCDepGraph     # a run
    tlapm BuildProofs.tla                                # the proofs

`PROJECT.json` lists the components, the runs, for every property a mutated definition that breaks
it, the source lines of every definition, the hazards, the findings and the theorems. A definition
named `X_Y` with the comment "Variant" is such a mutation of `X`; nothing else uses it.

## The system

| component | source | state | operations | what makes it correct | status |
|---|---|---|---|---|---|
| dependency graph | `src/deps.rs` | edges, in-degrees, queue, result; path and visited files of the cycle search | `build`, `topological_sort`, `find_cycle` | dependencies before dependents, a cycle reported exactly when there is one, and a real one | modelled, proved |
| global context, name resolution | `src/types/ctx.rs`, `src/types/infer/{mod,decl,expr}.rs` | registry of names per module; scope, imports, used imports, errors of an `Infer` | `process_imports`, `register_file_declarations`, `infer_file_bodies`, `check_unused_imports` | a name is found exactly if it is declared where it is looked for | partly: names, not types; proved |
| project build | `src/build.rs` | packages processed, the context handed on, outputs | `build_project`, `compile_package`, `build_project_to_disk` | nothing wrong reaches the disk, nothing right is rejected | partly, proved |
| workspace check | `src/build.rs` `typecheck_workspace` | diagnostics, symbol tables, context | one pass over all files | one file's error costs the others nothing; what is reported is so | partly, proved |
| language server | `lsp/src/lib.rs` | four maps behind locks, the handlers in flight | the LSP notifications and requests | what the editor shows follows from its texts; requests are answered | modelled, proved |
| nil-flow analysis | `src/types/infer/{stmt,mod,expr}.rs`, `diverges` in `src/types/ast.rs` | nil and variant states in scopes, error companions | narrowing in `if`, `match`, `select`, loops, assignment | a value taken for non-nil is not nil | partly: variables, proved |
| scopes, mutability, unused variables | `src/types/infer/{mod,stmt,decl,pat}.rs` | stack of scopes with used and constant marks | `push_scope`, `insert_var`, `insert_short_decl_vars`, `mark_var_used`, ... | what is accepted Go compiles too, and every use means the same variable in both | partly: names, not types; scopes proved |
| unification | `src/types/infer/{unify,bonk}.rs` | substitution | `unify`, `substitute` | the substitution stays acyclic, what was accepted stays so | partly: types as constructors, proved |
| exhaustiveness and patterns | `src/types/infer/{pat,stmt}.rs`, `src/codegen/stmt.rs` | errors, then the Go written | match check, `gen_arm_with_mode`, `gen_struct_match` | no value falls through an accepted match, and the arm that is meant runs | modelled, proved |
| code generation | `src/codegen` | what is emitted | a statement at a time | the Go code does what the source says | partly: declarations and `match` |
| lexer, parser | `src/syntax` | cursor | text to tree | nothing of the text is lost, operators bind as in Go | partly: words, not letters |
| formatter | `src/fmt.rs`, `format_files` | output, comments still to print | tree and comments to text | the text printed is read as the tree it was printed from; no comment is lost | partly: words and lines, not columns |
| sniff (lints) | `src/sniff` | scopes, ignore comments | three rules | no false reports | partly: the shadow rule |
| test and doctest runner | `src/test.rs`, `src/doctest.rs` | temporary directory, child process | `run_tests` | a failing test is reported | not modelled |
| Go packages: resolution, extraction, cache | `src/go` | cache on disk | `get_or_parse` | what is cached is what would be parsed | not modelled |
| playground and tour servers | `www/*/…/+server.ts` | temporary directory, child | compile request | every request is answered, nothing is left | not modelled |
| configuration and discovery | `src/config.rs`, `src/go/project.rs` | none | file-system queries | their result is an initial state here | not modelled |
| attribute registry | `runtime/attr.go` | a map behind an RWMutex | register, look up | the lock's own | not modelled |
| command line, error rendering | `src/main.rs`, `src/error.rs` | none | | wording | not modelled, but for `format_files` |

How they interact. `sop build` calls `build_project`: it has `DepGraph::build` parse the sources and
resolve their imports, has the files sorted, groups them into packages and compiles one package after
the other, each with a fresh `Infer` and the `GlobalCtxt` the last one left; the Go code collected is
written at the end. `typecheck_workspace` does the same sort but checks file by file, with the editor's
texts in place of the files, and collects errors where the build stops. Within a file, one walk over the typed statements checks names,
constants, nil states and matches together; the generator walks the result and writes Go, which has rules of its own about the same
names and the same switches. `sop fmt` goes from text to tree to text and meets none of the others. The language server calls `typecheck_workspace`
on every change, from handlers that overlap and share the open texts and the resulting workspace under
two `tokio::sync::RwLock`s.

What is hard to test in it: `HashMap`s and `read_dir` iterate in an order that differs from run to run
and reaches the sort, the choice of which package comes first and which unused import is reported; one
context and one import table are carried over many files; an error in one of many steps must neither
hide others nor let output through; two compilers, Soppo's checker and Go's, judge the same program by different rules, and what the first
accepts the second must; a formatter has to print what a parser of several thousand lines reads back as the same tree; and in the server up to four handlers interleave at every await, with
two locks taken in both orders. `PROJECT.json` lists these places line by line under `hazards`.

## The modules

    DependencyOrder         what a sort of files by dependency promises
    DepGraph                the sort and the cycle search          (implements DependencyOrder)
    Lists                   a loop over a list
      Iteration             lemmas about such a loop, for any turn
    NameTable               names, registry, imports, lookups      (extends DepGraph, Lists)
      Compile               sop build                              (extends NameTable)
      Workspace             typecheck_workspace                    (extends NameTable)
      BuildProofs           theorems about DepGraph, Compile and Workspace
    RwLock                  tokio's fair read-write lock
    LspServer               the language server's handlers         (extends RwLock)
      LspProofs             theorems about LspServer, and lemmas about the lock
    NilFlow                 the nil check of a function body, and a run of it
      NilFlowProofs         theorems about NilFlow
    Unify                   unification, a pair of types at a time   (extends Lists)
      UnifyProofs           theorems about Unify
    Bindings                scopes of the checker, the shadow lint and Go  (extends Lists)
      Scopes                the statements of a function body        (extends Bindings)
        ScopesProofs        theorems about Scopes: its blocks and names
          MarksProofs       the same: what is used, assigned, constant
    Matching                a match through checker and generator
      MatchRun              what Go makes of it, and a run           (extends Matching)
        MatchProofs         theorems about MatchRun
    Tokens                  words, tokens and nodes
      Parser                types, expressions, patterns, statements (extends Tokens)
        FileParser          declarations and files                   (extends Parser)
          Formatter         fmt.rs                                   (extends FileParser)
            SourceFile      a file typed and formatted               (extends Formatter)
    MC...                   constants for TLC

### DependencyOrder, DepGraph

A project is what the file system shows: `.sop` files, which of them are sources (`sop.mod` may
exclude some), which do not parse, directories, package clauses, import lists. `DepGraph`
has one action per stage of `topological_sort`: `Build` or `BuildFails` (`DepGraph::build`),
`CountDegrees`, one `PopFile` per turn of the `while` loop, `SortDone` or `SortStuck`, and one `DfsStep`
per dependency that `dfs_find_cycle` looks at, its recursion kept as the explicit stack
`path`/`untried`. `edges` keeps one pair per occurrence, because the code's `Vec` of dependencies has
duplicates and its counters count them. Where the code iterates a hash map (the first queue, the
dependents of a file, the fallback list of a cycle) any ordering may come out.

Files are numbers, in the order of their paths, since `find_cycle` starts at the least one and tries
dependencies sorted. A path is a model value; a local one is the directory it stands for.

`DependencyOrder` is the promise: files handed out one by one, each only when all it depends on
is out, `accepted` only with all out, `rejected` only for a graph with a cycle. `DepGraph` implements it with
`done = result` and the verdict read off `phase`.

### NameTable, Compile, Workspace

A `for` loop of the code over a list is `Each` of `Lists`: an operator that makes the next state from the last one and an element. It is a
recursive function inside, not a recursive operator, so that loops can be reasoned about.

`NameTable` has the checker as functions of the pair of `GlobalCtxt` and `Infer`: `Import`,
`RegisterDeclarations` (pass 1), `InferBodies` (pass 2), `CheckUnusedImports`. A file is its list of
imports (path, name bound, alias or not) and its declarations, each a kind, a name and the names it uses,
bare or qualified. The variants of an enum are declarations after it, since they enter the scope when it is inferred; a method whose receiver is an enum,
which `register_func_signature` refuses, is a kind of its own, for the registry knows the enum only if it is declared above the method, and
that order is left to the kind. A lookup finds a name or does not; types are left out, and so are local variables,
which do not outlive a body. A use is collected and looked up wherever the code would do it: bare names in the
scopes, then in the module's functions, constants and types; qualified ones in the module the import
stands for, or in what the Go package exports.

`Compile` is `build_project`: `SkipFile` and `StartPackage` for its loop, `ImportFile`, `DeclareFile`,
`InferFile` for the three loops of `compile_package` over a package's files, `FinishPackage` for the
error checks and the outputs, `WriteFile` for each file written, which may fail.

What Go asks of the names is stated apart from what the checker permits. `InGo` says of a use in a file: a bare name is declared in the file's own package, one declared in
the package's tests only for a test; a qualified one is exported by every package that the qualifier stands for in the file itself. The checker is more permissive, and `KnownGap` names where:

| gap | what is found | code |
|---|---|---|
| `StrayName` | a bare name that is a method, a variant without its enum, a name of another package of the directory (`p_test` beside `p`), or, outside tests, of a test | `decl.rs` 187, 577; `ctx.rs` 228 |
| `StrayMember` | the same of an imported directory: a method, or a name of its tests | `expr.rs` 1433 |
| `PackageAlone` | the name of an imported package with nothing behind it | `mod.rs` 499 |
| `SiblingsImport` | a qualifier that another file of the package imports | `build.rs` 199 |
| `BoundTwice` | a member of one of two paths that files of the package bind to the same name, where the file's own import may be the other | `mod.rs` 488 |

In each of these, Go code is written that the Go compiler may refuse. Every name of the model is taken to be exported, and what Go says of imports as such (bound twice
in a file, or not used in it) and of two packages in one directory is not asked.

`Workspace` is
`typecheck_workspace`, a file per step: `SkipOnImports` when an import fails,
`CheckWhole` otherwise, `AbortOnParse` for an editor text that does not parse.

### RwLock, LspServer

`RwLock` is what the server uses of `tokio::sync::RwLock`: a first-in first-out queue in which a
reader waits behind a waiting writer, and a lock that is handed to the waiter the moment it is free.

`LspServer` numbers the editor's messages; the handler of message *h* is process *h*, and a text is the
number of the message that brought it (0 is the file on disk). `turn` is the handler being polled:
tower-lsp runs up to `Concurrency` = 4 handlers in one task (`buffer_unordered`), so a handler keeps its turn until it
waits for a lock or for room in the channel to the client. A handler's `pc` names the place it goes on at when
the lock it awaits is its own.

| action | code |
|---|---|
| `Update`, `Store` | `did_open`, `did_change`: `update_document` stores the text |
| `Find`, `Init`, `Adopt` | `try_init_workspace`: checks with `open_documents` read-locked, and keeps it while it awaits the workspace |
| `Root`, `Clone`, `Replace` | `rebuild_workspace`: clones the texts, checks without a lock, replaces the workspace |
| `Publish`, `Show`, `Shown` | `publish_workspace_diagnostics`: both read locks held, one message per file |
| `FallBack` | the single-file analysis after a failure |
| `Close` | `did_close` |
| `Ask`, `Look`, `Answer`, `LookAgain`, `Collect` | `hover` (one look at workspace and texts) and `rename` (two; the second also when the first found no workspace) |

`hover` also stands for go-to-definition, completion and prepare-rename, `rename` for references: they
take the same locks in the same order. Document symbols, signature help and formatting take one lock
at a time and hold none while waiting, so they disturb no other handler; they are left out. So are
`documents` and `sniff_enabled` as locks: no handler keeps them across an await. A set `bad`
holds the texts for which `typecheck_workspace` returns an error of its own; any text may be one.
Two things come from the libraries: a handler is polled first in the order of arrival, and
later in any order in which it is ready, which includes the first-in first-out order the executor uses. Tokio's
cooperative budget, which may make a handler yield early, is left out.

### NilFlow

`NilFlow` reads a function body statement by statement, as `infer_stmt` does, and lets one run of the compiled
body take the same statements. The body itself is no variable: a behaviour is a body and a run of it. The checker has `scopes`
(for each name the type it is bound with and the nil state entered, the code's `scopes` and `nil_state`), the open `blocks`
and `companions` (`error_companions`); the run has `env`, its values scope by scope.
Every block has two scopes, that of the narrowing or of the loop's variables and that of `infer_block`.

The run is at the statement read when `env` is as long as `scopes` (`Here`). It is shorter while the run is past
the block, having taken the other branch or left by `break`, and empty once it returned. Inside a block the run is not in, the
checker's scopes are discarded before the run goes on, so there only what survives them is read: whether the
block diverges (`Skip`) and what calls enter in `companions` (`SkipCall`).

An error of the checker is a guard: a rejected body has no behaviour. Types are `?*T` (nullable), `*T`
(pointer) and `error`. Right-hand sides are nil, `new` (also `&T{}`), `make` (a call of type `*T`), `find` (of type `?*T`) and
variables. `x, e := f()` is the call whose error is nil only with an object, the convention the companion
narrowing relies on. A condition has one or two operands: comparisons with nil, and at most one other,
which may dereference a variable. Three things stand for more than they say: the run enters a loop body
with any values the checker's facts allow, so one pass stands for every iteration; `continue` is `break`; and a
dereference `*x` is also the field access `x.f`. After a loop, what a call returned before it is no longer taken to be
related (`tied`), which accepts fewer bodies.

The checker lets six constructs through that may dereference nil. Each is named in `TrapKinds`, and a body may contain it if
its name is in `Traps`; with `Traps = {}` the run shows that they are the only ones within the bounds, and `NilFlowProofs`
that they are the only ones at all; with any one of them in `Traps` TLC finds a nil dereference.

| trap | example | code |
|---|---|---|
| `join` | `if x != nil \|\| c { *x }` | `stmt.rs` 95-110, 750 |
| `rebound` | `if x != nil { { x, e := f(); *x } }` with another `x` inside | `stmt.rs` 1844, 674 |
| `pair` | `p, q = nil, v` where `p` is a `*T` | `stmt.rs` 589 |
| `call` | `x = make()` in a block where `x` is narrowed, `x = nil` after it, `*x` after the block | `stmt.rs` 515, `mod.rs` 2525 |
| `match` | `match x { default: *x }`; a `match` without a default whose arms all return; a `break` in a `match`, which leaves the Go `switch` | `stmt.rs` 943, `ast.rs` 417, `codegen/stmt.rs` 462 |
| `stale` | `x, e := f(); x = nil; if e != nil { return }; *x` | `stmt.rs` 804 |

### Unify

`Unify` is the one substitution of an `Infer`, to which every call of `unify` adds. The recursion of `unify_inner` is a
list of the pairs still to visit, `work`: `Descend` puts the pairs of parts in front, in the order of the code's loops,
`Solve` binds a variable, `Agree` passes a pair, and `Clash` is the `?` that leaves all loops at once, with what was bound on
the way left in place. A type is a name whose outermost constructor `Shape` gives: the code decides by the prefix of a name
(`*`, `[]`, `chan `, `map[`), by tables and by lookups, all of which is the constructor's `class`. `substitute` and
`resolve_alias` copy whole types; here `Follow` replaces at the root, one replacement a step, when a part is looked
at, which finds the same since a solution never changes (`Root`: there is nothing to replace). `Occurs` is the code's search of the type copied: the variable is in every
set that holds the type's variables and is closed under solutions.

`UnifiedTypesMatch` asks of every pair accepted what unification is for, with rules of its own (`Accepts`, `Alike`): that the two agree, part by
part and solution by solution, as far down as `MaxDepth` levels (`MatchTo`). Of accepted pairs, two kinds do not match later, and `waved` keeps them: an interface with a variable still open (it may become a
nilable pointer, which would have been refused), and a pointer or slice without its element, which the code accepts since
the name spells it.

### Bindings, Scopes

Three readers walk over one function body: the checker (`infer_stmt` and its scope stack), the shadow lint (`check_stmt` of
`sniff/rules/shadow.rs`), and the Go compiler, which reads the statements that `codegen/stmt.rs` writes for it. `Bindings` has the stack of each
and the functions that work on it (`insert_var`, `insert_const`, `insert_short_decl_vars`, `mark_var_used`, `check_var_mutable`,
`check_unused_vars_in_scope`; `check_shadow`; Go's declarations, assignments and uses), `Scopes` one action per statement that opens, closes or
touches a scope: `VarDecl`, `MultiDecl`, `ConstDecl`, `Decl` (`:=`), `Assign`, `Reassign`, `Step`, `IncDec`, `Use`, `TryDecl`, and the pairs that open and
close a block, an `if` with its `else`, loops, match arms, select cases, error handlers and closures. `BeginFunc` inserts parameters and results in the
order of `infer_func_decl`; `LeaveEarly` is its return when one of them is there twice. A declaration is known by its number, so that a use can be compared: which
declaration the checker finds and which one Go finds. Types are left out; each name is one value.

### Matching, MatchRun

`Matching` takes a `match` through the code that handles it. `InferArm` is one turn of the checker's loop over the arms, with the bindings
of `add_pattern_bindings` or, for several patterns, those of `collect_pattern_bindings` that must agree; `EndMatch` has the test of
exhaustiveness, and the function's test of a missing return; `GenArm` writes an arm as a clause of a type switch, of a value switch, or of the chain of ifs that
a struct match becomes; `EndSwitch` adds the `panic("unreachable")`. `MatchRun` says when Go compiles the clauses (labels, duplicates, unused `__v`, scope,
terminating statements), which is the language's definition and not this repository's code, and `Run` executes them on a value of
the scrutinee's type, nil among them. `AsWritten` is the reference: the first arm with a pattern that matches, else the default. A body is known by how it ends: it falls through,
returns, breaks, branches (an `if` whose both branches return), or panics.

### Tokens, Parser, FileParser, Formatter, SourceFile

A text is a sequence of words, of which `NL` ends a line; names, literals, paths and comments are members of small sets. Comments are line comments, a block comment of one line and one of two. `Lex` is the token stream with lines and
the comments set aside, as `Parser::new` keeps them. A parsing operator takes the stream and a place and returns a node with the place after it, or
place 0 for an error: `ParseX` is `parse_x`, alternative by alternative, in the code's order and with its lookaheads. A node has a kind, its words, its children and its
first and last line, since the formatter decides about blank lines and comments by line. A comment is looked for from two sides, as in the code: `Doc` is what the parser takes for a
declaration's documentation (`get_doc_comment`), `DocStart` where the formatter takes it to begin (`emit_comments_before_decl`). `Formatter` prints a node as `fmt.rs` does; its state, what is printed and
which comments are still to come, is passed along and returned. `SourceFile` lets somebody type: a topic is a frame with a hole and a set
of fragments, and `Write` puts any of them next, so every composition of the fragments is a text. `Rewritten` is what `format_files` leaves on disk.

Parsing and printing are functions, so the properties are about every text typed (`[][P(text')]_vars`), and not about an order of steps.
Indentation and the alignment of columns and comments are left out; blank lines are kept. So are the letters: number and rune literals other than two integers, raw strings and tags that span lines,
and what is within a comment, as the pattern of block comments (`lexer.rs` 14), which runs past a `**/`.

## The runs

A property is listed with what its violation would mean in the code; the module has it in full.

**`dep_graph`** (`MCDepGraph`, 4 files in 2 directories, all import lists out of five for two of the
files and out of two for the others, a file listed twice, a file left out of the sources, a test of the package or an
external one, a file that does not parse). Shown: the counters are what a fresh count would
give, occurrences and files that are no sources included (`DegreesAreExact`); the queue is exactly what is ready and
nothing comes out twice (`QueueIsReady`); every prefix of the result has a file after all it imports, and a test
after its package (`OrderRespectsImports`, stated on the imports and not on the edges the code derives); the
verdict is the package-level one although files are sorted (`VerdictIsExact`); a reported cycle is
one (`CycleIsReal`); it returns (`SortReturns`); it implements `DependencyOrder`
(`SortKeepsPromise`). Two directories and three or four files are enough for cycles within a package's
own directory and across two, for a lead-in before the cycle, and for a double import on and off a cycle.

**`compile`** (`MCCompile`, 3 files: two in one directory, the second package imported plainly, blank
or not at all; a Go package and a path where no package is, which may have the second package's name for an alias; tests and an external test package; functions, methods, variants, methods of enums and values). Shown: the registry handed from package to package holds
for every directory what its registered files declare (`RegistryIsExact`); Go code reaches the disk only for a
project compiled whole, and every name used in it is one that Go finds where it looks, but for the five gaps above (`BuildIsSound`; without any of them TLC finds a counterexample); a package with nothing to object to is
rejected only if it was compiled before a package it imports (`OnlyOrderRejectsCleanCode`). Three files are the fewest for the interesting case, a package whose second
file needs a package that its first file does not wait for.

**`workspace`** (`MCWorkspace`, 4 files, two in the root directory, one in another, one in either; the
editor may hold other imports or an unparsable text). Shown: every file the loop has
passed has symbols or an error, and lacks symbols only for a missing import of its own (`EveryFileAnalysed`); a name reported as
undefined is undefined or falls under one of the named causes (`ReportsAreExplained`, which lists
exactly what the per-file check is known to miss).

**`lsp`** (`MCLspServer`, 4 messages, 2 files, all interleavings, with fairness). Shown: rebuilds never put an
older text back (`WorkspaceNeverGoesBack`), though the check is made before the lock is requested; a quiet server has the workspace of its texts
if they can be checked (`QuietWorkspaceIsCurrent`); a request reads symbols and text of one version unless
an update is at work (`QueriesReadOneVersion`); if no text was ever bad, all diagnostics are current at rest
(`CleanSessionSettles`); the handlers come to an end or are in the one deadlock named
(`HandlersReturn`). Four messages are as many handlers as tower-lsp runs at once; three suffice
for each race found. With five messages about one file, where one waits for a place, it passes too.

**`nil_flow`** (`MCNilFlow`, two pointers and an error, up to four blocks and variables together, bodies of any length,
no trap). Shown: no run of an accepted body dereferences nil (`NilSafe`); a variable of a type `*T` holds no nil, also where
the run is while the checker is elsewhere (`TypesAreHonest`); where the run is, what the checker takes for non-nil is not, through
shadowing, branches that end, loops and companions (`NarrowedIsNonNil`); no run gets past a block that
`diverges` says never ends normally (`DivergingBlocksEnd`). Two names are what shadowing against aliasing (`x := y`) needs,
and the four leave room for a variable, an error and two blocks; offline, one name with three nested blocks and two
variables passes too.

**`unify`** (`MCUnify`, 16 types, two of them variables; every pair of different types as a first and as a second call). Shown: among solved
variables there is always one whose solution holds none of them (`SubstitutionEnds`); a solution is never replaced
(`SolutionsStay`); what was accepted matches when solved, also after later calls and calls that failed half-way
(`UnifiedTypesMatch`); `unify` comes back (`UnifyReturns`), given that no alias leads back to itself. Two variables are what a circle over another variable needs, two
calls what a later solution does to an earlier pair; twelve levels are more than the types have with both variables solved. Longer series and any depth are the theorems' part.

**`scopes`** (`MCScopes`, two names of which one may be imported, up to three open blocks, two declarations in force,
lists of one or two names, bodies of any length). Shown: after every function the checker's stack is what it was, but for the scope that the
early return of `infer_func_decl` leaves behind (`ScopesUnwind`); a body accepted by the checker is one that Go compiles
(`AcceptedBodiesCompile`); a use means the same declaration to both (`UsesMeanTheSame`); what is declared constant is not assigned
(`ConstantsAreKept`); what the checker rejects Go rejects too (`RejectionsAreGos`); the shadow lint warns exactly where a name of the function hides
another (`LintWarnsOfHiding`). Each property names, as `KnownGap`, `KnownStrictness` or in a conjunct of its own, the cases where the code does
otherwise, listed below. Two names and two entries are what `x, err := f()` over an existing `x` or `err` needs; three blocks are
function, block and a closure or handler in it. `err, _ := f()` in a loop's body declares a name there that the header does not have: a loop's post statement is
read when that scope is closed, so what it means is compared in the scopes outside it (`Seen`).

**`source_file`** (`MCSourceFile`, 27 topics, which between them use the forms of declarations, types, expressions, patterns and statements that `Parser` and `FileParser` have, if not every operator of a form, up to five fragments each). Shown: formatted once or
twice, a file still parses and its tree is the tree of what was typed, up to the losses named in `Lossy`, each of which does change the tree
(`FormatKeepsTheTree`); every comment is there once and in its old order, a block comment that documents a declaration as the line comments it is turned into, unless it documents something printed twice (`PrintedTwice`) or shares a line with another
comment and one of the two is a documentation (`PassedOver`)
(`FormatKeepsComments`); every name and literal typed is in the tree, but for the five cases of `Unread` (`ParserReadsEveryName`);
operators bind as in Go (`OperatorsBindAsInGo`). A topic joins the constructs whose parsing depends on each other; across topics the
parser and the formatter call each other through expressions, types and blocks, which every topic has one of.

**`match`** (`MCMatching`, 7 scrutinees: a local enum with a variant of each shape, an imported enum of the same name, another imported one, structs of either
side, integers, none; up to 3 arms out of up to 28; a `match` in the middle of a function, in a loop, at the end). Shown: an accepted
match is written as Go that compiles (`AcceptedMatchesCompile`); on every value the arm that is meant runs, with the fields bound that are meant, and the program goes on
as the arm says (`TheWrittenArmRuns`); a match on a local enum is refused as non-exhaustive exactly if a value has no arm (`ExhaustivenessIsReal`).
`KnownRefusal` and `KnownDetour` name the exceptions, and without any one of their disjuncts TLC finds a counterexample. Three arms are the fewest with
two arms before a default.

### What does not hold

Three runs end in a counterexample, each for a statement the repository makes of itself; `PROJECT.json`
quotes it.

| run | what happens |
|---|---|
| `nil_join` | the checks of both operands of `\|\|` narrow the block as if both had held: `if x != nil \|\| c { *x }` is accepted |
| `format_idempotent` | a comment above a type declared in a function is printed once more at every formatting; `b{1,}` loses its comma and is no literal afterwards |
| `lsp_hover` | `try_init_workspace` holds the texts and awaits the workspace, a hover holds the workspace and awaits the texts behind a queued writer: all wait for ever |

The models show more disagreements of this kind, which no run is spent on.

*Build and workspace.* The files are sorted, not the packages: a package is compiled whole at its first file (`build.rs` 142), which may come before a package
only its later files import, so valid projects fail or not depending on hash order (the exception of `OnlyOrderRejectsCleanCode`).
`typecheck_workspace` calls the root package `main`
(`build.rs` 846), `process_imports` looks its members up under `.`, and who imports it in the editor is told its functions do not exist.
`register_constant` (`ctx.rs` 389) has no caller, so a constant of an imported Soppo package is never found. In the editor, a file checked before its sibling is told the
sibling's functions are undefined (`build.rs` 857, against `decl.rs` 800); `ReportsAreExplained` lists this case. `clear_soppo_imports` has no caller,
so a file's import mappings stay in force for the next ones (`ctx.rs` 475). In `sop build` the names of methods, variants, tests and other packages of the directory, a sibling's imports and an alias bound twice pass the check and Go code is
written for them (`KnownGap`).
A test file does not see its package's constants in the editor, where every file has an `Infer` of its own (`build.rs` 857).

*Language server.* An error of an older text may be published after a newer rebuild succeeded, and stays (`lib.rs` 551). A rename looks up byte positions of one
workspace in the tables of the next (`lib.rs` 1719). `did_close` leaves `open_documents` alone, so the discarded text of a closed file goes on overriding the file on disk
(`lib.rs` 815). Formatting in the editor uses `format_source` and shares all that is said of it below.

*Nil and types.* The traps of `NilFlow` other than `join` are five. Two aliases of each other (`type A = B`, `type B = A`) pass the declarations and send `resolve_alias` (`unify.rs` 26) into
endless recursion. `variant_state` and `known_safe` are computed and never read.

*Scopes.* Accepted, and refused by Go: `_ := v` and `n, n := ...`; in a body, a second declaration of a parameter, a pattern's binding, a handler's name or a case's
variable, with which Go's block shares its scope; results that repeat a parameter; variables unused in a nested block (only the function's own level and handlers' names are looked at, and
an assignment counts as a use); bindings of several patterns, which the generator does not emit; a constant with a literal value assigned by `a, b = ...`, by a try or by a short
declaration. With a value computed at run time such a constant is a Go variable, and changes, though `codegen/stmt.rs` (164) has it that Soppo prevents the
reassignment. Refused, and fine for Go: an unused constant; a variable whose mark a second short declaration reset; a try that declares an existing name. `insert_short_decl_vars` misses the check
against imports. A closure's named results are not declared. The lint knows neither receivers, results nor handler names, and warns of a short declaration that only assigns a parameter.

*Match.* Of a pattern only the last part of its name counts: `Other.Red`, a variant that does not exist, and a bare `Ok(v)` are accepted. An imported enum is not checked, or against the local
enum of its name. Also accepted, and refused by Go: a case written twice; `_` or bindings among several patterns; `E.Unit(x)` for a variant without payload; a type switch whose
patterns all bind nothing; a match at the end of a function that Go does not take for its end (a value switch or guards without a default, an arm that ends in an `if` with two
returns, a chain of ifs without an else). In the other direction, a body that ends in `panic()` is a missing return for the checker only. Running otherwise than it reads: literals in the pattern
of an enum's variant are never compared, though the pattern covers the variant; of an arm of a struct match only the first pattern is tested, an arm that begins with another
kind of pattern runs with the arm before, and `break` leaves the loop around it; a pattern `Circle{...}` without its enum makes the match one on structs; the panic behind a type switch (`codegen/stmt.rs` 424) meets arms that end in `break`, nil,
and the uncovered variants of an imported enum. A struct match evaluates its scrutinee again for every condition and binding (1044), which on a variable, as here, cannot be seen.

*Parser.* An unknown character ends the file silently (`lexer.rs` 389), and `sop fmt` writes the rest away. `parse_return_params` (`item.rs` 185) loses names that wait for
their type: `(int, *T)` becomes `*T`, `(error, []T, int)` changes its order, `(Option[int], error)` is rejected. Lost as well: the size of an array type; attributes, `const`, tags and type arguments of the fields of a struct type without a name (`ty.rs` 89); type arguments of elements and of pattern
arguments; all type arguments but the last of `b[T][int]{...}`. `<-c.x` is read as `(<-c).x`; `a[I]` and `a[*p]` as types applied; `var a, b = f()` gives each variable the type
of the tuple. Rejected: an empty body, or one of comments, after a condition that is a name; `match x {` with `default:` first; `func(int)` as a type before a line's end or `=`;
`*p, *q = ...`; `var _ = ...`; map literals over several lines; `for ; c ; {`.

*Formatter* (`Lossy`, `PrintedTwice`, `PassedOver`). `func(a T, b T)` of a closure becomes `func(a, b T)`, which the parser of closures rejects; `match a {` with a first arm `case _:` is printed with `default:`, and read as a
literal; a block as a statement is printed as `{ ... }`, dots and all; inline statements of other than six kinds print nothing; `"{{a}"` becomes `"{a}"`, `- -a` becomes `--a`, `T{a,}` becomes `T{a}`; `_` among
patterns becomes `default`; `type T const` of anything but a struct loses its `const`. A literal of a struct type without a name loses attributes, `const` and tags of its fields (`fmt.rs` 1914). `/* d */` above a declaration becomes `///* d */`, line by line if it has several (`fmt.rs` 276); of two comments that end on one line above a declaration the
parser takes the first and the formatter looks at the last, so that one is lost or printed twice. A comment at the end of a line above a documented declaration is printed twice; comments in closures, enums, interfaces and
after a `break` move. An empty `const ()` stops the program (`ast.rs` 123). `format_files` stops at the first error, with the files before it rewritten.

*Not modelled, but seen.* `sop test` ends with success when tests fail: the result of `run_tests` is dropped (`main.rs` 265). A `_test.sop` outside the sources of `sop.mod` is found but not built, and does
not run. The playground's server has no listener for a child that cannot be started. `strip_prefix` knows no path boundary, so with module `example.com/app` the path `example.com/apple/x` is taken for local (`deps.rs` 314).

### Bounds and fairness

The bounds are the constants' values, in the `MC` modules and the `.cfg` files: the files, directories, paths, names, the
projects and contents enumerated, `Messages` and `Concurrency`; `MaxSize`, which `NilFlow` has in its guards (`Room`); `MaxBlocks` and `MaxEntries` of `Scopes`; `MaxArms` of
`Matching`; and each topic's `max`. Symmetry is used for the names of `nil_flow`
only (files are ordered, texts are numbers).

`DepGraph`, `Compile` and `Workspace` are each one call of a Rust function that awaits nothing, so weak fairness of
their steps says that it runs. Their behaviours end in an explicit stuttering step, which is why TLC can check
them for deadlock. `FairServerSpec` has weak fairness on the executor polling some handler that can
run, which is the executor's loop; nothing makes the editor send messages, and for that reason the server's runs do not check for
TLC's deadlock: a behaviour ends when the messages have been sent. Real deadlock is what
`HandlersReturn` is about. `Unify` has weak fairness on the steps of a running call, which awaits nothing; no one has to call it again, so it may stop. `NilFlow` has no liveness and no deadlock check: a body may end anywhere, and a run that crashed or
returned takes no step. `Scopes`, `Matching` and `SourceFile` have no liveness either, as each step is the reading of something that may be the last; a rejected file, a match
that was run and a full text take no step, and so their runs do not check for deadlock.

## What is proved

`BuildProofs` about `DepGraph`, for all finite sets of files, all directories, paths and projects, from `FilesAssumption`
(files are finitely many numbers), `DirsAssumption` (the paths of local directories are paths) and `ProjectsAssumption`
(a project has the fields of a project, its sources are on disk and its unparsable files are sources).

| theorem | property |
|---|---|
| `SortInvariant` | `SortInv`, below |
| `TypeCorrect` | `TypeOK` |
| `CountersExact` | `DegreesAreExact` |
| `QueueExact` | `QueueIsReady` |
| `OrderCorrect` | `OrderRespectsImports` |
| `SortImplementsPromise` | `SortKeepsPromise` |

None of the properties is inductive. `SortInv` adds to the types what relates the parts: the edges are the
project's from `Build` on (`EdgesAreBuilt`); queue and result are empty before the sort and the queue is empty after it
(`PhasesAgree`); the counters are exact and the queue is what is ready, which need each other, since the
queue finds a file when its counter falls to zero and a counter is right only if no file is
handed out twice; and the order holds on the edges (`OrderRespectsEdges`). The heart is `PopFile`: taking the occurrences
of the file handed out off each counter leaves the count over the files that remain (finite sets, disjoint union), and a counter that is zero
before stays zero, so no file is queued again. `OrderCorrect` then follows because every `MustFollow` is an edge. For
`SortImplementsPromise`, every step maps to a step of `DependencyOrder` or stutters; the stuck case needs that a file left over with an empty
queue waits for another one left over, whence the remaining files are closed and the graph has a cycle.

`UnifyProofs`, for any set of types and variables, finite or not, any shapes and any order of calls, from the assumptions of `Unify`: parts
are types, a function has a result, a variadic one element, and `VarsIn` is the variables of the parts.

| theorem | property |
|---|---|
| `UnifyTypeCorrect` | `UnifyTypeOK` |
| `SolvingEnds` | `SubstitutionEnds` |
| `SolutionsAreFinal` | `SolutionsStay` |
| `AcceptedTypesMatch` | `UnifiedTypesMatch` |

`SubstitutionEnds` is inductive with the types. A variable at the root that is not replaced is unsolved, since a solved one is
not its own solution. That the occurs check failed gives a closed set which holds the type's variables and not the one to be solved. A
set of solved variables that meets it has, by the invariant, a member free in the common part, and its solution lies in the closed set; a set that
does not meet it has the new variable free, or consists of older ones only. `SolutionsAreFinal` follows since only unsolved variables are bound.
For `AcceptedTypesMatch`, `MatchInv` says that there is a set of pairs which holds the accepted ones and explains itself: each of its pairs matches by one rule as soon as the others of
the set do; while a call runs there is another, which holds the pair asked and is explained by itself and what is still to visit. Each step adds the pair it has passed. No step
takes a pair away, since `StillMatches` holds for every rule when a variable is solved: a solved variable only adds to what stands for a pair. A set that explains itself matches at every depth, which is an induction over the levels
(`Iteration`). The proof found that the model took an alias of itself for resolved, which `resolve_alias` never is; `Root` now says what is.

`BuildProofs` again, about what `topological_sort` says in the end, from the same assumptions:

| theorem | property |
|---|---|
| `CycleReal` | `CycleIsReal` |
| `VerdictCorrect` | `VerdictIsExact` |

The cycle reported is a cycle because of what the walk never does: it never leaves a file once it has entered it
(`WalkInv`). Every file left over waits for another one left over, so the file at the end of the path always has a dependency
to try, and the first one tried is either on the path, which ends the search, or new, which makes the path longer. Hence `visited` is the
path, each file of it a dependency of the one before, and the part from the file met again is what is reported, with an import to show for each step or the
test's own package. For `VerdictCorrect`, if all files are handed out the positions in the result grow along every edge, and finitely many files
leave no cycle; if some are left, each waits for one of them, so they form a closed set.

`LspProofs`, for any files, any number of messages and any `Concurrency`, from `MessagesAssumption` and `ConcurrencyAssumption`;
its first part has the lemmas about the lock.

| theorem | property |
|---|---|
| `ServerInvariant` | `ServerInv`, below |
| `NeverGoesBack` | `WorkspaceNeverGoesBack` |
| `QuietIsCurrent` | `QuietWorkspaceIsCurrent` |
| `OneVersion` | `QueriesReadOneVersion` |
| `SessionSettles` | `CleanSessionSettles` |

Handlers check texts without a lock and store the workspace later, so that it never goes back rests on an order kept from one place to the other: `LocksAgree`
says that those who write or wait to write are in the queue of the texts in the order of their messages, and in the queue of the workspace
in the order of the texts they have checked. A reader's admission or a release does not change it (`AdmitFacts`, `ReleaseFacts`), and who asks comes last
(`RequestFacts`), with the newest texts there are: `TextsAgree` has the chain workspace, snapshots, open documents, texts to store. A handler
asks for the workspace in the step in which it has cloned and checked the texts, as the code has no await between. `CurrentOrPending` and `ShownOrPending` say
that where workspace or screen lag behind the texts, some handler at a named place is going to bring them up to date; when nothing runs there is no such handler, which gives
`QuietIsCurrent` and, if no text was `bad`, `SessionSettles`.

`NilFlowProofs`, for bodies of any length and depth over any finite sets of names and errors, from the assumptions of `NilFlow`
and the hypothesis `Traps = {}`: the body uses none of the six constructs of the table above, with any one of which the theorems are false.

| theorem | property |
|---|---|
| `FlowInvariant` | `NilInv`, below |
| `NoNilDereference` | `NilSafe` |
| `HonestTypes` | `TypesAreHonest` |
| `NarrowingIsSound` | `NarrowedIsNonNil` |
| `DivergenceIsReal` | `DivergingBlocksEnd` |

That a narrowed variable is not nil (`FactsHold`) is asked of every scope the run is in, not just of the innermost: when a block is closed, the
facts of the scope around it have to be true again. `FactsStay` says why an assignment inside does not spoil them: what a scope knows of a
variable all scopes within it know, so the innermost entry decides. `TiesHold` keeps what is left of the convention
of `x, e := f()`, with the two variables still bound where the call bound them, as long as neither is assigned. The rest is
about branches. Where the run has passed by a block, the reader is still in it, so what the condition implied must outlast what the block does to the
scopes: `SkippedThen` for the first branch (a variable compared with nil was not nil if the comparison was `== nil`,
and a companion's error is nil), `TookThen` for the second when the run took the first, `BranchFacts` and `TookElse` for the facts and the
errors an `else` starts from. `ArmsAgree` says that there is an arm to take as long as the run has taken none, and that the default of a match
that narrows is taken with a value that is not nil; `EndsAgree` that a statement that ends the innermost block leaves the run
elsewhere. `DivergenceIsReal` needs both, since a block diverges if all its arms or branches do. The proof has one
lemma per action. Its first version failed on `Narrowed`, for a variable not compared in an `else`, where two cases of the
definition overlapped; the cases are now apart, as in the code.

`MatchProofs`, for any modules, any scrutinee, any arms and any number of them, from four assumptions: the arms are such as the parser makes
(`ArmsAssumption`: a guard only without a scrutinee, names with no empty part, what does not destructure binds and compares nothing),
no type is in the module that stands for a missing scrutinee (`ModulesAssumption`), a field has a value (`DataAssumption`), and only a unit variant
has no fields (`FieldsAssumption`, which TLC checks and no proof needs).

| theorem | property |
|---|---|
| `MatchInvariant` | `MatchInv`, below |
| `ExhaustivenessHolds` | `ExhaustivenessIsReal` |
| `AcceptedCompileHolds` | `AcceptedMatchesCompile` |
| `WrittenArmHolds` | `TheWrittenArmRuns` |

`MatchInv` keeps what the three properties, which look at the end, need of the beginning: the errors are those the arms were found guilty of (`ErrorsAgree`),
and clause by clause the code is what the generator makes of the arms (`ClausesAgree`). The rest is about names and labels. The
name of a variant as Go spells it tells its last part, which is all that the checker counts (`ConvertedLast`), and which name it was, so that cases written
once are different labels (`ConvertedSame`, `DifferentLabels`). A pattern of a type switch or a value switch is a label Go knows if it is well named
(`TypeLabel`, `ValueLabel`), which is half of `AcceptedCompileHolds`; a label Go knows is taken by the values its pattern matches
(`LabelMeansPattern`), which is half of `WrittenArmHolds`. Several patterns in one arm bind nothing, since Go refuses to read what no clause declares and the checker
wants the bindings of all to agree (`SeveralBindNothing`). That a value which no arm has does not meet the panic is where exhaustiveness comes in
(`SwitchFallsThrough`). The proofs found a mistake of the model: a constant's name on an enum or a struct was taken for well named, and Go
compiles no such case; the run now has one on each.

`Iteration` has what all loops have in common: `LoopRuns` (a loop goes through one state after the other), `LoopStays` (a set no turn leaves is not left)
and `CountUp`, the induction both rest on. The turn is an operator constant of the module; a proof about a loop instantiates the module with the turn of that loop.

`BuildProofs`, about `Compile` and `Workspace`, for any files, names, contents of files and orders of the sort, from the same assumptions as for `DepGraph` and those of the three modules:
no name is empty or `_` (`NamesAssumption`), an unresolvable package exports nothing, and the projects and contents enumerated have their types.

| theorem | property |
|---|---|
| `WorkspaceKept` | `WorkspaceInv`, below |
| `EveryFileIsAnalysed` | `EveryFileAnalysed` |
| `EveryReportIsExplained` | `ReportsAreExplained` |
| `BuildKept` | `CompileInv`, below |
| `RegistryExact` | `RegistryIsExact` |
| `BuildSound` | `BuildIsSound` |
| `OnlyOrderRejects` | `OnlyOrderRejectsCleanCode` |

The first part follows one file through the checker: which names its imports bind (`ImportsProcessed`), what it declares in the registry (`RegisterFacts`), and which of its uses are looked up in vain
(`BodiesFacts`), each a loop over its imports, declarations or uses. `WorkspaceInv` says of every file passed that it has an error or the symbols it declares, and of every report that the name is undeclared or has a cause out of the list; since every
file has a checker of its own, what it needs of the others is only what they put into the registry.

`CompileInv` has more parts, since a package is compiled in three loops over its files that share one checker. `ControlInv` relates the stage to the position in the package and in the sorted files; `UnitInv` says that
the package at work is all of the sources of its directory and package name, once each, and that the ones processed are whole packages. `RegistryInv`, which gives `RegistryExact`, says what the registry
holds while a package is half declared: the declarations of the packages processed and of the files declared so far. `ImportsInv`, `ScopeInv` and `UsesInv` hold while a package is being compiled: the import
table has for a name only what a file of the package binds it to, and something for every name that the files so far bind; the scope holds imports and declarations of the package only, and all values of the files inferred; every use passed is
declared or an error, and an error is something a reader can object to or a package out of order. `OutputsInv` says that Go
code is kept only of packages without an error. A use looked up with success was found in the package's imports, scope or module, and what these hold comes, by the other parts, from declarations and imports of the project: each is something Go finds too (`InGo`) or a case of
`KnownGap` (`UseIsAccounted`). `OnlyOrderRejectsCleanCode` is one of the parts: a package is rejected for an import that failed, a name not found, an import
not used or a declaration for which no code can be generated, and each of these, by the other parts, either is something in the package a reader can object to or an import of a package not processed yet.

`ScopesProofs` and, of the last three, `MarksProofs`, for any names, any depth of blocks and any length of a body, from `ListsAssumption` (a list of names is a list).

| theorem | property |
|---|---|
| `ScopesKept` | `ScopesInv`, below |
| `ScopesAreClosed` | `ScopesUnwind` |
| `NamesKept` | `Agree`, below |
| `UsesAgree` | `UsesMeanTheSame` |
| `MarksKept` | `Marks`, below |
| `ConstantsKept` | `ConstantsAreKept` |
| `BodiesCompile` | `AcceptedBodiesCompile` |

`ScopesUnwind` speaks of the moments between functions, where no block is open. `ScopesInv` says at every moment how many scopes each of the three readers has: for each open block, `blocks` records how many the checker and Go
had before it, and `BlocksNest` says that each opens as many more as its kind has: one or two of the checker's, one or two of Go's. The lint has one for each of the checker's but the package's and those left behind. Every statement
keeps the number, which for a declaration of a list of names is a loop. With no block open the counts are those of `ScopesUnwind`.

`UsesMeanTheSame` compares where checker and Go find a name, each in scopes of its own that do not correspond one to one: a function's header and body are two scopes of the checker's and one of Go's. What the two have in
common is a block. `Agree` says that, as long as nothing has been rejected or refused, the names of a block's scopes are the same for both: Go may have more in a closure and the checker more in an arm, and where Go has a
scope for the header too, its names are those of the checker's header, which the post statement of a loop needs, being read when the body's scope is closed. It holds because a declaration that is accepted adds the names of its list to
the innermost scope of the checker (`DeclarationsJoin`) and one that is not refused adds them to Go's (`GoListAdds`), whatever form it has, while uses and assignments add none. A name found in two different blocks is then
in the inner one for one reader only (`Explained`), so that block is a closure or an arm.

`Marks` is about the entries where `Agree` is about the names. As long as nothing has been rejected or refused, what is a constant of the source in a scope of Go is in the innermost scope of the block, and the checker has it there,
immutable; and a variable of a function's own scope that Go has seen neither used nor assigned the checker has seen unused. It is inductive for these reasons. A declaration gives both readers their entries at once (`DeclaresMark`);
no header declares a constant, so a block begins with none (`HeaderEntered`). Uses and assignments turn no entry back (`Ages`), and a use marks the entry that the checker finds, which need not be the one Go finds: where the two
differ the use is misread and nothing is claimed from there on, and where they are of the same block the unused entry of Go is not left behind (`UseMarks`). The blocks around one that is open are looked at again when it ends, so the
invariant speaks of all of them. `ConstantsAreKept` follows: a name that the checker takes for a variable is, if both mean the same, no constant of Go (`MutableIsNone`), and a name that is new to the checker is no constant of
Go's innermost scope (`NewIsNone`). `AcceptedBodiesCompile` takes all three. What is undefined in Go is known to the checker, so by `Agree` it is declared by an arm (`UnknownIsArm`); what is declared twice in Go is new to the
checker, so the block has two scopes of the checker's for one of Go's (`SharedScope`), or the list has a name twice; what is unused at the end of a function, and never assigned, the checker has found unused too, by `Marks`.

Only model-checked: liveness (`SortReturns` and its like, `HandlersReturn`), which the proof system does not do; two action properties of `Scopes`
(`RejectionsAreGos`, which would need `Marks` turned around, from the checker's entries to Go's, and `LintWarnsOfHiding`, which would need the lint's scopes related to the checker's); and
everything about the parser and the formatter, which are recursive operators.

## Not modelled, and planned

To be proved: the two action properties of `Scopes` that are only model-checked.

To be modelled: field paths, `select` and closures in `NilFlow`; the cache of Go packages (`src/go/cache.rs`); the lowering of `?` beyond the names it declares.

Not modelled: extraction of Go packages, which reads Go sources and is represented by the names a package exports; configuration,
by the set of sources it selects; the test runner and the playground, each a straight line over child processes whose failures are their only branches; the
attribute registry, a map behind one lock. Errors are kept as what they are about, never as wording; columns, escapes and the letters of names are left out
throughout.
