# catk: models, checks and proofs

catk (CAsterisk) is a small compiler in C++17: it parses a text with PEGTL,
builds a graph of contexts and symbols, infers types by instantiating functions
for the types they are called with, and hands the result to LLVM.  This
directory holds TLA+ models of those steps, TLC configurations that check them
on small instances, and proofs that TLAPS checks for every instance.

Paths below are relative to the repository's `src/catk/` unless they begin with
`src/`.  The program is sequential: no threads, no messages, nothing persisted.
What is hard in it is recursion over shared tables: a global current context, a
type table that is read while it is being filled, an insertion point that moves
to another function and back, and a grammar whose meaning is the order of its
alternatives.

## The system

| part | state | operations | interacts with |
|---|---|---|---|
| syntax (`syntax/expr.hpp`) | none; the parse tree it makes | the PEG's rules; accessors of nodes | PEGTL matches it; semantics reads the tree |
| contexts and symbols (`semantics/context.cpp`, `symbol.cpp`, ...) | arena `DB`; `current_context_`; per context `accessible_`, `captures_`, `params_`, `locals_`, `ret_expr_` | `Module/Context/Symbol/RetExpr::from_ast` | recursion through `Expr::from_ast`; the current context is a global switched by a guard |
| expressions (`functional_expr.cpp`, `function.hpp`, `op.cpp`, `constant.cpp`) | operands, function | `from_ast`, `dependencies` | operands are analysed in the current context |
| type inference (`type.cpp`, `type/`) | `expr_type`, `def_to_inst`, interned types, all per thread | `get_type`, `get_typed_context` | recursion along right hand sides and operands; instances are deep clones |
| instances (`*::deep_clone`) | per copied context, the table `accessible_` from names to copies | one function per class | called by `get_typed_context` in the middle of typing |
| dump (`Context::dump`, `dump_deps`) | the set of symbols already printed | `dump`, `dependencies` of each class | prints programs and, for debugging, instances, through the stream |
| code generation (`behavior/gen_llvm/`) | `Driver`: module, builder, `curr_func_`, `symbol_storage_`, `typed_ctx_func_`, `slazy_ctx_struct_` | `translate_value`, `translate_context_def`, `translate_context_call` | asks `get_type` and `get_typed_context` while it emits |
| formatting stream (`io/fmt_stream`) | the device's state, indent, symbol, delimiter; the buffer of the boost stream before it | characters, flush, manipulators | every `dump` |
| arena (`memory/vector_based.hpp`) | vectors that only grow | `alloc` | semantics, types |
| errors (`utils.cpp`, `error/`) | none | `rt_assert`, `RuleViolation` | unwinds all of the above |
| driver (`src/src/catkc.cpp`), settings, `avalon` visitors, build files | none worth a model | | |

What is hard, and what correctness means:

* **Scoping.** The current context is global and is restored by a destructor,
  also when an exception unwinds.  An entry of `accessible_` is made before the
  right hand side is analysed, so a name can be found while it is still null.
  Correct: names resolve lexically, captures reach one level out, nothing
  depends on itself, a finished context is complete.
* **Types.** `get_type` marks an expression `undecided` and recurses; a recursive
  function meets the mark.  Answers found in the middle of a recursion are kept.
  Correct: nothing in the table depends on the order of questions, a mark never
  outlives what it stands for, a type never changes.
* **Instances.** A copy's operands are found by name in a table that is filled
  while the copy is made.  Correct: the copy means what the function meant, and
  two copies share nothing but captures.
* **Numbers.** Literals are read by `lexical_cast`, operands of different types
  are legalized, signedness is decided by a test of one bit.  Correct: the bits are
  those of integer arithmetic, and every instruction gets the types it needs.
* **Code generation.** A function's body is generated where it is first called,
  inside another function and possibly inside a branch.  Correct: the insertion
  point and the current function come back together, no block stays without an
  end, instances are functions of their own, what is loaded has been stored on every path.
* **Dump.** The text of a context is printed from its return backwards.  Correct:
  what a line names is above it, and an instance's text is its function's.
* **Grammar.** A PEG commits to the first alternative that fits.  Correct: what
  is read is what was written.
* **Stream.** The device is given chunks, cut where a buffer fills.  Correct: no
  caller can tell.

## Modules

| module | models | how |
|---|---|---|
| `Scope` | `semantics/` `from_ast` | The C++ stack is `stack`, one record per activation of `Context::from_ast` with its guard's `last`.  There is no syntax tree: each step does whatever the grammar allows next, so one behaviour is the analysis of some sequence of programs.  One action per branch: captures (found, missing, null), parameters, assignments (new, repeated, multiple), identifiers, return, each error, unwinding. |
| `ScopeProofs`, `ScopeNamesProofs` | | theorems about `Scope`: its control, and its names |
| `TypeMemo` | `type.cpp`, `type/` | A program is a numbered graph (operands have smaller numbers, which is what `Scope!DependenciesWellFounded` gives).  `memo` is `expr_type`, `instances` the keys of `def_to_inst`, `interned` the lambda types by id.  An object is a node in an instance, which is what a deep clone makes.  `Query` is a call from outside, in any order. |
| `TypeReference` | the same rules without a table | recursive definition, for `MemoIsTransparent` |
| `TypeMemoProofs` | | theorems about `TypeMemo`: its control, and the types it concludes |
| `CodeGen` | `behavior/gen_llvm/` | The stack of `translate_value`.  Of the emitted code: blocks, terminators, dominators, which storage is loaded where. |
| `CodeGenProofs` | | theorems about `CodeGen` |
| `Clone` | `deep_clone` of contexts, symbols, calls, returns and constants; `get_typed_context` | The C++ stack of `deep_clone`.  `heap` holds the objects, which are never freed; `accessible` the tables.  One action per thing that happens to a part: it is copied (`Descend`, `Finish`), looked up (`Resolve`), not found (`Unresolved`), or a capture that is shared. |
| `CloneProofs`, `CloneMeaningProofs` | | theorems about `Clone` and `Dump`: what is shared, found and printed, and what an instance means |
| `Dump` | `Context::dump`, `dump_deps`, `dependencies` | extends `Clone`: when the instances are made, every context is dumped; a line is its symbol and the names it mentions |
| `Primary` | `PrimaryType`, the operators, `bop_cast` | and two's complement arithmetic, which is LLVM's (external) |
| `Values` | `gen_llvm/value.cpp` and `type.cpp`, literals and constants | The values of finished operands are a stack, each with its semantic type, LLVM type and bits.  One action per operator or kind of expression. |
| `ValuesProofs` | | theorems about `Values` |
| `Arithmetic` | what an expression is worth | abstract specification over integers, without bits or LLVM, that `Values` refines operator by operator (`did` and `literal` are mapped to what `Values` translated last) |
| `Pegtl` | the PEGTL combinators (external) | grammar rules as data; `Match` gives a hit, a local failure or a parse error |
| `Syntax` | `syntax/expr.hpp`, and what `from_ast` reads from the tree | one definition per grammar rule; `Parse`, then `Translate` |
| `SyntaxReference` | how programs are written (`src/syntax.md`) | `Written`, and the properties |
| `FmtStream` | `io/fmt_stream` | the device and the buffer before it |
| `FmtStreamProofs` | | theorems about `FmtStream`, and that it refines `IndentPrinter` |
| `IndentPrinter` | what a stream promises | abstract specification that `FmtStream` refines |
| `MC...` | | instances for TLC |

How they compose: `Syntax` ends where `Scope` begins (names are read as
themselves; `Scope` resolves them).  `TypeMemo` takes graphs of the kind `Scope`
makes, and its deep clones share the captures as `Context::deep_clone` does.
`Clone` makes one such instance step by step: `MeaningKept` and
`InstancesAreSeparate` are what `TypeMemo!Objects` assumes.  `CodeGen` takes the
instances that `TypeMemo` finds; its `inst` is `TypeMemo!CallKey`.  `CodeGen` keeps
the control of the generated code and leaves out types and bits; `Values` has the
types and bits of straight-line code.  The composition is by these assumptions, each an ASSUME
on the programs that the runs evaluate, and not by one product state space:

* `ProgramOK` (`TypeMemo`, `Clone`, `CodeGen`): the shape of a program's graph.
* `WellScoped` (`Dump`): what a context's parameters, locals and expressions refer to is
  in that context, a capture is defined by what is in the context around it, a symbol without
  definition is a parameter, and a context lists its symbols, the locals in the order of their
  definitions.  A local has its name to itself, since an assignment to a name that there is is
  skipped (`context.cpp:73`), and a name means the last parameter that has it, or else the last
  capture, since the table is written in that order.  This is how `Context::from_ast` makes
  contexts (`Scope`).
* `PlacedOnce` (`Dump`): `from_ast` makes an expression for the one place where it is written.
  Only a symbol can be used in many places, and it is declared in one.
* `ParametersOwned` (`CodeGen`): an instance's parameters are its own, which is what
  `InstancesAreSeparate` says of `deep_clone`.

## Runs

| run | checks | shows |
|---|---|---|
| `scope` | `TypeOK`, `GuardDiscipline`, `DependenciesWellFounded`, `LexicalVisibility`, `ReturnedContextsComplete`, `NamesUnambiguous`, `NullWhileAnalysed`, `SingleAssignment` | all analyses of all programs within the bounds |
| `type_memo` | `TypeOK`, `UndecidedIsTemporary`, `NoReentry`, `TypesFit`, `LineStandsForItsFirst`, `MemoIsTransparent`, `TypesAreFinal`, `QueriesEnd` | recursive, mutually recursive and nested functions, captures, pointers, symbols that are returned or renamed, two lambdas on one line, errors; questions in every order |
| `instances` | `DumpTypeOK`, `InstancesAreSeparate`, `MeaningKept`, `ThrowsBehindCaptures`, `NamedBeforeUse`, `CopyPrintsTheSame` | two instances of each of 398 functions, then the dump of every context |
| `values` | `TypeOK`, `TypesTranslated`, `OnlyPointersMisfit`, `ConstantsReadBack`, `ImplementsArithmetic` | all expressions of up to six parts; refinement of `Arithmetic` |
| `codegen` | `TypeOK`, `BuilderInFunction`, `TerminatorsCounted`, `ArgumentsReachLoads`, `EntriesHeld`, `StructsMadeOnce`, `UndefinedExplained` | 1,037 programs; deadlock is checked too: the generator never gets stuck |
| `syntax` | `MeaningIsWhatWasWritten`, `NothingSkipped`, `RefusedExactly` | 3,312 texts |
| `fmt_stream` | `TypeOK`, `NoDanglingMargin`, `StreamIsPrinter` | refinement of `IndentPrinter` |
| `type_if_mismatch`, `clone_identity`, `codegen_first_use`, `codegen_captures`, `syntax_named` | one each | the disagreements below |

Bounds, and why they are enough:

* `Scope`: two names, three contexts, five symbols.  A scoping question involves
  a context, the one around it and one that is neither, and two names, of which
  one may hide the other.  Every error path needs at most two contexts.
  Names are interchangeable, hence the symmetry; no liveness is checked there.
* `TypeMemo`: the programs are given, not generated.  They cover each rule of
  `type.cpp` and each way a recursion can meet itself: directly, through a second
  function, from inside an argument, through a capture.  A function may return or rename
  its parameters and locals, whose further copies are in no table (`Stray`), but not what it
  captures: what `deep_clone` makes of that is the subject of `Clone`.
* `Clone` and `Dump`: functions with one parameter, one capture, two locals, a block that
  captures and a lambda inside, with every kind of expression as a local's right hand side
  and as the return, the parameter's and the capture's names equal or not, and what the
  capture's definition names shadowed by the parameter or not there at all; a function
  that returns a capture which is defined by the outer function's parameter; and one with
  two parameters, and two captures, of one name. `MaxInstances` is two: enough for one
  instance to meet another's objects.
* `Values`: `MaxSteps` is six and `MaxOperands` two, so that a binary operator's
  result is used by a further one, with a conversion in between.  The literals are of
  8 and 16 bits and a float, of both signs and both ends of the character range.  16 bits stand
  for 32 and 64, whose code differs only in the width; 8 and 16 together with the
  one bit of a comparison meet every conversion (wider, narrower, none).
  `CHECK_DEADLOCK FALSE`, since an expression that has used up its steps stops.
* `CodeGen`: families of programs over all choices of operands, so that a symbol
  is first used in every part of an `if` and before and after it; a function that is
  generated inside another instance of itself, which it captures symbols with; and instances that
  share a name, with one LLVM type and with two, one after the other or one within the other.
* `Syntax`: every kind of expression as an operand of every other, all
  operators, two layouts (no optional spaces, a space wherever one is allowed),
  names that begin like a keyword, and all texts that lose one piece.  A text is
  a sequence of pieces (a keyword, a tag, a letter, a mark); pieces are cut so that
  no rule of the grammar could tell their characters apart, except in malformed
  hexadecimal numbers, which are refused in both.
* `FmtStream`: a buffer of three characters and texts of four, so that a line, a
  margin change and a chunk boundary can fall in every order; `MaxIndent` bounds
  the indent and `MaxChars` the text, in the actions' guards.

Fairness: `type_memo` assumes `WF_vars(Step)`: a call of `get_type` that has begun
runs on, as sequential code does.  Nothing obliges a caller to ask, so `Query` is
not fair.  All other runs check safety only and need none.

Mutants (operators such as `EndFunctionStays`, next to what they mutate) are wrong
versions of an action or helper.  They are not part of any specification; each
property is violated when one is put in place of the original.

## What the code does otherwise than it says

Five have a run:

* `type_if_mismatch`: the clauses of an `if` are compared once, while the
  recursive one is undecided (`type.cpp:81`); they may end up with two types.
* `clone_identity`: what is returned or assigned as it stands is cloned and not
  looked up (`semantics/symbol.cpp:64`), so an instance of `fn(a) { ret a; }` returns a
  second `a`, which has neither the argument's type nor its value.
* `codegen_first_use`: a storage is made where its symbol is first used, which may
  be one arm of an `if`; the other arm loads it uninitialised (`gen_llvm/value.cpp:264`).
* `codegen_captures`: the instances of a lambda share its captures, so that an instance
  generated inside another one erases the storages of both (`gen_llvm/context.cpp:101`);
  what the outer body loads after that is a storage of the function around it.
* `syntax_named`: whether arguments are bound by name is decided by looking at
  the callee instead of the first argument (`syntax/expr.hpp:255`); they never are.

Others are told apart from what is right by properties that hold:

* `NullWhileAnalysed`: `a = [a] { ret a; };` finds the entry of `a` null and calls
  `get_name()` on it (`context.cpp:51`); nothing else meets a null entry.
* `LineStandsForItsFirst`: a context's id is its line (`context.cpp:19`), so of two
  lambdas on one line the one that is typed first is what both are instantiated from.
* `MeaningKept`: `from_ast` enters captures and then parameters, `deep_clone`
  parameters and then captures (`context.cpp:172`); a parameter with a capture's name
  is the capture in every instance.
* `ThrowsBehindCaptures`: a captured symbol that is returned or renamed makes the clone copy
  the definition of the captured one, whose names the table may not have: `std::out_of_range`.
* `NamedBeforeUse`: if the table has them, or the definition is a parameter of the outer function, the
  copy is dumped with the instance and names what is outside it.  The property leaves that open for the
  copies that have copied a capture into themselves (`CapturesCopied`), and for no others.  All other
  texts can be read from top to bottom.
* `TerminatorsCounted`: functions are looked up by the name of the symbol called, which all
  instances share (`gen_llvm/driver.cpp:6`).  If their LLVM types agree (`i8` and `ui8`), the
  second instance is generated into the first one's function, behind its end, and the
  generator reports nothing (`outcome` is `done`): the property then counts as many ends in that
  entry block as there are bodies in it, and none in the block made for the second one.
* `UndefinedExplained`: if the LLVM types of instances of one name differ, what `driver.cpp:6`
  casts to an `llvm::Function` is none; a block used as a value yields `nullptr`
  (`gen_llvm/context.cpp:7`); `!` compares with a number of no bits, since `getIntN` takes
  the width first (`value.cpp:186`); `&` casts whatever it gets to a load (`value.cpp:192`).
* `OnlyPointersMisfit`: an `if` and `*` load a pointer where their type says otherwise
  (`value.cpp:190`, `:222`), and a captured value is stored in a member that is a pointer to it
  (`gen_llvm/context.cpp:28`): LLVM's own checks refuse these.
* `ConstantsReadBack`: an `i8` literal is read as a character, so that `1i8` is 49
  (`syntax/expr.hpp:59`), and dumped as one.
* `ImplementsArithmetic`: `t & 1 == 0` is `t & 0` (`semantics/utils.hpp:30`), so no type
  is unsigned.  `Arithmetic` therefore leaves the number open wherever an unsigned operand
  that is not a signed number of its width is divided, ordered or made wider, and nowhere else.
  Unsigned literals cannot be written at all: the grammar has `ui8`, `interpret` compares
  with `u8`; with assertions that stops the compiler, without them it is a `uint8_t` of zero.
* `RefusedExactly`: `<=` and `>=`, names used that begin with `if`, and names assigned
  that begin with `_`, cannot be parsed; unsigned and hexadecimal literals parse and then fail.
  `src/syntax.md` reads `0xFF32i64` as 65330, but `boost::lexical_cast` gets the `0x` and throws
  (`syntax/expr.hpp:65`).

One more has neither: `fn () { ... }`, which the grammar, `src/syntax.md` and the
parser's tests accept, fails in semantic analysis, because without a `ParamList`
`LambdaLiteral::params` returns the body's children (`syntax/expr.hpp:417`,
`Scope!ParamListMissing`).

The models are of a build with assertions, except that `Values` and `MCCodeGen` also have
the zero that an unsigned literal is without them.

## Proofs

The theorems are about every value of the constants: any names, literals, characters and
bounds, and any set of programs that satisfies the assumptions above.  None of the
invariants below is inductive on its own; each proof has an invariant that is, one
lemma for each kind of step that shows that it is kept, and one that puts them
together.

**`ScopeProofs`**, for any `Names` and any bounds in `Nat`: `TypeCorrect`,
`GuardsRestoreTheContext` (`GuardDiscipline`), `NoCyclicDependencies`
(`DependenciesWellFounded`).
The inductive invariant `IInv` adds: the
outermost activation takes no captures; what an activation has collected is
complete, and what it is defining is not (`FramesSealed`); no symbol is being
defined by two activations (`DefinedOnce`); the tables hold complete symbols or
null (`TablesSealed`); and `Ranked`: a complete symbol depends only on symbols completed
before it, which the history variable `clock` numbers.  A symbol of least rank in
a set then has no dependency in the set, which is the well-foundedness; that null
entries are found null and not as the unfinished symbol is what makes it hold.

**`ScopeNamesProofs`**: `NamesAreLexical` (`LexicalVisibility`), `NamesHaveOneMeaning`
(`NamesUnambiguous`), `ReturnedIsComplete` (`ReturnedContextsComplete`), `NullIsInside`
(`NullWhileAnalysed`), `NamesAreAssignedOnce` (`SingleAssignment`, an action property).
With them every property of the run `scope` is a theorem.
`NInv` adds to `IInv`: whatever an activation has collected is owned by its
context; the table of a context and its three lists agree, entry by entry; and
what is null in a table is the symbol of exactly one activation of that context, of
which there is never more than one.

**`TypeMemoProofs`**: `TypeCorrect`, `NoExpressionTwice` (`NoReentry`), `MarksAreTemporary`
(`UndecidedIsTemporary`), `TypesStayFinal` (`TypesAreFinal`, an action property).
`IInv` adds: the table, the stack and the instances mention only nodes of the
program, existing instances and interned lambdas; an instance's types fit its
lambda's parameters; and `Marked`: every expression on the stack has the entry
`undecided`.  From `Marked`, an expression that is looked up is either answered
from the table or not on the stack, so none is on it twice; and `Conclude` is the
only step that replaces an `undecided` entry.

Also there: `RememberedTypesFit` (`TypesFit`), `LinesStandForTheirFirst`
(`LineStandsForItsFirst`, an action property).  `FInv` adds to that `IInv` what the activations know: each
type an activation was told, unless undecided, is what the table has for that operand
(`Told`), and every activation is the answer to the question of the one below
(`Asked`).  A conclusion then fits what is remembered of its operands, because a
remembered type is final; a line stands for a lambda
exactly when one of its line has a type (`FirstKept`, `FirstOfLine`).

**`CloneProofs`**, about `DumpSpec`: `InstancesShareOnlyCaptures` (`InstancesAreSeparate`),
`ClonesWellTyped` (`CloneTypeOK`, the part of `DumpTypeOK` that is about `Clone`).  The objects of
the copy under way are those from its root on (`RootIsLatest`).  `CInv` says that the tables of
these objects, what the activations have collected and what finished parts link to are
among them or captures (`TablesOwn`, `FramesOwn`, `LinksOwn`).  A name that is looked up
can therefore not lead to the function or to an older instance.

Also there: `NamesAreDefinedAbove` (`NamedBeforeUse`) and `DumpsWellTyped` (`DumpTypeOK`).
`EInv` is about what the copies make: an object is settled before anything is
linked to it, tables lead to objects of the name and the context they are for
(`PlacesKept`, of every context that copied no capture into itself), and nothing depends on
itself (`Founded`), whichever originals are shared.  A dump then stays in the context it began with (`Reached`), and the recursive function
`Mentions` has the value that its definition gives (`MentionsAre`: an object mentions a name
unless it is in a set of objects that is silent about it).  `DInv` is about the dump: the walk is a path
of dependencies that never comes back to itself (`NoWayBack`), and whatever it has left
behind is explained by the lines above (`Explained`).  The assumption is `WellScoped`.

`NamesAreFound` (`ThrowsBehindCaptures`): unless a capture is returned or renamed, nothing that
is copied is a capture, so an expression that looks a name up is part of a context that is
being copied further down the stack (`WithinFrame`), and what it names is a parameter, a capture or a
local that was defined before the one that context is copying now.  These have their
entries (`EntriesMade`), and an entry is replaced but never removed (`TablesGrow`).  `GInv` is that
with the condition; `Body`, on which the condition is stated, is closed under what
`deep_clone` descends to (`TreeIs`, `BodyFacts`).

**`CloneMeaningProofs`**: `InstancesMeanTheSame` (`MeaningKept`), for functions that return and rename no symbol: an original
that is part of the function has exactly one copy in each finished instance, and one in the
instance under way once it has been begun (`OInv`).  For that, what the activations have gone
through and what they will go through are apart (`PlacedOnce`), and together they are the
function's `Tree`.  A context and the table its expressions are looked up in then have one copy
each, and `MInv` says what the table has for a name: the copy of the last parameter or local with it,
until the captures are entered, which hide parameters but no local
(`EntriesRight`).  Every finished operation has the image of each of its operands (`MeansAll`),
and every finished symbol is in a list of its context or will be (`Listed`).  The assumptions
are `WellScoped` and `PlacedOnce`.

**`CodeGenProofs`**: `TypeCorrect` (`TypeOK`), `BuilderStaysInFunction` (`BuilderInFunction`),
`UndefinedHasAReason` (`UndefinedExplained`), `TerminatorsAreCounted` (`TerminatorsCounted`).
`IInv` gives each frame its shape: how many operands it has, how many blocks an `if` has
still to fill, that a call has a site exactly while it generates its function.  `BInv`
gives each level of the stack the function it works for: the one in which the first call
at or above it that generates a function began to do so, or else the current function; the
blocks to be filled and the block a call returns to are in that function.  For `UndefinedExplained`,
a null value on the stack is a block's, so the program has one, and two calls that clash have
one name.  For `TerminatorsCounted` (`OInv`), the
terminators a block has and the places of the stack that wait to end it add up to what it
should have (`Counted`), and a function that an instance has been given has an entry, which
alone is dominated by no other block (`Kin`).  A second instance of a name so adds one to the
entry's count where it takes the entry over, and none to the block that is made for it.

`ArgumentsReachEveryLoad` (`ArgumentsReachLoads`): a parameter is stored in the entry of
its function, and every block that is going to be filled is dominated by the entry of the function
it is in (`Entered`).  What remains is that a load is in the function that
stored: the frames above a call that generates a function are all of what that
instance's body leads to (`Inside`), such a call is for the function of its callee
(`Serving`), no instance is being generated twice (`Once`), and a parameter without a
call that serves it has no storage (`Stores`).  The assumption is `ParametersOwned`.

**`ValuesProofs`**: `TypesAgree` (`TypesTranslated`), `MisfitsArePointers`
(`OnlyPointersMisfit`), `DumpedConstantsReadBack` (`ConstantsReadBack`), by cases on the
operators and the types that the legalizers lead to; `VInv` says that every finished
operand has the LLVM type that its semantic type is translated to, whatever its bits.  The last is about the numbers: the
ten digits and the 256 characters are all that a dump and a literal have to agree on.

**`FmtStreamProofs`**: `TypeCorrect` (`TypeOK`), `MarginsHaveLines` (`NoDanglingMargin`),
`StreamRefinesPrinter` (`StreamIsPrinter`).  The device writes a chunk line by line and the
printer prints it character by character; that the two texts are equal, for every chunk and
wherever it was cut, is shown for every length from the one before.  `LastBegFacts` and
the lemmas after it say where lines begin, and `UpTo` is the induction, over a set of numbers,
since the library's takes an operator.  A character that is put
is the printer's `PutChar`, a manipulator changes both margins, and a flush, by the caller or because
the buffer is full, is a stutter of the printer.

Only model-checked, and why:

* `QueriesEnd`: liveness.
* The three properties of `SyntaxReference`: a PEG is read by RECURSIVE operators over
  sequences.
* `MemoIsTransparent`: its reference is a RECURSIVE operator.
* `CopyPrintsTheSame`: it compares two whole texts, line by line, and the orders in which two
  walks reach their lines.
* `TypeOK` and `ImplementsArithmetic` of `Values`: the bits of a conversion and of bitwise
  operators are recursive functions, and products and powers of two beyond given
  exponents are beyond the provers' arithmetic.
* `EntriesHeld`, `StructsMadeOnce` of `CodeGen`: they need that a symbol does not occur in what its
  own right hand side leads to through the functions it calls.  The code does not see to that for
  every program: instances share the definitions behind captures, and
  contexts are known by their lines (`type.cpp:18`).  TLC checks them for the programs of `MCCodeGen`.

## Not modelled

* Polymorphic recursion (`pf(pf, &i)`): each round makes a further instance, so
  `get_type` does not end (`type.cpp:140`).  The programs of `MCTypeMemo` have
  finitely many instances, and `QueriesEnd` is about those.
* A second module in one process: the type tables are per thread and survive, and
  ids are lines, so they collide (`type.cpp:18`).
* `CodeGen` and `Values` are two views of one walk.  `Values` has no blocks, so an `if`
  there has two finished clauses, and no structs, so the only function it calls is one
  with a parameter and no capture; `CodeGen` has no types.  An expression that misfits
  ends the model, since LLVM refuses the module.
* The values of fractions (`Values` knows that they are floats, and of which width).
* In dumps: wording, layout, and the parentheses that a dump of nested operators
  lacks.  Escapes in strings.  `tl_check_same`, which nothing calls, and the templates of
  `gen_llvm/utils.hpp`, of which only `void(void)` is used.
* The cost of parsing: `Expr` tries `BinExpr` and then the same `Term` again, so
  nesting doubles the time (`syntax/expr.hpp:474`).
* `catkc.cpp` apart from its parse, settings, the compile-time visitors of `avalon`,
  the build files.

## Plan

1. `CopyPrintsTheSame` as a theorem: from `MInv`, that the two walks go the same way.
2. `TypeOK` of `Values`, with powers of two as a recursive function of their own, whose
   lemmas can then be proved as those of `FmtStreamProofs` are.
