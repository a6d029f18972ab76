# A TLA+ model of the Able interpreter

Able is a small scripting language. Its interpreter is a C program that walks
the syntax tree: one process, one thread, no event loop. Apart from its HTTP
client and server, the difficulty is therefore not parallelism. It lies in
*nesting* (calls inside argument lists, awaits inside bodies that are being
awaited, imports inside imports, loops inside functions inside loops) that
shares hand-kept state: reference counts, two global flags, a call stack, a
module cache, and functions that all evaluations of one literal share. The
modules here describe that state and its
rules, TLC checks them on small instances, and TLAPS proves the main invariants
for every size.

Paths below are relative to the root of the repository: its C code is in
`src/src/`, its documentation in `src/docs/`, its library in `src/lib/`.

## 1. Inventory

### 1.1 Components

| Component | Where | State it keeps | Operations that change it |
|---|---|---|---|
| Promises and await | `interpreter/call.c`, `types/promise.c` | `Promise.state/.task/.result/.reason/.ref_count`; the C stack of `interpreter_await` | async call, `Promise.resolve`, `Promise.reject`, `await` |
| Environments, calls, closures | `types/env.c`, `interpreter/stack.c`, `eval_node` (calls), `run_ast` (assignments) | `Env.vars/.parent/.ref_count`, `Function.env`, `call_stack` | assign, call, bind an argument, return, shut down |
| Statements | `run_ast` in `interpreter/interpreter.c` | `CallFrame.returning`, `break_flag`, `continue_flag`, the C stack of `run_ast` | branches, `for`, `while`, `break`, `continue`, `return` |
| Module loader and start-up | `interpreter/module.c`, `interpreter/builtins.c`, `main.c` | table `modules`, one `Env` for each module, the exported objects | `import`, `from … import`, `@private`, start-up |
| Annotations | `interpreter/annotations.c`, `apply_annotations` in `interpreter.c` | two tables of handlers, a target under way | registering, applying decorators and modifiers |
| Value ownership | `types/value.c`, `instance.c`, `object.c`, `list.c` | reference counts of shared values; who owns a `Value` | `clone_value`, `free_value`, each use of `eval_node` |
| Lexer | `lexer/lexer.c` | position, `indent_stack[64]`, `indent_top` | `next_token` |
| Parser, AST | `parser/parser.c`, `ast/ast.c` | current token | one function for each construct |
| Iterators, lists, `for` | `run_ast`, `types/list.c`, methods of lists in `eval_node` | length and items of a list; a loop's index and the list it was given | append, extend, remove, get, iteration |
| Classes, attributes | `attr.c`, `resolve.c`, `type.c`, `type_registry.c` | types, bases, attributes | class definition, attribute read and write |
| HTTP client | `utils/http_client.c`, `interpreter/network.c` | attempt counter, two pipes, the `curl` process | one request |
| HTTP server | `utils/http_server.c`, `interpreter/server.c` | listening socket, request buffer, routes | `listen`, one request |
| JSON | `utils/json.c` | in a call: position, string buffer, the half-built values of the nested calls | parse, print |
| Router library | `lib/server/*.abl` | the annotations' data on functions and classes | `@get`, `@post`, …, `@route`, `build_routes` |
| Logging, file reading | `utils/utils.c` | none | pure I/O |
| Arithmetic, conversions | `eval_node`, `types/value.c` | none | functions of their arguments |

### 1.2 Interactions

- Every body (program, module, function, async task) is run by `run_ast` under a
  frame of the one `call_stack`; the current frame gives the current environment
  and the flag `returning`.
- `eval_node` calls `run_ast` for a call, `interpreter_await` for an `await`; both
  recurse on the C stack. An await therefore runs a body *inside* the body that
  awaits.
- `run_ast` captures an environment in a `Function` when it assigns it to a name;
  `eval_node` and `call.c` make the environment of a call a child of the captured
  one.
- `module.c` runs a file with `run_ast` in a fresh child of the global environment
  and copies that environment's public variables; start-up copies what `builtins`
  exports into the global environment.
- `server.c` calls a route's handler, an Able function, with
  `interpreter_call_and_await` for each request; `network.c` calls `http_client.c`
  and blocks.
- Annotations call Able functions while a definition is being evaluated.

There are no threads, signal handlers or timers, and nothing is persisted, so no
crash recovery and no data race arise; what runs beside the interpreter is the
`curl` process of a request and the peers of the server. An error anywhere in a
script ends the process (`exit(1)`), so no state has to survive one.

### 1.3 What is hard, and what correctness means

| Component | Hard behaviour | Correct when |
|---|---|---|
| Await | the body being run awaits its own promise, or a promise further out; results that are promises; `promise_resolve` overwrites | a body runs once; a settled promise never changes; an error or a hang has only its documented cause |
| Environments | children do not retain parents; one capture for each literal; arguments bound with an assignment that climbs the chain | nothing reachable is freed; counts are exact; arguments bind in their own call; scope is lexical |
| Statements | two flags for the whole interpreter, looked at in four copies of the loop code | return ends exactly its function, break and continue exactly their loop; frames balance |
| Modules | cache entry made after the run; names that are global already; `@private` given late | a module runs once; its object is final, with what it bound and never marked, and nothing that it hid |
| Annotations | order of two kinds of handlers; definitions inside decorators | each handler is applied once, in its order |
| Classes | a class is filled method by method while decorators run; the statement takes its parts out of the tree | no script sees half a class; each body has one owner |
| Ownership | `eval_node` returns borrowed and owned values and does not say which; assignments free, copy and count | every owner frees once, no borrower frees; objects behave as values, instances as shared |
| Lists, loops | a list is lent by a variable to a loop, an argument or a method while calls run that change it | nothing freed is used; each item is visited once |
| Lexer, parser | dedents to a column never opened, blank lines, end of file, 64 levels | INDENT and DEDENT balance; the text nests as its columns say |
| JSON | errors at any depth, escapes cut short by the end, keys given twice | up to the spelling of numbers, exactly the documents are accepted; an error leaves nothing; what was read can be written and read again |
| Router | all closures of one literal share an environment | each annotation makes the route it says |
| HTTP client | retries, a pipe read to its end before the other | at most three attempts; no mutual wait with the child |
| HTTP server | requests in pieces, early end, failing handlers | the body handed on is what was sent, all that was announced and less than a piece more; each request has one response |

`PROJECT.json` lists every hazard at its line, with the properties that cover
it or what the property leaves out.

## 2. The modules

`PromiseSpec`, `ValueSpec` and `ServerSpec` are abstract specifications. `Await`,
`Scopes`, `Control`, `Modules`, `Definitions`, `Objects` and `Lending` are one module
for each component of the evaluator, each with a nondeterministic script:
wherever Able code runs, any statement the component knows may come next. So a
run of TLC stands for all programs within the bounds, and a proof for all
programs. `Indentation` composes lexer and parser over every text, and `JsonText`
is the JSON parser over every text; `HttpServer` and `HttpClient` have peers that
do what they like; `Routes` is Able code, the router library, on top of the rule
of `Scopes` for captures. `MC…` modules give the constants that are functions or
sets of records (`MCCalls` those of `Scopes`, which it runs along with `Control`);
`…Proofs` modules hold the theorems.

### PromiseSpec and Await

`PromiseSpec` says what a promise is for: created once, its body started at
most once, settled only by a body that has started (or at birth), never changed
afterwards. `Await` models `interpreter_await`.

| In the model | In the code |
|---|---|
| `state`, `task`, `result` | `Promise.state`, `Promise.task # NULL`, `.result` or `.reason` |
| `awaiting`, a stack of `[origin, current, running]` | C activations of `interpreter_await`: the argument, the local `current`, and whether it is inside `run_async_task` |
| `exited` | which `exit(1)` ended the process |
| `CreateAsyncPromise`, `PromiseResolve`, `PromiseReject`, `BeginAwait`, `FinishTask` | what the script does, and the end of the body |
| `StartTask`, `StillPending`, `FollowResult`, `ResolvedWithItself`, `Rejected`, `EndAwait` | the ways through the loop in `call.c:44-102` |

Values are promises or opaque. Errors of the script other than those of await
end the process and are left out (stopping is always allowed by a safety
property, and the fairness assumption excludes it for liveness).

### Scopes

| In the model | In the code |
|---|---|
| `parent`, `refs`, `bindings` | `Env.parent`, `.ref_count` (0: not allocated), `.vars` |
| `fenv` | `Function.env` of each `fun` in the source text |
| `stack` | calls in progress; `entered` ones have a frame on `call_stack`, the others are still evaluating arguments |
| `returned` | the value of the call that just returned, before the next use |
| `Owner`, `SetVariable` | the search up the chain in `env.c:51-72` |
| `Assign` | assignment, with the capture of `interpreter.c:1338-1342` |
| `BeginCall`, `PassArgument`, `EnterCall`, `Return`, `Release` | `interpreter.c:1145-1157` and `env_release` |
| `Shutdown` | the end of `main` |

The source text is a constant: which literal stands in which (`Within`), its
parameters (`Params`), the names its code assigns (`Writes`). A memory block is
an element of `Envs` and is reused after it has been freed, so a stale reference
would show as a wrong environment. A function value is the pointer to the
`Function` of its literal, as in the code; so the model has, without a property
of its own, what follows from it: all values of one literal share the
environment of the first capture.

### Control

`acts` is the stack of activations: `body` (run_ast with a frame), `block`
(run_ast on a branch or on the body of a loop) and `loop`. The phase says
whether the activation is before a statement, in its expressions, or at the
point where the flags are looked at. A `call` from the middle of an expression
pushes a body; `ReturnStatement`, `Break` and `Continue` leave one activation and set
their flag; `CheckStatement` (1635-1639) and `CheckTurn` (the four copies of the
code after a turn of a loop) do the rest. `target` and `stray` are history
variables. `StrayAllowed` says whether `break` and `continue` may stand outside
every loop, which the parser accepts. `Control` shares no state with `Scopes`, but
`CallsProofs` and `MCCalls` extend both, so no name is defined in both (`ControlSpec`,
`Nesting`, `Innermost`).

### Modules

`scope[f]` is the environment of a file, `cached` the keys of `modules`,
`exports` the objects, `running` the files being run with what the import below
waits for. `Load` stands for the miss (parse, new environment, `run_ast`),
`EndOfModule` for the copy, the caching and the rest of the import,
`ImportCached` for the hit. `Bind` ends an import: names that are not exported
end the process with ImportError. `builtins` is one of the files, and start-up
its import. `loads`, `wrote`, `marked` (names the file bound under `@private`, then or
later) and `hid` (those that were under it when the file first bound them) are history
variables. The search path is abstracted to
the set of files found.

### Definitions

Class statements and annotated definitions. The text of the program is the
constant `Source`; handlers are Able functions, so while one runs the script may
register others or begin further definitions, the same one included.

| In the model | In the code |
|---|---|
| `decorators`, `modifiers` | `decorator_handlers`, `modifier_handlers` |
| `functions`, `types` | every `Function` and `Type`, with what decides how it is used: who has the body, `static`, `bind_on_access`, routes; bases and attributes |
| `taken` | method nodes whose `children` a class statement has taken |
| `variables`, `hidden` | the variables of the names, and `is_private` |
| `defining`, a stack | activations of `NODE_SET` or `NODE_CLASS_DEF` with their `apply_annotations`: the method it is at, the local `value`, arrays `decorators` and `modifiers`, the index of its loop, `assign_private` |
| `BeginClass`, `BeginMethod`, `BeginStatement`, `BeginFunction` | the statement up to `apply_annotations`, with the lookup and checks of all entries |
| `FactoryReturns`, `DecoratorReturns`, `ModifierReturns` | the return of a handler and the way to the next call |
| `SetStatic`, `AddRoute` | what the handlers of `lib/builtins` and `lib/server` do to their target |
| `FinishMethod`, `FinishStatement` | `bind_on_access`, attribute and routes; the name |

`log` and `known` are history variables: the calls made, and the tables when the
target's annotations were looked up.

### ValueSpec and Objects

`ValueSpec` says what a program may rely on: an object is a value, which an
assignment copies; an instance is shared; a write changes one place. One
surprise is part of it: a write through an attribute that is not there makes an
empty object of it and is lost (`resolve.c:66-72`). `Objects` is the memory that
implements it.

| In the model | In the code |
|---|---|
| `vars` | the variables of one environment (`Scopes` has their chain) |
| `object` | the pairs of each `Object`, or that its block is free |
| `instance`, `refs` | `Instance.attributes` and `.ref_count` |
| `broken` | memory was used after it had been freed; the program stops there |
| `ValueAt` | `eval_node` of a variable, `resolve_attribute_chain` |
| `Stored`, `Room` | `free_value` of the old value, then `clone_value` of the new one |
| `Put` | `set_variable` and `object_set`, which store the copy |
| `Assign`, `AssignThroughNothing` | `assign_attribute_chain` and `NODE_SET` |
| `SetToValueAt`, `SetToPlain`, `SetToObject`, `SetToInstance` | an assignment, with each kind of expression |

Objects that nobody frees (each `{}` that has been evaluated) are one address,
0. The refinement mapping is at the end of `Objects`: `Pairs`, a recursive function, reads
nested values out of memory, and `Meaning` applies it to what a place holds. Like `Control` and `Scopes`, `Objects` and `Definitions`
have no name in common, for `ClassesProofs` (`ObjectsSpec`).

### Lending

`eval_node` returns the list of a variable as the pointer the variable holds, and
a new list as a pointer nobody else has; a `Value` does not say which. `Lending`
follows lists, of which only the length is kept, through whatever uses them. A
promise is lent in the same way, and a copy of it is one more reference.

| In the model | In the code |
|---|---|
| `heap` | the length of the list at each address, or that its block is free |
| `List(b)`, `Own(n)` | the result of `eval_node`: lent by a variable, or nobody else's |
| `vars`, `stack[k].param` | the variables of the program and of each call (`Scopes` has their chain) |
| `stack` | calls in progress, each with what its result will be used for, and `for` loops, each with its index and the list it was given |
| `promise` | the state of a promise, `ref_count`, and the argument of its task or its result |
| `Clone`, `Release`, `SetVariable` | `clone_value`, `free_value`, `env.c:51-72` |
| `Assign`, `BeginCall`, `Return` | `NODE_SET`, and a call |
| `AsyncCall`, `PromiseResolve`, `CallNative` | the users of `eval_node` that free what they got |
| `AwaitPending`, `AwaitCall` (both by `RunTask`), `AwaitFulfilled`, `FinishTask` | an await of a variable, an await of a call, `promise_clone_result`, `call.c:57-66` |
| `ListAppend`, `ListExtend`, `ListRemove`, `BeginFor`, `NextTurn`, `Break` | the methods of lists, and `NODE_FOR` |

`lapse` is a history variable: the first of these rules the program has broken.
It assigns a variable to itself (or gives a list to its own method, *itself*);
it assigns a variable while a loop or an operation has its list (*held*); it
gives a variable that holds a list or a promise to an async call, `Promise.resolve`
or a native (*argument*); its async function returns such a variable (*result*). `broken` says that freed memory has
been used. The rules are what the code needs from a program; none of its
documents states them.

### Indentation

Lexer and parser together: the text grows line by line as the lexer asks for it,
so a run is one text, and the parser takes each token as it comes. A line is a
column and a kind (statement, header of a block, `else`, opening, entry or end
of an object literal, nothing).

| In the model | In the code |
|---|---|
| `indent_stack`, `pending_dedents`, `rest` | `Lexer.indent_stack[0..indent_top]`, `pending_dedents`, what is left of the line (nothing: `at_line_start`) |
| `current`, `blocks`, `dangling` | the parser's token, the active functions of the recursive descent, the `if` that an `else` would join |
| `StartOfLine`, `Deeper`, `PendingDedent`, `EndOfText` | the parts of `next_token` |
| `Skip`, `BlockIndent`, `EndBlock`, `Entry`, `Accept`, `ParseError` | the loops of `parse_program`, `parse_block`, `parse_object_literal` that skip or take NEWLINE, INDENT and DEDENT |

`nested` records, for each statement, the line it was put under, to compare with
what the columns say.

### JsonText

The text is chosen symbol by symbol as the parser reads it, so a run is one text
up to where its parse ends. A number is one symbol, which stands for any text that
begins with a digit or `-` and that `strtod` reads to its end: besides the numbers of JSON
these are `01`, `1.`, `0x10`, `-inf` and `-nan`. What is told apart is how it is
written again: `long` with fewer digits, `huge` (infinity) as `inf`, `-inf` (minus infinity) as
itself (`Printed`).

| In the model | In the code |
|---|---|
| `text`, `index` | `JsonParser.text`, `.index` |
| `stack` of `[kind, entries, key]` | calls of `parse_array` and `parse_object` with the list or the object they build and the key read last |
| `phase` | the place in `parse_value`, `parse_array`, `parse_object`, `parse_string` |
| `buffer`, `value` | `JsonBuffer` of a string, the result |
| `live` | blocks allocated and not freed |
| `Complete` | the return of a value to its caller, which copies it with `list_append` or `object_set` and frees what it got |
| `Unwind` | `free_list`, `free_object` and `free(key)` on the error path of each call |
| `Stringify`, `ReadAgain` | `stringify_value`, and parsing what it has printed |

`Documents` is the reference: the texts that are documents with what they mean,
built from the grammar by length and without a parser. So what is shown of the parser is
everything but the spelling of numbers, which is `strtod`'s.

### Routes

`lib/server/annotations.abl` and `router.abl`. `meta` is what the annotations keep
on functions and classes; `captured` has the environment of the three nested
functions that have to remember something (`decorate` of a verb, `decorate` of
`@route`, `bound` of a handler), each captured once (`Closes`). `declared` and
`expected` are history variables. The lines of the library are Able code; what
they do is translated through the rules of the interpreter.

### ServerSpec and HttpServer

`ServerSpec` promises that connections are served one after the other, in the
order of arrival, each with one answer or, when its peer is gone, none.
`HttpServer` models the loop that is to keep it.

| In the model | In the code |
|---|---|
| `conn`, `size`, `headers_parsed`, `status` | `client_fd`, `buffer.size`, `headers_parsed`, `response.status_code` |
| `queue`, `wire` | the backlog of the listening socket, the receive buffers of the kernel |
| `Accept`, `Recv`, `RecvEnd`, `RecvFails` | `accept`, and `recv` returning some bytes, 0 or an error, with what `read_request_into_buffer` does then |
| `Dispatch` | `parse_request`, `find_route`, and the call of the function |
| `Text` | the string that `server.c:305` makes of the body: a copy up to the first NUL, whatever `body_length` says |
| `HandlerReturns`, `HandlerFails` | the rest of `server_handle_request` |
| `WriteResponse`, `WriteFails`, `WriteKills` | the loop around `send`, followed by `close` |
| `Connect`, `ClientSends`, `ClientFinishes`, `ClientVanishes` | the peers |

Bytes are counted in units; the sum of the lengths of header and body has the
width of `size_t` (`Modulus`). Of a body the model knows where its first NUL is
(`text`), if it has one. `handed` (for each call of a function, the length of the string it
got) and `answers` are history variables.

### HttpClient

One `http_client_perform`: its attempts (`Start`, `Decide`, `Fallback`), the
steps of an attempt (`CreateFile` to `Wait`, each with its failure), and the
`curl` process (`CurlAnswers`, `CurlWrites`, `CurlExits`, `CurlKilled`), which
shares with it two pipes of bounded capacity and a temporary file. `outcomes`,
`unread` and `lost` are history variables.

## 3. The runs

| Run | Instance | States | What it shows |
|---|---|---|---|
| `await` | 3 promises, 2 plain values, 3 nested awaits | 10,749 | bodies run once (`OneRunnerPerTakenTask`); an await answers with the end of the chain of results, and the answer stays true (`AnswerIsEndOfChain`); "still pending" means a re-entrant await (`StillPendingOnlyIfReentrant`); `PromiseSpec` is implemented (`KeepsPromises`); only a ring of promises is awaited for ever (`AwaitComesBack`) |
| `calls` | 5 environments, 2 literals (one inside the other), 4 names, 4 calls deep; 7 nested activations, stray escapes allowed | 133,466 | `NoDanglingEnv`, `RefsExact`, `ArgumentsBindLocally` with distinct names; `FramesBalanced`, `ReturnUnwinds`, `EscapeReachesItsLoop` |
| `modules` | 2 modules, `builtins` and the program, 4 names, layered imports, 4 files at once | 30,107 | `RunOnce`; a module exports what it never marked and not what it marked from the first on (`ExportsWhatItBinds`) |
| `private` | the same | violation | a name that was marked `@private` at its second assignment is exported (`MarkedIsNotExported`) |
| `definitions` | 2 classes, one derived from the other, and a function, 7 annotations with 3 handlers, 2 types made, 2 definitions at once | 208,924 | `AppliedInOrder`, `BodyHeldOnce`, `SeenTypesAreComplete` |
| `objects` | 2 variables, 1 attribute, 1 instance, 3 objects, chains of up to 2 attributes | 10,479 | `OwnersExact`; `ValueSpec` is implemented (`ObjectsAreValues`) as long as no place is assigned what it holds or a part of that |
| `lending` | 1 variable, 1 parameter, 3 blocks, 1 promise with up to 3 references, lists of up to 2 items, 3 calls and loops deep | 389,246 | one owner for each list, a promise counted by all that hold it, and no use after a free, unless a rule is broken (`SoundUnlessLapse`); loops visit no item twice (`VisitsEachOnce`) and leave none out but for removals (`EndsWithAll`) |
| `indentation` | texts of 5 regular lines, or with up to 3 lines in any of 3 columns | 672,933 | `TokensBalance`; levels are columns that are open (`LevelsAreOpenColumns`); regular texts are accepted (`RegularIsAccepted`) and nest as columns say (`StructureIsColumns`); `OverrunOnlyIfUnterminated` |
| `json_text` | texts of up to 9 symbols, one name, three kinds of number | 1,384,064 | `AcceptsExactly`, `RoundTrip`, `NothingLeaked`, `ReadsInText` |
| `http_server` | 2 connections, 7 kinds of request, 4 units of 2-unit headers and bodies in pieces of up to 2 | 462,354 | a function is called once at most, with the text of what was sent (`BodyIsWhatWasSent`); `RightAnswer`; `ServerSpec` is implemented (`ServesInTurn`); only a client that blocks the server, or its end, leaves one unserved (`Served`) |
| `http_client` | 3 attempts, outputs of up to 2 units, pipes of 1 | 24,628 | `NothingLeftBehind`, `ResultFollowsOutcomes`; the call comes back unless curl never answers or fills the pipe that is not being read (`CallComesBack`) |
| `routes` | 1 class with 2 methods, 2 verbs, 2 paths, 1 annotation each | violation | two annotated methods get one route's verb, path and handler |

**Bounds.** `MaxDepth`, `MaxActs`, `MaxStack` and `MaxNesting` bound the C stack,
`Promises`, `Envs` and `Blocks` the allocations, `MaxLength` and `MaxLines` texts
and lists.

- `await`: three promises are the smallest number with a ring of two beside a third
  that leads into it, and with a body that awaits a promise which awaits it back
  while a further await lies between; three nested awaits hold the main program's
  and two re-entrant ones. Two plain values make a wrong answer visible.
- `calls`: five environments hold a global one, a call, a call inside its arguments
  or its body, and captured ones that outlive their calls; four calls deep let
  the inner function run while several activations of code around it are alive,
  and freed blocks are used again. Seven activations hold a function with a loop that calls a function
  with a loop, each with the block of its turn, so a flag can leak both ways.
  `Scopes` and `Control` have no variable in common and no property reads both, so one
  of them runs while the other stays where it starts.
- `modules`: a module is imported by the program, by another module and by
  `builtins`, and names can clash with a native and with a global variable.
- `definitions`: a method has two decorators, one with a factory, and a modifier, a
  name has both kinds of handlers, and a second definition, of the same
  statement too, begins in any handler of the first; two types are a class and
  its copy or a subclass.
- `objects`: three addresses hold an object in an object beside one that is being
  copied; the instance can be held by a variable, by an object and by itself.
- `lending`: three blocks are those of the variable, a parameter or promise, and a
  copy on its way; three references are the one of the call that made a promise and
  two of the variable, a parameter and an await, in each combination; three levels hold a loop in a call in the program, a call in a
  loop, or a loop over the list that the loop around it goes through. Two items
  let a removal lie before, at and behind the index of a loop.
- `indentation`: three columns and five lines hold a header with a block that holds
  a header or an object literal, an `else`, and a line behind them; three lines in
  any columns hold an indentation that skips a column and a return to one that
  was never opened.
- `json_text`: nine symbols hold an object with a key given twice, a list in an
  object in a list, and a string with a pair of surrogates; the end of the text
  can lie behind any of them. A space, which is skipped, stands once in a text, and that
  text is one symbol shorter.
- `http_server`: one client can hold up or follow the other, a header arrives in one
  piece or two, alone or with its body, a body is shorter, as long as or longer
  than announced, or has a NUL behind its first unit, and the largest Content-Length
  overflows the sum.
- `http_client`: an output needs one or two turns of a pipe, so either pipe can be
  full.

The proofs show of eight of the modules that the bounds hide nothing for what is
proved (§4). Symmetry is used for addresses only (`calls`, `lending`), which the code
compares but does not order, and in runs without liveness.

**Deadlock** is checked in `json_text`, where a parse always goes on or is done.
The other runs do not check it: a program may end (`exited`, an empty stack, the
end of `main`), and TLC would report its end.

**Fairness** is used by three runs. In `await`, `WF_vars(InterpreterAwait)`: the
C loop of `interpreter_await` takes its next step whenever it has control; nothing in it
blocks. `SF_vars(FinishTask)`: a body whose turn keeps coming returns in the end.
This is an assumption on scripts, not on the interpreter: without it a body may
loop for ever in its own code, or await settled promises for ever, and
weak fairness would not do because each nested await takes control away from the
body for a while. Under it the only endless await is the ring.

In `http_server`, `WF_vars(ServerStep)`: the process goes on when no system call
blocks it, and functions of routes return. Clients owe nothing, as no call of
the server has a timeout; a client that is silent inside its request or does not
read its response is the exception `Blocked` of `Served`. In `http_client`,
`WF_vars(Step)` and `WF_vars(CurlRuns)`: neither process stops between system
calls. That curl gets an answer is not assumed, since it is started without a
time limit: `child = "asking"` for ever is an exception of `CallComesBack`.

Every property of a passing run has a mutant (`PROJECT.json`, "mutants"): a
variant of one action with a plausible mistake, defined before the action in
the same module, with which TLC finds the property violated.

### Findings

`routes`: a class with `@get one` and `@get("a") two` gets two routes that both call
`one`, and one with `@get("/a")` and `@post("/b")` gets two routes `GET /a`. The nested
functions of the library (`annotations.abl:106`, `:120`, `router.abl:31`) capture the
environment of their first evaluation (`interpreter.c:1338`) and no later one.
`tests/integration/test_server_router.py:7` ("test_build_routes_binds_handlers")
expects each method to have its own route (line 11); it passes because its two methods
return the same expression and only one annotation of a method has an argument.

`private`: the repository's `README.md:104` says "Functions or variables marked with
`@private` will not be exported when the module is imported." A module with `x = 1` and
then `@private x = 2` exports `x`, as 2*: an assignment to a variable that is there
already replaces its value and leaves `is_private` as it was (`env.c:58-64`). That
a name is not exported when it is marked where it is first bound is part of
`ExportsWhatItBinds`.

### What the exceptions and premises say

Many properties hold with an exception, and each exception is something the code
does. Those marked * were also seen on the built program.

- *Scopes.* After `x = 1`, calling `fun f(x)` with 5 leaves `x = 5` in the global
  environment*: parameters are bound with an assignment that climbs the chain
  (`interpreter.c:1149`, `env.c:55`); hence the distinct names of
  `ArgumentsBindLocally`. `fun f(a): return fun (): return a` and `h = f(7)` make `h()` fail
  with "variable 'a' is not defined"*, as the literal captures the environment of its
  first assignment (`interpreter.c:1338`), not the one it was written in.
- *Control.* A `break` outside every loop ends the *caller's* loop (`~stray` of
  `EscapeReachesItsLoop`).
- *Modules.* A module that assigns a name which is global writes to the global
  variable and does not export it (`Globals` of `ExportsWhatItBinds`); a name that was
  bound first and marked `@private` later is exported all the same (`marked`, `hid`; the
  second finding). Modules
  that import each other are run again and again until the C stack is used up*,
  because the cache is filled after the run (`module.c:94`); the run has layered
  imports.
- *Definitions.* A class statement that is executed twice makes a second class whose
  methods have empty bodies* (`taken` in `BodyHeldOnce`).
- *Objects.* `x = {}` followed by `x = x` copies an object that has just been freed*
  (`env.c:60`, `object.c:82` for attributes); `broken = "overlap"` in `OwnersExact`.
  `o.x.y = 5` where `o.x` is not there makes `o.x` an empty object and loses the 5*
  (`ValueSpec`). The first count of an instance is never given back, so no instance is
  ever freed.
- *Lending.* Each broken rule leads to memory used after it was freed*, or, for
  `xs.extend(xs)`, written past its end*: a variable given to an async call or to
  `Promise.resolve` loses its list (and a promise given to two such calls is freed
  while the variable holds it), an await of an async function that returns a
  global variable frees what that variable holds, and so do `for xs of xs` and
  `xs.append(f())` where `f` assigns `xs` anew. A loop whose body removes an item at or
  before its index skips one (`shifted`)*. The first count of a promise, for the call
  that made it, is never given back: no promise is freed unless a rule is broken.
- *Indentation.* A line indented too far does not open a block, but its DEDENT ends
  the block it stands in (the premise of `RegularIsAccepted` and `StructureIsColumns`).
  A text without a last newline is read past its end, one byte for each open
  column (`OverrunOnlyIfUnterminated`), and blanks before the end open one level more.
- *JSON.* Of a key given twice the last value stays, in the first place. `a\u0000b` is
  read as `a`*; a lone low surrogate is accepted*. Numbers are written with 15 digits;
  `1e999` is read as infinity and written as `inf`, which is rejected, while `-1e999` is written
  as `-inf`, which is accepted again* (`RoundTrip`). A text
  that ends with `"\ud83d` is read one byte past its NUL (`json.c:427`, `ReadsInText`).
- *HTTP server.* A Content-Length close to 2^64 is complete with the header (`~Fits` in
  `BodyIsWhatWasSent`)*; a body cut short by the client is handed on as if it were
  whole* (the same property); bytes that come in the same piece as the end of the body are
  handed on with it, and nothing from its first NUL on is (`Text`); a client that has
  gone may end the process by SIGPIPE (`WriteKills`)*.
- *HTTP client.* curl and the interpreter wait for each other when curl's errors do
  not fit into a pipe (`MutualWait`); two descriptors are lost when only the second
  pipe cannot be made (`lost`).

## 4. The proofs

| Theorem | Says |
|---|---|
| `AwaitProofs!InvariantHolds`, `TypeCorrect`, `OneRunner`, `ReentrantAwait` | the safety properties of `Await`, for any promises, values and depth |
| `AwaitProofs!AnswersEndOfChain` | answers are the ends of chains of any length, and stay true |
| `AwaitProofs!Refinement` | `Spec => KeepsPromises`: `Await` implements `PromiseSpec` |
| `CallsProofs!ScopesInvariantHolds`, `NoDangling` | no reachable environment is freed, for every source text |
| `CallsProofs!CountsExact` | reference counts are exact, for any number of environments |
| `CallsProofs!ControlInvariantHolds`, `Balanced`, `ReturnIsLocal`, `EscapeIsLocal` | all properties of `Control`, at any depth |
| `ClassesProofs!ObjectsInvariantHolds`, `OwnedOnce` | each object in memory has one owner, each instance is counted by all that hold it, and freed memory is used in one case only, for any variables, attributes, objects and instances |
| `ClassesProofs!ObjectsImplementValues` | `ObjectsSpec => ObjectsAreValues`: `Objects` implements `ValueSpec`, for any variables, attributes, objects and instances |
| `ModulesProofs!InvariantHolds`, `RunsOnce`, `MarkedHolds`, `ExportsBindings` | both properties of the run `modules`, for any files without circular imports |
| `ClassesProofs!OneHolder`, `WholeClasses` | bodies have one owner, and no script sees half a class, for every source text and any nesting |
| `ClassesProofs!AppliedAsAsked` | every handler that the annotations of a definition named is called once, in order, on what the one before it made, for any annotations, handlers and nesting |
| `IndentationProofs!TypeCorrect`, `Balanced`, `LevelsOpen`, `ReadsTextOnly` | types, balance, open levels and the end of the text, for texts of any length in any columns |
| `IndentationProofs!StructureFollowsColumns`, `AcceptsRegular` | a text whose lines go back to open columns only nests as its columns say and is not refused, for texts of any length in any columns |
| `LendingProofs!InvariantHolds`, `ListsHaveOneOwner` | a program that breaks none of the rules uses no freed memory, each of its lists has one owner and each promise is counted by all that hold it, for any variables, addresses, promises, lengths and depth |
| `LendingProofs!LoopsVisitOnce`, `LoopsEndWithAll` | a loop visits no item twice, and leaves out as many as were removed behind it, whatever its body and the calls in it do to the list |
| `HttpServerProofs!InvariantHolds`, `TypeCorrect`, `BodyAsSent`, `AnswersRight` | the safety properties of `HttpServer`, for any connections, requests, sizes and width of `size_t` |
| `HttpServerProofs!Refinement` | `Spec => ServesInTurn`: `HttpServer` implements `ServerSpec` |
| `HttpClientProofs!InvariantHolds`, `TypeCorrect`, `CleansUp`, `ReturnsLastOutcome` | the safety properties of `HttpClient`, for any number of attempts, capacity and output |

**Assumptions.** The named `ASSUME`s of the modules: promises and plain
values are disjoint and there are some; environments and literals are finite
sets; `NULL` is no environment; a header is shorter than 2^64; bounds are
positive; the methods of a class are finitely many; the lists that `Lending`'s
program can write are no longer than its bound; the variables, attributes, blocks and
instances of `Objects` are finitely many, there is an attribute, and 0 is the address
of the literal and of no instance. TLC evaluates each on every run. The theorems of
`ModulesProofs` have one more premise, which they name: there are levels
(`Layered(L)`) such that every file imports files of lower levels only. Without it
`RunOnce` is false of the code.

**Await.** `OneRunnerPerTakenTask` is not inductive by itself: `StartTask` runs the
top activation, so nothing may be known to be between two turns below it. The
invariant adds that every activation but the innermost is inside
`run_async_task`, that a task is kept only while its promise is pending, that a
settled promise has a result, and that an exit with "pending" left the stack as
it was. With it, a promise whose task is gone and which has not settled has a runner, so the
activation that finds it so is above that runner. The refinement maps "pending
without task" to *running*; the only delicate step is `FinishTask`, which must
find its promise running, and that is the first part of the same invariant.
For `AnswersEndOfChain`, "the end of the chain" is stated without recursion: a
promise leads to what is in every set that holds it and is closed under results.
Each activation's `current` is led to from its `origin`, and since results of
fulfilled promises never change, what was led to once always is.

**Scopes.** `NoDanglingEnv` needs to know why a count cannot reach zero too early.
The invariant says that every call has an environment of its own, other than
the global one for all but the first; that the count of an environment is at
least 1 for its call or a capture, and at least 2 for both; and that a parent is always an environment which some function has captured.
Captures are never undone, so a parent lives for ever: this, and not a
reference from the child, is what makes `env.c` safe. `CountsExact` follows each
step through the two sets whose cardinalities are counted, calls and captures,
which gain or lose one element or stay as they are.

**Control.** The invariant joins the types, the nesting of activations (which phase
an activation waits in tells what lies above it), the balance of frames, the
place of the `returning` mark and the place of the two flags. Each action moves
the top activation only, so the part of the stack below is carried over.

**Objects.** Instead of numbers of owners the invariant speaks of places: no two hold
one object (`Sole`), an object that is held is in memory (`HeldAreInUse`), one in
memory is held (`NoneLost`), and an instance that is held is counted once more than
it is held (`AllCounted`). What an object takes up (`Within`) is the least set with it
and, for each of its members, the objects which that holds; with `Sole`, whatever is within the
content of a place is held by that place or by a place within, and by nothing else. So
freeing the old value of a place takes nothing from any other place, and the
object that the place belongs to is not within it: up the chain, of at most
two attributes, every holder is held by the variable or the object before it. After an
assignment the places are the one assigned, those of the copies, and those that
were not freed. For `AllCounted` the places that hold an instance are counted by images:
at least as many go as the old value held counts for, and no more come than the new one
does. Memory is used after it was freed only if what is freed and what is copied
overlap, since all that is within a place is in memory.

That `Objects` implements `ValueSpec` needs one more invariant, `Grounded`: objects have
ranks, and what an object holds has a lower one, so no object is inside itself however often
chains are assigned to chains. With it the recursive `Pairs` has a value at every address
(`MeaningExists`, by the least rank at which it would have none), and only one:
two tables of objects in which the same is reached from two addresses mean the same
there (`MeaningMoves`). That is used three times for an assignment (`MeaningsAfter`): the
copy means what the original did, what was neither freed nor on the way to the place still means
what it did, and so does what other variables and instances hold (`OthersAfter`), as an object on the
way has one holder and that is on the way too (`WayHeld`, `WayIsClosed`). The holder of the place
means what it did with one attribute changed (`HolderAfter`), and the object around that, if any, with
that holder in it (`TopAfter`); together that is `Write` of `ValueSpec`
(`StoreMeans`). An assignment that finds its own value freed is a stutter. The copies take
the ranks of their originals and all other objects move above them, so whatever object
holds the new copy, `Grounded` holds again (`GroundedAfter`).

**Modules.** The files being run descend in level, so the file about to be loaded
is none of them; it is not in the cache either, and a file that was ever run is
in one of the two places (`Chain`, `Loaded`). What a file has bound is still under
the privacy it was bound with, or was global (`AllKept`), and the exports of a
file that has ended are what its environment has (`Final`), since only running
files bind names. What is hidden was marked (`MarkedHolds`).

**Definitions.** A `Function` keeps its origin and its body; only `BeginMethod` makes one that
holds the body of a method, when the node has not been taken, and takes it. So
there is one holder. For whole
classes the invariant says that values a script can have are types with all
their methods, that the bases of a type are such types, and that a definition in
progress has made the methods before its member; types only grow, in number and
in attributes, so what is complete stays complete. A type under construction is
in no value before `FinishStatement`. For the order of annotations the calls asked for
(`Asked`) are ordered by `Precedes`, and the invariant says of each definition in progress
that the handlers it goes by are those of the tables when it began (`HandlersFit`), that
the log is in order and each entry was given what the one before made (`LogFits`), and
that what has been called is just what was asked for before the call under way
(`PlaceFits`). `ModifierAfter` and `DecoratorBefore` go to the first call that is left
since nothing that was asked for lies between. A definition further down the stack does not
change, whatever the handlers above it do.

**Lending.** A state is a record (`Here`), and each operation on memory is a function
from states to states, so that a handler which clones, frees and clones again is
a composition of them. In the middle of it the state is not sound by itself: a list that has
been evaluated is owned by nobody yet, and a variable about to be set still has
its old list. So the invariant speaks of a state and of an account `f` of who
owns what: `Good(s, f)` says that no two owners share a list and that exactly the
owned ones are in memory (`Exact`), that a promise has one reference more than
owners (`Counted`), that a promise not made yet holds nothing (`Idle`), that what a frame
was lent belongs to a variable or to a frame further out (`Secured`), how
calls and loops nest (`Nested`) and what loops have seen (`AllMarked`). Between statements the
account is what the state holds (`Holdings`). There is one lemma for each memory
operation (taking on a copy, giving up a value, forgetting a loan, a value that changes
owner), which says how the account changes with the state; one for each action
puts those together. `Secured` is what the rules are for: as long as none is broken,
whatever frees a list is not lent it by anyone. For the loops, the items behind the
index that are not marked as visited (`Missed`) are no more than were removed there.
After the first broken rule nothing is claimed.

**Indentation.** Balance needs that the open columns rise strictly from 0, so that
each one is closed once, and that a line never closes more of them than are
open; the last theorem needs to know how far ahead the end of the text is at
each step of the lexer. That levels are open columns holds at the start of a
line for all lines before it: a line in column `c` closes every level right of `c`,
and these are the columns that it takes out of the open ones.

What a text means needs an invariant of both parts together (`StructureInv`). As long as
the text is regular, the columns tell what is on the lexer's stack (`ColumnsFit`: the last
line of the structure is on top, an object's first line still has its column there, and
so has every line that nothing has gone back behind); each level of the descent stands
for a line whose column is one below it on that stack, and nothing since has come as far
left (`LevelsFit`); and the token in hand tells how the two compare (`InLine`): the
parser is above the lexer by the DEDENTs that are still to come, level with it in front
of a statement, and inside the object literal that the line is in, whose INDENTs and
DEDENTs it skips. The proof goes half a step at a time: the parser takes a token
(`TokenTaken`, a lemma per action) and is then ready for any (`Ready`), and the lexer
finds the next one (`TokenFollows`), on a new line, in the rest of one, or behind the
last. In front of a statement both stacks are then of one height, so the line of the
top level is the last header to the left of it (`UnderTop`); a header further down would have left
its column in between. An `else` comes when its DEDENT has just ended the one level whose
line is in its column (`JoinsTop`). And since the place tells which tokens are expected
(`LineExpected`, `EndExpected`), a regular text is refused only at an end that leaves
something open. `Last`, which says where an entry or a header is found, is the
last number of a set since `<` is well-founded on `Nat` (`LeastNumber`).

**HttpServer.** `BodyIsWhatWasSent` speaks of bodies when they are handed on; that
they are right needs to be known while they arrive: what is in the buffer and on
the wire together is what the peer has sent, less what a reset has lost, and
`headers_parsed` says whether the header is in the buffer. While a request is being read
the buffer is short of what would complete it (`Serving`), so the piece that does complete
it brings less than one piece too much; that is the upper bound. `RightAnswer` needs
the same of the status between `Dispatch` and `send`. For the refinement, the
backlog holds no connection twice and none that is or was served; the phase of a
connection then follows from `closed` and `conn` alone, so every step but
`Connect`, `Accept` and the two ways to close is a stutter.

**HttpClient.** The invariant ties the place in the code to what is held there
(descriptors, process, file), the number of outcomes to the attempt, and the
units in a pipe to what curl has still to write and the interpreter has still to
read; so the end of both pipes, with status 0, means that all was read.

**Model-checked only.** `AwaitComesBack`, `Served` and `CallComesBack` (liveness
under fairness is out of the prover's reach); `ArgumentsBindLocally`, which
depends on the text: a function that is passed on before anything is assigned to it, and
then assigned by its own body, captures the environment of one of its own calls, and later arguments are
bound there. Names with one role each do not exclude that; in the text of the run the only function
that assigns is captured by the program before anything can be called;
all properties of `JsonText` (recursive operators over nested values).

## 5. Not modelled, and why

- Strings, numbers, operators and text conversions: functions of their
  arguments, without state. Logging and reading of files: pure I/O.
- The grammar of expressions and of class bodies in the parser; `ast.c`, which
  builds and frees nodes.
- What a text with more than 64 open columns does: the stack of levels is an
  array without a check, so the behaviour is undefined. `LevelsAreOpenColumns` says
  which texts these are.
- The protocol of `__iter__` and `__next__`, and loops over strings and ranges.
- The lookup of attributes through bases, bound methods, and assignments to
  attributes of classes and functions.
- Lists that hold lists, promises or objects, or are held by objects; chains of
  promises with their counts (`Await` has the chains, `Lending` the counts).
- The conversion of values to responses in `server.c`, of options and responses in
  `network.c`, the arguments of curl, the syntax of HTTP headers, and the
  middleware of the router library.
- Memory exhaustion: most results of `malloc` are not checked, and the process ends.

## 6. What remains

All modules named above are written and checked. What could be added next:

1. **Lookup**: attributes through bases, where two of them derive from a third, and
   bound methods.
2. **Runtime**: `Scopes` composed with `Await`, with the arguments of async calls
   bound when the body starts.
3. **Nested values in `Lending`**: lists in objects and objects in lists, which
   would join it with `Objects`.
4. **Proofs**: a condition on texts that implies `ArgumentsBindLocally`; `NothingLeaked` and
   `ReadsInText` of `JsonText`, with its recursive operators written as functions.
