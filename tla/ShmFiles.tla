------------------------------ MODULE ShmFiles ------------------------------
(***************************************************************************)
(* The arguments of bridged calls on their way from the program through    *)
(* dispatch of internal/bridge/dispatcher.go to shim/worker.py, and the    *)
(* files in /dev/shm that carry arrays.                                    *)
(*                                                                         *)
(* Every dispatch has a ShmManager of its own: it unpacks the array        *)
(* arguments of one call into files, in order, the worker reads them by    *)
(* their paths, and FreeAll removes them when dispatch returns.  For a     *)
(* result the worker creates a file, which dispatch reads and unlinks.     *)
(* The requests run concurrently, each with its worker; one request makes  *)
(* its calls one after the other.                                          *)
(***************************************************************************)
EXTENDS Naturals, Sequences, FiniteSets, SequencesExt

CONSTANTS Requests,
          ArgKinds,   \* the kinds of arguments programs pass
          MaxArgs,    \* bound: arguments of a call
          MaxCalls    \* bound: calls of all requests together

\* plain: None, a boolean, a text, an integer up to 2^53, a fraction, or a list
\* or dict of those.  loose: what JSON and the float64 of interface{} do not
\* keep: a whole float, an integer beyond 2^53, a tuple, a dict whose keys are no
\* texts.  object: anything else that is no array (a set, a range, bytes).
\* array: an array with bytes.  empty: an array without elements, so that b64 is
\* "" in its JSON.  nested: a list or dict with arrays.  hollow: an array with
\* elements that a result was to bring and whose bytes the program never got:
\* b64 is "" again.
Values == {"plain", "loose", "object"}
AllArgKinds == Values \cup {"array", "empty", "nested", "hollow"}

ASSUME ArgKindsAssumption == ArgKinds \subseteq AllArgKinds
ASSUME BoundsAssumption == MaxArgs \in Nat /\ MaxCalls \in Nat

VARIABLES
    call,         \* the call each request is making, or has made last
    shmCounter,   \* the counter of shmName
    argFiles,     \* files of ShmManagers that exist
    resultFiles,  \* files of workers that exist: numbers of calls
    hollowed,     \* the programs that have been given a hollow array
    calls         \* how many calls there have been

vars == <<call, shmCounter, argFiles, resultFiles, hollowed, calls>>

NoFile == 0

\* resolving: in resolveArgs and the loop over the kwargs.  executing: in
\* Worker.Call.  encoding: has the result.  freeing: in the deferred FreeAll.
Steps == {"idle", "resolving", "executing", "encoding", "freeing"}

\* What the worker has in the place of an argument: the value that was passed;
\* the nearest one that JSON has; its str(); the bytes of another array.
Forms == {"same", "nearest", "text", "another", "lost"}

\* id: its number.  resolved: the files of the arguments done so far.  blocks:
\* the files of its ShmManager, by handle.  given: what the worker has computed
\* with.  result: what it returned.  got: what the program is sent, values
\* converted as on the way there; "hollow" is an array without its bytes.
NewCall(n, kinds) ==
    [step |-> "resolving", id |-> n, args |-> kinds, resolved |-> << >>,
     blocks |-> << >>, given |-> << >>, result |-> "none", got |-> "none"]

\* dispatch has returned, and what it knew of the call is gone.
Returned(c) == [NewCall(c.id, << >>) EXCEPT !.step = "idle", !.got = c.got]

Init ==
    /\ call = [r \in Requests |->
                  Returned(NewCall(0, << >>))]
    /\ shmCounter = 0
    /\ argFiles = {}
    /\ resultFiles = {}
    /\ hollowed = {}
    /\ calls = 0

\* The call of r goes on as c.
Becomes(r, c) == call' = [call EXCEPT ![r] = c]
-----------------------------------------------------------------------------
(* Faulty variants: what plausible mistakes would make of the definitions    *)
(* below.                                                                    *)

\* An error of resolveArg returns before FreeAll is deferred.
Fail_NotFreed(r) ==
    Becomes(r, [call[r] EXCEPT !.step = "idle", !.got = "error"])

\* The name of a file is used again.
ResolveArray_NameReused(r) ==
    /\ call[r].step = "resolving"
    /\ Len(call[r].resolved) < Len(call[r].args)
    /\ call[r].args[Len(call[r].resolved) + 1] = "array"
    /\ argFiles' = argFiles \cup {shmCounter + 1}
    /\ Becomes(r, [call[r] EXCEPT !.resolved = Append(@, shmCounter + 1),
                                  !.blocks = Append(@, shmCounter + 1)])
    /\ UNCHANGED <<shmCounter, resultFiles, hollowed, calls>>

\* The requests share one ShmManager.
FreeAll_Shared(r) ==
    /\ call[r].step = "freeing"
    /\ argFiles' = {}
    /\ Becomes(r, Returned(call[r]))
    /\ UNCHANGED <<shmCounter, resultFiles, hollowed, calls>>

\* A file that is not there is read as an empty array.
Decodes_MissingIsEmpty(c, i) ==
    c.args[i] \in Values \cup {"nested"} \/ c.resolved[i] \in argFiles

\* The file is read and not removed.
Encode_NotUnlinked(r) ==
    /\ call[r].step = "encoding"
    /\ Becomes(r, [call[r] EXCEPT !.step = "freeing",
                                  !.got = IF call[r].result = "nested"
                                          THEN "hollow" ELSE "value"])
    /\ hollowed' = IF call[r].result = "nested" THEN hollowed \cup {r}
                                              ELSE hollowed
    /\ UNCHANGED <<shmCounter, argFiles, resultFiles, calls>>
-----------------------------------------------------------------------------
\* dispatch begins.  Bounds: MaxArgs, MaxCalls.
Begin(r) ==
    /\ call[r].step = "idle"
    /\ calls < MaxCalls
    /\ calls' = calls + 1
    /\ \E n \in 0..MaxArgs : \E kinds \in [1..n -> ArgKinds] :
          /\ "hollow" \in ToSet(kinds) => r \in hollowed
          /\ Becomes(r, NewCall(calls + 1, kinds))
    /\ UNCHANGED <<shmCounter, argFiles, resultFiles, hollowed>>

\* dispatch returns an error; FreeAll is deferred.
Fail(r) == Becomes(r, [call[r] EXCEPT !.step = "freeing", !.got = "error"])

NextArg(r) == call[r].args[Len(call[r].resolved) + 1]

Resolving(r) ==
    /\ call[r].step = "resolving"
    /\ Len(call[r].resolved) < Len(call[r].args)

\* resolveArg leaves alone what is not an array, arrays in a list included.
ResolveOther(r) ==
    /\ Resolving(r)
    /\ NextArg(r) \in Values \cup {"nested"}
    /\ Becomes(r, [call[r] EXCEPT !.resolved = Append(@, NoFile)])
    /\ UNCHANGED <<shmCounter, argFiles, resultFiles, hollowed, calls>>

\* The bytes of an array go to a new file, of a name no other call uses.
ResolveArray(r) ==
    /\ Resolving(r)
    /\ NextArg(r) = "array"
    /\ shmCounter' = shmCounter + 1
    /\ \/ /\ argFiles' = argFiles \cup {shmCounter'}
          /\ Becomes(r, [call[r] EXCEPT !.resolved = Append(@, shmCounter'),
                                        !.blocks = Append(@, shmCounter')])
       \/ Fail(r) /\ UNCHANGED argFiles    \* the file cannot be created or mapped
    /\ UNCHANGED <<resultFiles, hollowed, calls>>

\* An array without b64 is taken for one that names its block by a handle, and
\* its handle is 0: the first block of the call, if there is one.
ResolveEmpty(r) ==
    /\ Resolving(r)
    /\ NextArg(r) \in {"empty", "hollow"}
    /\ IF call[r].blocks # << >>
       THEN Becomes(r, [call[r] EXCEPT !.resolved = Append(@, Head(call[r].blocks))])
       ELSE Fail(r)
    /\ UNCHANGED <<shmCounter, argFiles, resultFiles, hollowed, calls>>

CallWorker(r) ==
    /\ call[r].step = "resolving"
    /\ Len(call[r].resolved) = Len(call[r].args)
    /\ Becomes(r, [call[r] EXCEPT !.step = "executing"])
    /\ UNCHANGED <<shmCounter, argFiles, resultFiles, hollowed, calls>>

\* A value on its way: _ser_one, then Go, which decodes it into interface{} and
\* encodes that for the worker: 1.0 comes as 1.
Wire(kind) == CASE kind = "plain"  -> "same"
                [] kind = "loose"  -> "nearest"
                [] kind = "object" -> "text"

\* _deser of argument i, which reads the file at the path it has been given.
Received(c, i) ==
    CASE c.args[i] \in Values -> Wire(c.args[i])
      [] c.args[i] \notin Values /\ c.resolved[i] \notin argFiles -> "lost"
      [] OTHER -> IF \E j \in DOMAIN c.args \ {i} :
                        c.args[j] = "array" /\ c.resolved[j] = c.resolved[i]
                  THEN "another" ELSE "same"

\* _deser of argument i returns: a nested array has no path; an empty one has the
\* path of a file whose bytes do not fit its shape; to a hollow one they may fit,
\* and Execute and ExecuteFails are both possible then.
Decodes(c, i) ==
    \/ c.args[i] \in Values
    \/ c.args[i] \in {"array", "hollow"} /\ c.resolved[i] \in argFiles

DecodesAll(c) == \A i \in DOMAIN c.args : Decodes(c, i)

\* The worker computes the result of what it has been given; _ser writes the
\* arrays in it to files.
Execute(r) ==
    /\ call[r].step = "executing"
    /\ DecodesAll(call[r])
    /\ \E kind \in {"plain", "array", "nested"} :
          /\ Becomes(r, [call[r] EXCEPT
                            !.step = "encoding", !.result = kind,
                            !.given = [i \in DOMAIN call[r].args |-> Received(call[r], i)]])
          /\ resultFiles' = IF kind = "plain" THEN resultFiles
                            ELSE resultFiles \cup {call[r].id}
    /\ UNCHANGED <<shmCounter, argFiles, hollowed, calls>>

\* An argument does not decode, the function raises, or the worker dies; or
\* json.dumps raises, when arrays of the result may be in their files.
ExecuteFails(r) ==
    /\ call[r].step = "executing"
    /\ Fail(r)
    /\ \/ UNCHANGED resultFiles
       \/ DecodesAll(call[r]) /\ resultFiles' = resultFiles \cup {call[r].id}
    /\ UNCHANGED <<shmCounter, argFiles, hollowed, calls>>

\* encodeNDArrayResult for a result that is an array; any other goes to the
\* program as the worker sent it.
Encode(r) ==
    /\ call[r].step = "encoding"
    /\ Becomes(r, [call[r] EXCEPT !.step = "freeing",
                                  !.got = IF call[r].result = "nested"
                                          THEN "hollow" ELSE "value"])
    /\ resultFiles' = IF call[r].result = "array"
                      THEN resultFiles \ {call[r].id} ELSE resultFiles
    /\ hollowed' = IF call[r].result = "nested" THEN hollowed \cup {r}
                                              ELSE hollowed
    /\ UNCHANGED <<shmCounter, argFiles, calls>>

\* The file of a result cannot be read, and stays.
EncodeFails(r) ==
    /\ call[r].step = "encoding"
    /\ call[r].result = "array"
    /\ Fail(r)
    /\ UNCHANGED <<shmCounter, argFiles, resultFiles, hollowed, calls>>

FreeAll(r) ==
    /\ call[r].step = "freeing"
    /\ argFiles' = argFiles \ ToSet(call[r].blocks)
    /\ Becomes(r, Returned(call[r]))
    /\ UNCHANGED <<shmCounter, resultFiles, hollowed, calls>>

Dispatch(r) == \/ Begin(r)
               \/ ResolveOther(r) \/ ResolveArray(r) \/ ResolveEmpty(r)
               \/ CallWorker(r) \/ Execute(r) \/ ExecuteFails(r)
               \/ Encode(r) \/ EncodeFails(r) \/ FreeAll(r)

Next == \E r \in Requests : Dispatch(r)

Spec == Init /\ [][Next]_vars
-----------------------------------------------------------------------------
(* Properties *)

Calls == [step : Steps, id : Nat, args : Seq(ArgKinds), resolved : Seq(Nat),
          blocks : Seq(Nat), given : Seq(Forms),
          result : {"none", "plain", "array", "nested"},
          got : {"none", "value", "hollow", "error"}]

\* Every variable has its type, and no file has a name, and no call a number,
\* that is yet to be given out.
TypeOK ==
    /\ call \in [Requests -> Calls]
    /\ \A r \in Requests :
          /\ call[r].id \in 0..calls
          /\ ToSet(call[r].blocks) \subseteq 1..shmCounter
    /\ shmCounter \in Nat /\ calls \in 0..MaxCalls
    /\ argFiles \subseteq 1..shmCounter
    /\ resultFiles \subseteq 1..calls
    /\ hollowed \subseteq Requests

\* The files of arguments are those of the calls in progress: whichever step of
\* a call fails, nothing stays in tmpfs ("freeing them per-call keeps tmpfs
\* pressure bounded").
ArgFilesBounded ==
    /\ argFiles = UNION {ToSet(call[r].blocks) : r \in Requests}
    /\ \A r \in Requests : call[r].step = "idle" => call[r].blocks = << >>

\* While a worker executes a call, the files of its array arguments exist and
\* are no other call's, whatever the calls beside it free.
ArgsReadable ==
    \A r \in Requests : call[r].step = "executing" =>
        \A i \in DOMAIN call[r].args : call[r].args[i] = "array" =>
            /\ call[r].resolved[i] \in argFiles
            /\ \A s \in Requests \ {r} :
                  call[r].resolved[i] \notin ToSet(call[s].blocks)

\* What a result has been computed from is what the program passed, or what the
\* wire makes of it by rule: for a whole float, a large integer or a tuple the
\* nearest value of JSON (dispatcher.go:163 decodes into interface{}), for an
\* object its text (bootstrap.py:118).  Nothing else takes the place of an
\* argument that got lost on the way, but for a hollow array, for which another
\* argument of the same call stands: nothing of another call or another program,
\* whose files are in the same directory.
NoSilentLoss ==
    \A r \in Requests : call[r].result # "none" =>
        \A i \in DOMAIN call[r].args :
            \/ call[r].args[i] \in {"plain", "array"} /\ call[r].given[i] = "same"
            \/ call[r].args[i] = "loose" /\ call[r].given[i] = "nearest"
            \/ call[r].args[i] = "object" /\ call[r].given[i] = "text"
            \/ /\ call[r].args[i] = "hollow" /\ call[r].given[i] = "another"
               /\ \E j \in 1..(i - 1) : /\ call[r].args[j] = "array"
                                        /\ call[r].resolved[j] = call[r].resolved[i]

\* The file of a result the program has been given is gone.  (That of a result
\* whose arrays are nested, or that is lost with its worker, stays.)
ResultUnlinked ==
    \A r \in Requests : call[r].got = "value" => call[r].id \notin resultFiles
-----------------------------------------------------------------------------
(* The inductive invariant *)

\* A call: its arguments are resolved in order, each array to a block of its own,
\* and what is taken for a handle to the first block, which an array filled.
CallInv(c) ==
    /\ Len(c.resolved) <= Len(c.args)
    /\ c.step \in {"executing", "encoding"} => Len(c.resolved) = Len(c.args)
    /\ \A i \in DOMAIN c.resolved :
          /\ c.args[i] = "array" /\ c.step \in {"resolving", "executing"} =>
                c.resolved[i] \in ToSet(c.blocks)
          /\ c.args[i] \in {"empty", "hollow"} =>
                \E j \in 1..(i - 1) : /\ c.args[j] = "array"
                                      /\ c.resolved[j] = c.resolved[i]
    /\ c.step \in {"resolving", "executing"} =>
          \A i \in DOMAIN c.resolved : \A j \in DOMAIN c.resolved \ {i} :
              c.args[i] = "array" /\ c.args[j] = "array" =>
                  c.resolved[i] # c.resolved[j]
    /\ c.step = "resolving" /\ c.blocks # << >> =>
          \E j \in DOMAIN c.resolved : /\ c.args[j] = "array"
                                       /\ c.resolved[j] = Head(c.blocks)
    /\ c.step \in {"resolving", "executing"} => c.result = "none"
    /\ c.step = "encoding" => c.result # "none"
    /\ c.step \in {"resolving", "executing", "encoding"} => c.got = "none"
    /\ c.step = "idle" => c.blocks = << >>
    /\ c.step # "idle" => c.id > 0

\* Files belong to one call each, and calls have numbers of their own.
FileInv ==
    /\ argFiles = UNION {ToSet(call[r].blocks) : r \in Requests}
    /\ \A r \in Requests : \A s \in Requests \ {r} :
          /\ ToSet(call[r].blocks) \cap ToSet(call[s].blocks) = {}
          /\ call[r].id = call[s].id => call[r].id = 0

\* The file of a result is there only after the call has been executed, and not
\* when the result has been delivered.
ResultInv ==
    \A r \in Requests : call[r].id \in resultFiles =>
        /\ call[r].step \notin {"resolving", "executing"}
        /\ call[r].step = "encoding" => call[r].result # "plain"
        /\ call[r].got # "value"

IInv == /\ TypeOK
        /\ \A r \in Requests : CallInv(call[r])
        /\ FileInv
        /\ ResultInv
        /\ NoSilentLoss
-----------------------------------------------------------------------------
(* What a comment of bootstrap.py says, and the code does not do *)

\* "the host always inlines the raw bytes in the bridge response (the Go side
\* keeps a shm handle separately for the case where the array is later
\* re-passed through the bridge)": a result that is passed on is what the next
\* result is computed from.
RepassedIntact ==
    \A r \in Requests : call[r].result # "none" =>
        \A i \in DOMAIN call[r].args :
            call[r].args[i] = "hollow" => call[r].given[i] = "same"
=============================================================================
