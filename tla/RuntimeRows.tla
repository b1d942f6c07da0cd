------------------------------ MODULE RuntimeRows ------------------------------
(***************************************************************************)
(* process_metadata (app/processors/converters.py): the rows written for a *)
(* runtime the first time a block of it, or a child of such a block, is    *)
(* added.  The rows go in under a savepoint of their own and are committed *)
(* whatever becomes of the block.                                          *)
(*                                                                         *)
(* The metadata of a runtime is the sequence of its pallets; of a pallet,  *)
(* its name, how many calls, events, storage items and errors it has, and  *)
(* its constants: their type, and whether the value can be decoded.        *)
(***************************************************************************)
EXTENDS Integers, Tables, SequencesExt

\* The metadata of a runtime.
IsMetadata(pallets) ==
  /\ IsList(pallets)
  /\ \A i \in DOMAIN pallets :
       LET p == pallets[i]
       IN {p.calls, p.events, p.storage, p.errors} \subseteq Nat /\ IsList(p.constants)

\* Mutant of ModuleId: the name is taken as it is.
ModuleIdPlain(modules, name) == <<name, 0>>

\* A second pallet of a name is called name_1.
ModuleId(modules, name) == IF <<name, 0>> \in DOMAIN modules THEN <<name, 1>> ELSE <<name, 0>>

\* The row of a module with the rows of its calls, events, storage items, errors
\* and constants: an index each, by which they are looked up.
RuntimeCalls(pallet) == 1 .. pallet.calls
RuntimeEvents(pallet) == 1 .. pallet.events
RuntimeStorage(pallet) == 1 .. pallet.storage
RuntimeErrors(pallet) == 1 .. pallet.errors
RuntimeConstants(pallet) == 1 .. Len(pallet.constants)

ModuleRow(pallet) ==
  [calls |-> RuntimeCalls(pallet), events |-> RuntimeEvents(pallet),
   storage |-> RuntimeStorage(pallet), errors |-> RuntimeErrors(pallet),
   constants |-> RuntimeConstants(pallet)]

\* A constant that cannot be decoded is written down with the type of the one
\* before it, which is all the variable holds; the first of a runtime finds
\* no such type, and raises.
WithConstant(r, constant) ==
  LET type == IF constant.decodes THEN constant.type ELSE r.type
  IN [r EXCEPT !.type = type,
               !.raised = @ \/ type = Null,
               !.constants = Append(@, [type |-> type])]

WithConstants(r, pallet) == FoldLeft(WithConstant, r, pallet.constants)

\* The totals of the runtime row.
Totals(counts, pallet) ==
  [modules |-> counts.modules,
   calls |-> counts.calls + pallet.calls,
   events |-> counts.events + pallet.events,
   storage |-> counts.storage + pallet.storage,
   constants |-> counts.constants + Len(pallet.constants),
   errors |-> counts.errors + pallet.errors]

\* The rows of a pallet, unless one before it has ended the processing.
WithPallet(r, pallet) ==
  LET id == ModuleId(r.modules, pallet.name)
  IN IF r.clash \/ r.raised THEN r
     ELSE IF id \in DOMAIN r.modules THEN [r EXCEPT !.clash = TRUE]
     ELSE [WithConstants(r, pallet) EXCEPT !.modules = Put(@, id, ModuleRow(pallet)),
                                           !.counts = Totals(@, pallet)]

NoRuntime(pallets) ==
  [modules |-> NoRows, constants |-> <<>>, type |-> Null, raised |-> FALSE, clash |-> FALSE,
   counts |-> [modules |-> Len(pallets), calls |-> 0, events |-> 0, storage |-> 0,
               constants |-> 0, errors |-> 0]]

\* What comes of a runtime's metadata.  A third pallet of a name hits a key: the
\* savepoint is rolled back, and the block goes on without a runtime row.
Processed(pallets) == FoldLeft(WithPallet, NoRuntime(pallets), pallets)

\* The call that meets a new runtime fails with it.
Raises(runtimes, spec, pallets) == spec \notin DOMAIN runtimes /\ Processed(pallets).raised

WithRuntime(runtimes, spec, pallets) ==
  LET r == Processed(pallets)
  IN IF spec \in DOMAIN runtimes \/ r.clash \/ r.raised THEN runtimes
     ELSE Put(runtimes, spec, [counts |-> r.counts, modules |-> r.modules])
==============================================================================
