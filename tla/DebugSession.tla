---------------------------- MODULE DebugSession ----------------------------
(***************************************************************************)
(* A program in CTM debugged through the RSP server: the breakpoints of    *)
(* Breakpoints, the harts that execute the patched memory, the server that *)
(* continues and steps them one after the other (multicore_actions, cont   *)
(* and single_step in libs/rsp_server_stub.rs), its 40 seconds for a       *)
(* continue, and its restart (main in bin/nfp_rsp.rs).                     *)
(*                                                                         *)
(* The client (external) is a debugger as GDB: at its prompt memory holds  *)
(* no breakpoints; to resume, it steps the harts that stand on breakpoints *)
(* over them, inserts all, resumes, and removes all when the answer comes. *)
(* After the server has died it starts it again, halts the harts and loads *)
(* the program.  Requests other than a continue are one step each.         *)
(* Definitions with a suffix are slips the code might have had.            *)
(***************************************************************************)
EXTENDS Breakpoints

CONSTANTS
  Branch,    \* the instruction word that branches to word 0
  Plan,      \* what the client asks for: sequences of [action, core]
  Reloads    \* the client loads the program after a restart

ASSUME BranchAssumption == Branch \in Text
ASSUME CtmAssumption ==
  /\ \A b \in Bp : b.ctm
  /\ \A b, c \in Bp : b.off = c.off => b = c
  /\ \A w \in Write : w.ctm /\ w.len = 2
ASSUME ReloadsAssumption == Reloads \in BOOLEAN

Action == [action : {"c", "s", "t"}, core : Core]

\* A vCont packet says at most one thing about a core.
ASSUME PlanAssumption ==
  \A p \in Plan : /\ p \in Seq(Action)
                  /\ \A i \in DOMAIN p : p[i].action # "t"
                  /\ \A j, k \in DOMAIN p : p[j].core = p[k].core => j = k

VARIABLES
  hart,      \* hart[k]: pc, running, and trap: ebreak enters debug mode (dcsr.ebreakm)
  alive,     \* the server has not panicked
  todo,      \* the actions left of the packet it handles
  polling,   \* it waits for the hart of the first of them to halt
  mode,      \* what the client is about
  wanted,    \* the breakpoints its user has set
  over,      \* the cores it has yet to step over the breakpoints they stand on
  plan       \* the actions it is to send then

server == <<alive, todo, polling>>
client == <<mode, wanted, over, plan>>
dsvars == <<vars, hart, server, client>>

SessionInit ==
  /\ Init /\ \A k \in Core, i \in Off : text[k][i] = Branch
  /\ hart = [k \in Core |-> [pc |-> 0, running |-> FALSE, trap |-> FALSE]]
  /\ alive = TRUE /\ todo = <<>> /\ polling = FALSE
  /\ mode = "prompt" /\ wanted = {} /\ over = {} /\ plan = <<>>

-----------------------------------------------------------------------------
(* The harts                                                               *)

Fetched(k) == mem[CTM][hart[k].pc]

\* Where an instruction leads: on, round, or for an ebreak without debugger to the
\* trap handler, which starts over.
Follows(k) == IF Fetched(k) \in {Branch, Ebreak} \/ hart[k].pc = LastWord
              THEN 0 ELSE hart[k].pc + 1

Execute(k) == /\ hart[k].running
              /\ Fetched(k) = Ebreak => ~hart[k].trap
              /\ hart' = [hart EXCEPT ![k].pc = Follows(k)]
              /\ UNCHANGED <<vars, server, client>>

Break(k) == /\ hart[k].running /\ Fetched(k) = Ebreak /\ hart[k].trap
            /\ hart' = [hart EXCEPT ![k].running = FALSE]
            /\ UNCHANGED <<vars, server, client>>

-----------------------------------------------------------------------------
(* The server                                                              *)

Handles(a) == alive /\ todo # <<>> /\ Head(todo).action = a /\ ~polling
Current == Head(todo).core

cont_FlagNotSet ==
  /\ Handles("c") /\ multicore_actions(Current)
  /\ hart' = [hart EXCEPT ![Current].running = TRUE]
  /\ polling' = TRUE
  /\ UNCHANGED <<alive, todo, client>>

\* rfpc_dbg_continue up to its poll loop: ebreaks halt the hart from now on.
cont ==
  /\ Handles("c") /\ multicore_actions(Current)
  /\ hart' = [hart EXCEPT ![Current].running = TRUE, ![Current].trap = TRUE]
  /\ polling' = TRUE
  /\ UNCHANGED <<alive, todo, client>>

halted_NotPolled ==
  /\ alive /\ polling
  /\ hart' = [hart EXCEPT ![Current].trap = FALSE]
  /\ polling' = FALSE /\ todo' = Tail(todo)
  /\ UNCHANGED <<vars, alive, client>>

\* The poll loop finds the hart halted; the next action of the packet is due.
halted ==
  /\ alive /\ polling /\ ~hart[Current].running
  /\ hart' = [hart EXCEPT ![Current].trap = FALSE]
  /\ polling' = FALSE /\ todo' = Tail(todo)
  /\ UNCHANGED <<vars, alive, client>>

\* A step would panic on a cause that is not "step", a breakpoint that traps: the
\* client never gets there.
single_step ==
  /\ Handles("s") /\ multicore_actions(Current)
  /\ ~hart[Current].running /\ (Fetched(Current) = Ebreak => ~hart[Current].trap)
  /\ hart' = [hart EXCEPT ![Current].pc = Follows(Current)]
  /\ todo' = Tail(todo)
  /\ UNCHANGED <<alive, polling, client>>

halt ==
  /\ Handles("t") /\ multicore_actions(Current)
  /\ hart' = [hart EXCEPT ![Current].running = FALSE]
  /\ todo' = Tail(todo)
  /\ UNCHANGED <<alive, polling, client>>

\* The process ends and takes the table with it; the breakpoints stay in memory and
\* a hart that runs goes on.
Die == /\ alive' = FALSE /\ polling' = FALSE /\ todo' = <<>>
       /\ breakpoints' = [b \in Bp |-> <<>>]
       /\ UNCHANGED <<rfpc, mem, text, home, strayed, hart, client>>

timeout_OnceHalted == alive /\ polling /\ ~hart[Current].running /\ Die

\* The 40 seconds have passed, which is seen before the hart is looked at again.
timeout == alive /\ polling /\ Die

\* Ctrl-C, which the server looks for between two packets.
shutdown == alive /\ todo = <<>> /\ Die

-----------------------------------------------------------------------------
(* The client                                                              *)

Ready == alive /\ todo = <<>>
To(m) == mode' = m /\ UNCHANGED <<wanted, over, plan>>
Send(actions, m) == /\ Ready /\ todo' = actions /\ To(m)
                    /\ UNCHANGED <<vars, hart, alive, polling>>

Toggle(b) == /\ mode = "prompt"
             /\ wanted' = IF b \in wanted THEN wanted \ {b} ELSE wanted \union {b}
             /\ UNCHANGED <<vars, hart, server, mode, over, plan>>

Edit(w, v) == /\ mode = "prompt" /\ Ready /\ memory_write(w, v)
              /\ UNCHANGED <<hart, server, client>>

OnBreakpoint(k) == \E b \in wanted : b.off = hart[k].pc

\* continue or stepi: harts that stand on a breakpoint are stepped over it first, one
\* after the other, which is all a stepi of one of them asks for.
Resume(p) ==
  /\ mode = "prompt" /\ Ready
  /\ over' = {p[i].core : i \in {j \in DOMAIN p : OnBreakpoint(p[j].core)}}
  /\ plan' = IF \E i \in DOMAIN p : p[i].action = "s" /\ p[i].core \in over' THEN <<>> ELSE p
  /\ mode' = "over"
  /\ UNCHANGED <<vars, hart, server, wanted>>

StepOver(k) == /\ mode = "over" /\ Ready /\ k \in over
               /\ over' = over \ {k}
               /\ todo' = <<[action |-> "s", core |-> k]>>
               /\ UNCHANGED <<vars, hart, alive, polling, mode, wanted, plan>>

SteppedOver == /\ mode = "over" /\ Ready /\ over = {}
               /\ To(IF plan = <<>> THEN "prompt" ELSE "insert")
               /\ UNCHANGED <<vars, hart, server>>

Insert(b) == /\ mode = "insert" /\ Ready /\ b \in wanted
             /\ set_breakpoint(b)
             /\ UNCHANGED <<hart, server, client>>

Go == mode = "insert" /\ (\A b \in wanted : IsSet(b)) /\ Send(plan, "wait")

Answered == mode = "wait" /\ Ready /\ To("remove") /\ UNCHANGED <<vars, hart, server>>

Remove(b) == /\ mode = "remove" /\ Ready /\ b \in wanted
             /\ clear_breakpoint(b)
             /\ UNCHANGED <<hart, server, client>>

Prompt == /\ mode = "remove" /\ Ready /\ \A b \in Bp : ~IsSet(b)
          /\ To("prompt") /\ UNCHANGED <<vars, hart, server>>

\* A new server: an empty table and the core of the command line.
Restart == /\ ~alive /\ alive' = TRUE /\ rfpc' = First
           /\ To("restarted")
           /\ UNCHANGED <<breakpoints, mem, text, home, strayed, hart, todo, polling>>

HaltAll == /\ mode = "restarted"
           /\ \E k \in Core :
                /\ hart[k].running
                /\ Send(<<[action |-> "t", core |-> k]>>, "restarted")

\* load: memory_write of the program and a write of pc.
Load == /\ mode = "restarted" /\ Ready /\ \A k \in Core : ~hart[k].running
        /\ mem' = IF Reloads THEN [mem EXCEPT ![CTM] = text[CTM]] ELSE mem
        /\ hart' = [k \in Core |-> [hart[k] EXCEPT !.pc = 0]]
        /\ To("prompt")
        /\ UNCHANGED <<rfpc, breakpoints, text, home, strayed, server>>

-----------------------------------------------------------------------------
Serve == cont \/ halted \/ single_step \/ halt \/ timeout
React == \/ SteppedOver \/ Go \/ Answered \/ Prompt \/ Restart \/ HaltAll \/ Load
         \/ \E k \in Core : StepOver(k)
         \/ \E b \in Bp : Insert(b) \/ Remove(b)
User == \/ shutdown
        \/ \E b \in Bp : Toggle(b)
        \/ \E w \in Write, v \in Text : Edit(w, v)
        \/ \E p \in Plan : Resume(p)
SessionNext == (\E k \in Core : Execute(k) \/ Break(k)) \/ Serve \/ React \/ User

\* The server's thread runs, and the client goes on with what its user has asked for.
SessionSpec == SessionInit /\ [][SessionNext]_dsvars /\ WF_dsvars(Serve) /\ WF_dsvars(React)

-----------------------------------------------------------------------------
(* Properties                                                              *)

\* Every variable has its type.
SessionTypeOK ==
  /\ TypeOK
  /\ hart \in [Core -> [pc : Off, running : BOOLEAN, trap : BOOLEAN]]
  /\ alive \in BOOLEAN /\ polling \in BOOLEAN
  /\ todo \in Seq(Action) /\ plan \in Seq(Action)
  /\ mode \in {"prompt", "over", "insert", "wait", "remove", "restarted"}
  /\ wanted \subseteq Bp /\ over \subseteq Core

\* Debugging is transparent: every instruction a hart executes is one of the client's
\* program, and none under a breakpoint that is set (set_breakpoint, clear_breakpoint
\* and rfpc_dbg_continue together), until a server has died of a timeout.
Moves(k) == hart[k].pc # hart'[k].pc /\ mode # "restarted"
ExecutesText ==
  [][\A k \in Core : Moves(k) /\ alive => Fetched(k) = text[CTM][hart[k].pc]]_dsvars

\* When a continue is answered every hart it named stands on a breakpoint.
StopsAsAsked ==
  mode = "remove" => \A i \in DOMAIN plan : plan[i].action = "c" => OnBreakpoint(plan[i].core)

\* While the server handles packets memory is the program with the breakpoints of its
\* table in it; so at the prompt it is the program, whatever was set, edited, resumed,
\* and whatever servers died.
PromptMemory ==
  alive /\ mode # "restarted" =>
    \A i \in Off : mem[CTM][i] = IF \E b \in Bp : IsSet(b) /\ b.off = i THEN Ebreak
                                 ELSE text[CTM][i]

\* The user gets his prompt back, of programs too that never reach a breakpoint, unless
\* he stops servers for ever.
BackAtPrompt == []<>(mode = "prompt") \/ []<><<shutdown>>_dsvars
=============================================================================
