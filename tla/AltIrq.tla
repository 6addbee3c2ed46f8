------------------------------- MODULE AltIrq -------------------------------
(***************************************************************************)
(* Interrupts of the Nios II under the HAL (alt_irq.h, alt_legacy_irq.h,   *)
(* alt_iic.c, alt_iic_isr_register.c, alt_irq_handler.c): the processor's  *)
(* enable bit, the mask, the table of handlers and the loop that calls     *)
(* them, lowest number first, until nothing is pending.                    *)
(***************************************************************************)
EXTENDS Integers

CONSTANTS
    Irqs,               \* the interrupt lines that are connected
    TIMER_0_IRQ         \* the one whose handler masks interrupts itself

VARIABLES
    PIE,                \* the processor takes interrupts
    alt_irq_active,     \* the lines that are enabled: ienable
    alt_irq,            \* the lines that have a handler
    request,            \* the lines that are up
    level,              \* where the processor is in an interrupt, or "program"
    active,             \* alt_irq_handler's bit list
    serving,            \* the line being served
    irq_context,        \* the status a handler has saved
    register_step,      \* where the program is in alt_iic_isr_register
    context             \* the status alt_iic_isr_register has saved

handlerVars == <<level, active, serving, irq_context>>
registerVars == <<alt_irq_active, alt_irq, register_step, context>>
irqVars == <<PIE, request, handlerVars, registerVars>>

None == -1      \* no line

IrqInit ==
    /\ PIE = FALSE /\ alt_irq_active = {} /\ alt_irq = {} /\ request = {}
    /\ level = "program" /\ active = {} /\ serving = None /\ irq_context = FALSE
    /\ register_step = "begin" /\ context = FALSE

Pending == request \cap alt_irq_active
Lowest(i, S) == i \in S /\ \A j \in S : i <= j

\* Faulty variant: enabling whatever was the case before.
alt_irq_enable_all_Always(saved) == PIE' = TRUE

alt_irq_disable_all == PIE' = FALSE
alt_irq_enable_all(saved) == PIE' = saved

-----------------------------------------------------------------------------
(* alt_iic_isr_register, a step at a time.  Enabling the line masks and    *)
(* unmasks once more: that pair is within the step.                        *)

Register(i) ==
    /\ level = "program"
    /\ \/ /\ register_step = "begin" /\ register_step' = "handler"
          /\ context' = PIE /\ alt_irq_disable_all
          /\ UNCHANGED <<alt_irq, alt_irq_active>>
       \/ /\ register_step = "handler" /\ register_step' = "enable"
          /\ alt_irq' = alt_irq \cup {i}
          /\ UNCHANGED <<PIE, context, alt_irq_active>>
       \/ /\ register_step = "enable" /\ register_step' = "restore"
          /\ alt_irq_active' = alt_irq_active \cup {i}
          /\ alt_irq_enable_all(PIE)
          /\ UNCHANGED <<context, alt_irq>>
       \/ /\ register_step = "restore" /\ register_step' = "begin"
          /\ alt_irq_enable_all(context)
          /\ UNCHANGED <<context, alt_irq, alt_irq_active>>
    /\ UNCHANGED <<request, handlerVars>>

Registered == register_step = "restore"

-----------------------------------------------------------------------------
(* An interrupt. *)

\* A device raises its line, until its handler takes it down again.
Raise(i) == request' = request \cup {i} /\ UNCHANGED <<PIE, handlerVars, registerVars>>

\* The processor leaves the program: the exception entry has seen a pending
\* line and calls alt_irq_handler.
Interrupt ==
    /\ level = "program" /\ PIE /\ Pending # {}
    /\ PIE' = FALSE /\ level' = "entered"
    /\ UNCHANGED <<request, active, serving, irq_context, registerVars>>

\* The first look at the pending lines; it is not tested for being empty.
FirstPending ==
    /\ level = "entered" /\ level' = "search"
    /\ active' = Pending
    /\ UNCHANGED <<PIE, request, serving, irq_context, registerVars>>

\* The inner loop: the handler of the lowest line.  Without a line it would
\* shift its mask forever.
Search ==
    /\ level = "search" /\ level' = "handler"
    /\ \E i \in active : Lowest(i, active) /\ serving' = i
    /\ UNCHANGED <<PIE, request, active, irq_context, registerVars>>

\* The handler takes its line down; the timer's then masks interrupts.
Acknowledge ==
    /\ level = "handler" /\ level' = "work"
    /\ request' = request \ {serving}
    /\ irq_context' = PIE
    /\ IF serving = TIMER_0_IRQ THEN alt_irq_disable_all ELSE UNCHANGED PIE
    /\ UNCHANGED <<active, serving, registerVars>>

HandlerReturns ==
    /\ level = "work" /\ level' = "served"
    /\ IF serving = TIMER_0_IRQ THEN alt_irq_enable_all(irq_context) ELSE UNCHANGED PIE
    /\ serving' = None /\ irq_context' = FALSE
    /\ UNCHANGED <<request, active, registerVars>>

\* Around again, or back to the program, which had interrupts enabled.
NextPending ==
    /\ level = "served" /\ active' = Pending
    /\ IF Pending = {} THEN level' = "program" /\ PIE' = TRUE
                       ELSE level' = "search" /\ UNCHANGED PIE
    /\ UNCHANGED <<request, serving, irq_context, registerVars>>

alt_irq_handler == FirstPending \/ Search \/ Acknowledge \/ HandlerReturns \/ NextPending
=============================================================================
