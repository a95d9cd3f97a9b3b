----------------------------- MODULE MCLogging -----------------------------
(* A message of kmain before Serial_init and one after it, the exception's   *)
(* line and its screen, on machines with and without a port.                 *)
EXTENDS Logging, TLC

Time == <<9, 30, 59>>

\* "Loading GDT...", its words as one character each.
Loading == [format |-> <<Lit("Loading"), Lit("GDT")>>, args |-> <<>>]

\* A line with every kind of directive: an entry of the memory map.
Entry(number) ==
    [format |-> <<Lit("Entry"), Directive("d"), Directive("x"), Directive("o"),
                  Directive("c"), [is |-> "odd"], Directive("s"), Directive("d")>>,
     args |-> <<number, number, number, Char("K"), <<Char("type"), Char("1")>>, 2>>]

Unhandled ==
    [format |-> <<Lit("Unhandled"), Directive("s")>>, args |-> <<<<Char("Page"), Char("fault")>>>>]

Comment == [format |-> <<Directive("s")>>, args |-> <<<<Char("oops")>>>>]

Where ==
    [format |-> <<Lit("In"), Directive("s"), Directive("d")>>,
     args |-> <<<<Char("exceptions.c")>>, 29>>]

To(device, text) == [i \in DOMAIN text |-> device]

Logged(status, module, m) ==
    To("serial", log(status, Time, <<Char(module)>>, m.format, m.args))

Cputf(m) == To("screen", VBE_cputf(m.format, m.args))
Putf(m) == To("screen", VBE_putf(m.format, m.args))

\* Up to twice the unsigned int, and around the bases.
Numbers == {0, 7, 8, 9, 10, 15, 16, 60, 63, 64, 75, 127}

Machine(port, settings, number) ==
    [present |-> port, right |-> settings,
     lidt |-> 10,
     before |-> Logged("INFO", "GDT", Loading),
     after |-> Logged("INFO", "PMM", Entry(number)) \o Putf(Entry(number)),
     panic |-> Logged("PANIC", "PMM", Unhandled)
               \o Cputf(Comment) \o Cputf(Unhandled) \o Putf(Where),
     said |-> {Loading, Entry(number), Unhandled, Comment, Where}]

AllMachines ==
    {Machine(p, s, n) : p \in BOOLEAN, s \in BOOLEAN, n \in Numbers}
=============================================================================
