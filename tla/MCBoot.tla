------------------------------- MODULE MCBoot -------------------------------
(* Boards for Boot: two that are supported, and one for each thing missing. *)
EXTENDS Boot

Over(irq, gsi) == [type |-> "OVERRIDE", irq |-> irq, gsi |-> gsi]
Cpu == [type |-> "CPU", irq |-> 0, gsi |-> 0]
IoApic == [type |-> "IO_APIC", irq |-> 0, gsi |-> 0]
Madt(items) == <<[signature |-> "FACP", items |-> <<>>], [signature |-> "APIC", items |-> items]>>

Elf == [magic |-> "elf", exec |-> "none"]
Other == [magic |-> "other", exec |-> "none"]
Tar(exec) == [magic |-> "ustar", exec |-> exec]

Usual == [apic |-> "x2", enabled |-> TRUE, pic |-> TRUE, rsdp |-> "RSDT_V2",
          tables |-> Madt(<<Cpu, IoApic, Over(0, 2), Over(3, 3)>>), wiring |-> <<Over(0, 2)>>,
          modules |-> <<Tar("elf")>>]

MCBoards ==
  { Usual,
    [Usual EXCEPT !.apic = "x", !.pic = FALSE, !.rsdp = "RSDT_V1",
                  !.modules = <<Tar("other"), Elf, Other, Tar("none")>>],
    [Usual EXCEPT !.modules = <<Elf>>],
    [Usual EXCEPT !.modules = <<Tar("none")>>],
    [Usual EXCEPT !.modules = <<Elf, Tar("other")>>],
    [Usual EXCEPT !.enabled = FALSE],
    [Usual EXCEPT !.apic = "x", !.enabled = FALSE],
    [Usual EXCEPT !.apic = "none", !.pic = FALSE],
    [Usual EXCEPT !.rsdp = "none"],
    [Usual EXCEPT !.tables = Madt(<<Cpu, IoApic>>), !.wiring = <<>>],
    [Usual EXCEPT !.tables = Madt(<<Cpu, Over(0, 2)>>)],
    [Usual EXCEPT !.tables = Madt(<<IoApic, Over(3, 3)>>), !.wiring = <<>>] }
=============================================================================
