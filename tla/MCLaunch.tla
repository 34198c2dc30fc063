------------------------------ MODULE MCLaunch ------------------------------
EXTENDS Launch, TLC

CONSTANTS s1, s2, a1, p1

\* Two starts of differently named VMs.
MCStarters == {s1, s2}
MCNameTwo == (s1 :> "vm1.sock") @@ (s2 :> "vm2.sock")

\* Two starts with the same cfg.Name.
MCStartersTwo == {s1, s2}
MCNameSame == (s1 :> "vm.sock") @@ (s2 :> "vm.sock")

\* One start and an attach to the socket it creates.
MCStarterOne == {s1}
MCAttacherOne == {a1}
MCNameShared == (s1 :> "vm.sock") @@ (a1 :> "vm.sock")

\* One start alone.
MCNameOne == (s1 :> "vm.sock")

MCNoAttachers == {}

\* An AttachByPIDContext given the pid of the first started QEMU.
MCPidAttachers == {p1}
MCTarget == p1 :> s2
MCNoTarget == [x \in {} |-> s1]

\* cfg.ExtraArgs: the first VM also has an HMP monitor on a socket of its
\* own, whose id also contains "monitor"; the second has none.
MCHmpMonitor ==
      << Flag("-chardev"),
         Opt(<< Part("", "socket"), Part("id", <<"char", "monitor">>),
                Part("path", "hmp.sock"), Part("server", "on"), Part("wait", "off") >>),
         Flag("-mon"),
         Opt(<< Part("chardev", <<"char", "monitor">>), Part("mode", "readline") >>) >>
MCExtraArgs == (s1 :> MCHmpMonitor @@ s2 :> << >>)
MCNoExtra == (s1 :> << >> @@ s2 :> << >>)
MCNoExtraOne == (s1 :> << >>)

\* s1 is started by StartContext, s2 by StartVMContext with a socket
\* serial port and an HMP monitor chardev in VMConfig.Chardevs.
MCStarts == (s1 :> "StartContext") @@ (s2 :> "StartVMContext")
MCSerials ==
    (s1 :> << >>) @@ (s2 :> << [type |-> "unix", path |-> "ser.sock"] >>)
MCChardevs ==
    (s1 :> << >>)
    @@ (s2 :> << [id |-> <<"hmp", "monitor">>, backend |-> "socket", path |-> "hmp2.sock"] >>)

\* Every start a StartContext without serials or chardevs.
MCStartsCtx == [q \in {s1, s2} |-> "StartContext"]
MCNone == [q \in {s1, s2} |-> << >>]
MCStartsCtxOne == (s1 :> "StartContext")
MCNoneOne == (s1 :> << >>)
=============================================================================
