------------------------------- MODULE MCLocate -------------------------------
EXTENDS Locate, TLC

Bin == <<"qemu-system", "x86_64">>

UsrBin   == [abs |-> TRUE,  at |-> <<"usr", "bin">>]
LocalBin == [abs |-> TRUE,  at |-> <<"usr", "local", "bin">>]
PkgBin   == [abs |-> TRUE,  at |-> <<"pkg", "main", "app-emulation.qemu.core", "bin">>]
\* "bin", relative to the working directory
RelBin   == [abs |-> FALSE, at |-> <<"bin">>]

MCHome == <<"home", "u">>

MCArchToQemu == ("amd64" :> "x86_64") @@ ("arm64" :> "aarch64")

\* "" (the host's) and an arch archToQemu lacks.
MCArches == {"", "sparc"}

\* No override, or the directory "bin" next to the caller.
MCCustomPaths == {NoPath, RelBin}

MCPathEnvs == {<<UsrBin>>, <<RelBin, UsrBin>>}

MCSearchPaths == <<PkgBin, UsrBin, LocalBin>>

\* The default directory, or "sock" relative to the caller.
MCSocketDirs == {NoPath, [abs |-> FALSE, at |-> <<"sock">>]}

MCCacheDirs == {[abs |-> TRUE, at |-> <<"home", "u", ".cache">>], NoPath}

\* The binary in /usr/bin, in the caller's bin/, and in /bin.
MCFiles == {<<"usr", "bin", Bin>>, <<"home", "u", "bin", Bin>>, <<"bin", Bin>>}
=============================================================================
