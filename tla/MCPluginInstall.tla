-------------------------- MODULE MCPluginInstall --------------------------
(* Two installations of one plugin, with payloads of their own.            *)
EXTENDS PluginInstall
=============================================================================
