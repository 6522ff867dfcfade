-------------------------- MODULE MCSettingsStore ---------------------------
EXTENDS SettingsStore
=============================================================================
