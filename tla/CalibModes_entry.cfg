\* A test selected while another one runs.
SPECIFICATION Spec
CONSTANTS
    Width = 1000
PROPERTIES
    FirstEntryResets
